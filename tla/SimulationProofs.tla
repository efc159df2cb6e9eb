-------------------------- MODULE SimulationProofs --------------------------
(***************************************************************************)
(* Proofs about the simulator, for every topology: that its own graph is   *)
(* the network in every trace of failures and recoveries, and that every   *)
(* repetition of the converge experiment starts fresh and ends with routes *)
(* that work.                                                              *)
(*                                                                         *)
(* The second is an argument about flooding.  Each packet of interest, the *)
(* notification of an end of the failed link or the update of a controller *)
(* for a switch, has at any time reached a set of nodes, and travels on    *)
(* every link that leads from those to others (Flooding).  Every step keeps*)
(* this (SpreadStep), so when nothing travels any more the set is closed   *)
(* under the links that are up.                                            *)
(***************************************************************************)
EXTENDS ExperimentProps, ControlPlaneProofs

-----------------------------------------------------------------------------
(* The simulator's graph.                                                  *)

Pairs == {Ends[l] : l \in {k \in Links : SwitchLink(k)}}

\* The pairs that _nsmap has when the links ls are up.
HostsOf(ls) == {<<h, SwitchOf(h)>> : h \in {n \in Endpoints : AccessLink(n) \in ls}}

\* The inductive invariant: the graph is the network, and its edges are counted
\* for the pairs of switches that have a link.
GraphInv ==
  /\ hist \in [Links -> Seq(States)]
  /\ edges \in [Pairs -> Nat]
  /\ live \in SUBSET Links
  /\ GraphIsNetwork

-----------------------------------------------------------------------------
\* The links that are up after a change: the changed one as it was set.
LEMMA GraphUpAfter ==
  ASSUME GraphInv, NEW l \in Links, NEW s \in States, hist' = [hist EXCEPT ![l] = Append(@, s)]
  PROVE  /\ hist' \in [Links -> Seq(States)]
         /\ s = "UP" => Up(hist') = live \cup {l}
         /\ s = "DOWN" => Up(hist') = live \ {l}
<1>1. hist \in [Links -> Seq(States)] /\ live = Up(hist)
  BY DEF GraphInv, GraphIsNetwork
<1>2. hist[l] \in Seq(States)
  BY <1>1
<1>3. Append(hist[l], s) \in Seq(States) /\ Last(Append(hist[l], s)) = s
  BY <1>2, AppendProperties DEF Last
<1>4. hist' \in [Links -> Seq(States)] /\ hist'[l] = Append(hist[l], s)
      /\ \A m \in Links : m # l => hist'[m] = hist[m]
  BY <1>1, <1>3
<1> QED
  BY <1>1, <1>3, <1>4 DEF Up, States

\* A link between two switches is no end host's link.
LEMMA NoAccess ==
  ASSUME NEW l \in Links, SwitchLink(l), NEW h \in Endpoints
  PROVE  AccessLink(h) # l
BY AccessLinkType, TopologyAssumption DEF SwitchLink

\* The end host at any other link: the link is its access link.
LEMMA EndHostType ==
  ASSUME NEW l \in Links, ~ SwitchLink(l)
  PROVE  /\ EndHost(l) \in Endpoints /\ AccessLink(EndHost(l)) = l
         /\ Other(l, EndHost(l)) = SwitchOf(EndHost(l))
         /\ \A n \in Endpoints : AccessLink(n) = l => n = EndHost(l)
<1>1. EndHost(l) \in Ends[l] /\ EndHost(l) \notin Switches
  BY DEF EndHost, SwitchLink
<1>2. EndHost(l) \in Endpoints
  BY <1>1, OneEndHost DEF Nodes
<1>3. AccessLink(EndHost(l)) = l
  BY <1>1, <1>2, AccessLinkType
<1>4. \A n \in Endpoints : AccessLink(n) = l => n = EndHost(l)
  BY <1>1, AccessLinkType, OneEndHost, TopologyAssumption
<1> QED
  BY <1>2, <1>3, <1>4 DEF SwitchOf

\* The pairs of _nsmap after the link of an end host has changed.
LEMMA HostsAfter ==
  ASSUME NEW ls \in SUBSET Links, NEW l \in Links, ~ SwitchLink(l)
  PROVE  /\ AddHost(HostsOf(ls), l) = HostsOf(ls \cup {l})
         /\ RemoveHost(HostsOf(ls), l) = HostsOf(ls \ {l})
<1> DEFINE h == EndHost(l)
<1>1. /\ h \in Endpoints /\ AccessLink(h) = l /\ Other(l, h) = SwitchOf(h)
      /\ \A n \in Endpoints : AccessLink(n) = l => n = h
  BY EndHostType
<1> HIDE DEF h
<1>2. (\E e \in HostsOf(ls) : e[1] = h) <=> l \in ls
  <2>1. ASSUME NEW e \in HostsOf(ls), e[1] = h PROVE l \in ls
    <3>1. PICK n \in Endpoints : AccessLink(n) \in ls /\ e = <<n, SwitchOf(n)>>
      BY <2>1 DEF HostsOf
    <3> QED
      BY <1>1, <2>1, <3>1
  <2>2. ASSUME l \in ls PROVE <<h, SwitchOf(h)>> \in HostsOf(ls) /\ <<h, SwitchOf(h)>>[1] = h
    BY <1>1, <2>2 DEF HostsOf
  <2> QED
    BY <2>1, <2>2
<1>3. HostsOf(ls \cup {l}) = HostsOf(ls) \cup {<<h, SwitchOf(h)>>}
  BY <1>1 DEF HostsOf
<1>4. l \in ls => HostsOf(ls \cup {l}) = HostsOf(ls)
  <2>1. l \in ls => ls \cup {l} = ls
    OBVIOUS
  <2> QED
    BY <2>1
<1>5. AddHost(HostsOf(ls), l) = HostsOf(ls \cup {l})
  <2>1. AddHost(HostsOf(ls), l) = IF \E e \in HostsOf(ls) : e[1] = h THEN HostsOf(ls)
                                  ELSE HostsOf(ls) \cup {<<h, SwitchOf(h)>>}
    BY <1>1 DEF AddHost, h
  <2> QED
    BY <1>2, <1>3, <1>4, <2>1
<1>6. RemoveHost(HostsOf(ls), l) = {e \in HostsOf(ls) : e[1] # h}
  BY DEF RemoveHost, h
<1>7. {e \in HostsOf(ls) : e[1] # h} = HostsOf(ls \ {l})
  BY <1>1 DEF HostsOf
<1> QED
  BY <1>5, <1>6, <1>7

LEMMA HostsKept ==
  ASSUME NEW ls \in SUBSET Links, NEW l \in Links, SwitchLink(l)
  PROVE  HostsOf(ls \cup {l}) = HostsOf(ls) /\ HostsOf(ls \ {l}) = HostsOf(ls)
BY NoAccess DEF HostsOf

\* The edges after the link of two switches has changed.
LEMMA EdgesAfter ==
  ASSUME GraphInv, NEW l \in Links, SwitchLink(l)
  PROVE  /\ AddEdge(edges, l) \in [Pairs -> Nat] /\ RemoveEdge(edges, l) \in [Pairs -> Nat]
         /\ \A m \in Links : SwitchLink(m) =>
              /\ AddEdge(edges, l)[Ends[m]] = IF m \in live \cup {l} THEN 1 ELSE 0
              /\ RemoveEdge(edges, l)[Ends[m]] = IF m \in live \ {l} THEN 1 ELSE 0
<1>1. edges \in [Pairs -> Nat] /\ Ends[l] \in Pairs
  BY DEF GraphInv, Pairs
<1>2. \A m \in Links : SwitchLink(m) =>
        /\ Ends[m] \in Pairs /\ edges[Ends[m]] = (IF m \in live THEN 1 ELSE 0)
        /\ m # l => Ends[m] # Ends[l]
  BY SimulationAssumption DEF GraphInv, GraphIsNetwork, Pairs
<1>3. edges[Ends[l]] = IF l \in live THEN 1 ELSE 0
  BY <1>2
<1>4. CASE l \in live
  <2>1. AddEdge(edges, l) = edges /\ RemoveEdge(edges, l) = [edges EXCEPT ![Ends[l]] = 0]
    BY <1>1, <1>3, <1>4 DEF AddEdge, RemoveEdge
  <2> QED
    BY <1>1, <1>2, <1>4, <2>1
<1>5. CASE l \notin live
  <2>1. AddEdge(edges, l) = [edges EXCEPT ![Ends[l]] = 1] /\ RemoveEdge(edges, l) = edges
    BY <1>1, <1>3, <1>5 DEF AddEdge, RemoveEdge
  <2> QED
    BY <1>1, <1>2, <1>5, <2>1
<1> QED
  BY <1>4, <1>5

LEMMA EdgesKept ==
  ASSUME GraphInv, NEW l \in Links, ~ SwitchLink(l), NEW m \in Links, SwitchLink(m)
  PROVE  /\ edges[Ends[m]] = IF m \in live \cup {l} THEN 1 ELSE 0
         /\ edges[Ends[m]] = IF m \in live \ {l} THEN 1 ELSE 0
BY DEF GraphInv, GraphIsNetwork

-----------------------------------------------------------------------------
LEMMA InitGraphInv == SimulationInit => GraphInv
<1>1. SUFFICES ASSUME SimulationInit PROVE GraphInv
  OBVIOUS
<1>2. <<"UP">> \in Seq(States) /\ Last(<<"UP">>) = "UP"
  BY DEF States, Last
<1>3. hist = [l \in Links |-> <<"UP">>]
  BY <1>1 DEF SimulationInit, Init
<1>4. hist \in [Links -> Seq(States)] /\ Up(hist) = Links
  BY <1>2, <1>3 DEF Up
<1>5. edges = [e \in Pairs |-> 1] /\ live = Links /\ nsmap = {<<h, SwitchOf(h)>> : h \in Endpoints}
  BY <1>1 DEF SimulationInit, Pairs
<1>6. {n \in Endpoints : AccessLink(n) \in live} = Endpoints
  BY <1>5, AccessLinkType
<1>7. \A l \in Links : SwitchLink(l) => edges[Ends[l]] = 1
  BY <1>5 DEF Pairs
<1> QED
  BY <1>4, <1>5, <1>6, <1>7 DEF GraphInv, GraphIsNetwork

LEMMA SetLinkUpKeepsGraphInv ==
  ASSUME GraphInv, NEW l \in Links, SetLinkUp(l)
  PROVE  GraphInv'
<1>1. hist' = [hist EXCEPT ![l] = Append(@, "UP")] /\ AddGraphLink(l)
  BY DEF SetLinkUp, SetLink
<1>2. hist' \in [Links -> Seq(States)] /\ Up(hist') = live \cup {l}
  BY <1>1, GraphUpAfter DEF States
<1>3. live' = live \cup {l} /\ live' \in SUBSET Links /\ live \in SUBSET Links
  <2>1. SwitchLink(l) => edges[Ends[l]] = IF l \in live THEN 1 ELSE 0
    BY DEF GraphInv, GraphIsNetwork
  <2>2. live' = live \cup {m \in {l} : SwitchLink(m) => edges[Ends[m]] = 0}
    BY <1>1 DEF AddGraphLink
  <2> QED
    BY <2>1, <2>2 DEF GraphInv
<1>4. nsmap = HostsOf(live)
  BY DEF GraphInv, GraphIsNetwork, HostsOf
<1>5. CASE SwitchLink(l)
  <2>1. edges' = AddEdge(edges, l) /\ nsmap' = nsmap
    BY <1>1, <1>5 DEF AddGraphLink
  <2>2. nsmap' = HostsOf(live')
    BY <1>3, <1>4, <1>5, <2>1, HostsKept
  <2>3. edges' \in [Pairs -> Nat]
        /\ \A m \in Links : SwitchLink(m) => edges'[Ends[m]] = IF m \in live' THEN 1 ELSE 0
    BY <1>3, <1>5, <2>1, EdgesAfter
  <2> QED
    BY <1>2, <1>3, <2>2, <2>3 DEF GraphInv, GraphIsNetwork, HostsOf
<1>6. CASE ~ SwitchLink(l)
  <2>1. edges' = edges /\ nsmap' = AddHost(nsmap, l)
    BY <1>1, <1>6 DEF AddGraphLink
  <2>2. nsmap' = HostsOf(live')
    BY <1>3, <1>4, <1>6, <2>1, HostsAfter
  <2>3. edges' \in [Pairs -> Nat]
        /\ \A m \in Links : SwitchLink(m) => edges'[Ends[m]] = IF m \in live' THEN 1 ELSE 0
    BY <1>3, <1>6, <2>1, EdgesKept DEF GraphInv
  <2> QED
    BY <1>2, <1>3, <2>2, <2>3 DEF GraphInv, GraphIsNetwork, HostsOf
<1> QED
  BY <1>5, <1>6

LEMMA SetLinkDownKeepsGraphInv ==
  ASSUME GraphInv, NEW l \in Links, SetLinkDown(l)
  PROVE  GraphInv'
<1>1. hist' = [hist EXCEPT ![l] = Append(@, "DOWN")] /\ RemoveGraphLink(l)
  BY DEF SetLinkDown, SetLink
<1>2. hist' \in [Links -> Seq(States)] /\ Up(hist') = live \ {l}
  BY <1>1, GraphUpAfter DEF States
<1>3. live' = live \ {l} /\ live' \in SUBSET Links /\ live \in SUBSET Links
  <2>1. SwitchLink(l) => edges[Ends[l]] = IF l \in live THEN 1 ELSE 0
    BY DEF GraphInv, GraphIsNetwork
  <2>2. live' = live \ {m \in {l} : SwitchLink(m) => edges[Ends[m]] > 0}
    BY <1>1 DEF RemoveGraphLink
  <2> QED
    BY <2>1, <2>2 DEF GraphInv
<1>4. nsmap = HostsOf(live)
  BY DEF GraphInv, GraphIsNetwork, HostsOf
<1>5. CASE SwitchLink(l)
  <2>1. edges' = RemoveEdge(edges, l) /\ nsmap' = nsmap
    BY <1>1, <1>5 DEF RemoveGraphLink
  <2>2. nsmap' = HostsOf(live')
    BY <1>3, <1>4, <1>5, <2>1, HostsKept
  <2>3. edges' \in [Pairs -> Nat]
        /\ \A m \in Links : SwitchLink(m) => edges'[Ends[m]] = IF m \in live' THEN 1 ELSE 0
    BY <1>3, <1>5, <2>1, EdgesAfter
  <2> QED
    BY <1>2, <1>3, <2>2, <2>3 DEF GraphInv, GraphIsNetwork, HostsOf
<1>6. CASE ~ SwitchLink(l)
  <2>1. edges' = edges /\ nsmap' = RemoveHost(nsmap, l)
    BY <1>1, <1>6 DEF RemoveGraphLink
  <2>2. nsmap' = HostsOf(live')
    BY <1>3, <1>4, <1>6, <2>1, HostsAfter
  <2>3. edges' \in [Pairs -> Nat]
        /\ \A m \in Links : SwitchLink(m) => edges'[Ends[m]] = IF m \in live' THEN 1 ELSE 0
    BY <1>3, <1>6, <2>1, EdgesKept DEF GraphInv
  <2> QED
    BY <1>2, <1>3, <2>2, <2>3 DEF GraphInv, GraphIsNetwork, HostsOf
<1> QED
  BY <1>5, <1>6

\* No other event changes a link or the graph.
LEMMA OtherEventKeepsGraphInv == GraphInv /\ OtherEvent => GraphInv'
<1>1. SUFFICES ASSUME GraphInv, OtherEvent PROVE UNCHANGED <<hist, edges, nsmap, live>>
  BY DEF GraphInv, GraphIsNetwork
<1>2. UNCHANGED <<edges, nsmap, live>>
  BY <1>1 DEF OtherEvent, graph
<1>3. UNCHANGED hist
  BY <1>1 DEF OtherEvent, Deliver, Lose, SendSwitchInfoRequest, SendRoutingRequest
<1> QED
  BY <1>2, <1>3

\* The inductive invariant holds in every simulation.
THEOREM GraphInvariantHolds == SimulationSpec => []GraphInv
<1>1. GraphInv /\ [SimulationNext]_simulationVars => GraphInv'
  <2>1. SUFFICES ASSUME GraphInv, [SimulationNext]_simulationVars PROVE GraphInv'
    OBVIOUS
  <2>2. CASE UNCHANGED simulationVars
    BY <2>1, <2>2 DEF GraphInv, GraphIsNetwork, simulationVars, vars, graph
  <2> QED
    BY <2>1, <2>2, SetLinkUpKeepsGraphInv, SetLinkDownKeepsGraphInv, OtherEventKeepsGraphInv
       DEF SimulationNext
<1> QED
  BY InitGraphInv, <1>1, PTL DEF SimulationSpec

\* In every topology and every trace the graph that check_routes measures with is
\* the network.
THEOREM GraphStaysNetwork == SimulationSpec => []GraphIsNetwork
<1>1. GraphInv => GraphIsNetwork
  BY DEF GraphInv
<1> QED
  BY <1>1, GraphInvariantHolds, PTL

\* The simulator adds nothing to the behaviours of the control plane, so that the
\* theorems of ControlPlaneProofs hold in every simulation.
THEOREM SimulationIsControlPlane == SimulationSpec => Spec
<1>1. SimulationInit => Init
  BY DEF SimulationInit
<1>2. [SimulationNext]_simulationVars => [Next]_vars
  BY DEF SimulationNext, SetLinkUp, SetLinkDown, OtherEvent, Next, simulationVars
<1> QED
  BY <1>1, <1>2, PTL DEF SimulationSpec, Spec

-----------------------------------------------------------------------------
(* The converge experiment: flooding.                                      *)

\* The packets that travel over k[1] towards k[2].
On(ch, k) == ToSet(ch[k])

\* Node n reaches the other end of channel k over a link of up.
Puts(up, n, k) == k[1] \in up /\ n \in Ends[k[1]] \ {k[2]}

\* The packets that the node o has for the node d, or for all.
IsOf(o, d, p) == p.src = o /\ p.dst = d

\* The nodes S have seen the packet that o floods to d: the packet travels to
\* the neighbours of S, and the others do not filter it.
Flooding(up, ch, fl, o, d, S) ==
  /\ o \in S
  /\ \A k \in Chans : \A n \in (S \cap (Switches \cup {o})) \ {d} :
       Puts(up, n, k) => k[2] \in S \/ \E p \in On(ch, k) : IsOf(o, d, p)
  /\ \A k \in Chans : \A p \in On(ch, k) : IsOf(o, d, p) =>
       Ends[k[1]] \ {k[2]} \subseteq S /\ \A n \in Receivers \ S : p.id \notin fl[n]

\* Packets with the same identifier are copies of one packet, and switches and
\* controllers remember only identifiers of packets that travel.
Identified(ch, fl) ==
  /\ \A j, k \in Chans : \A p \in On(ch, j), q \in On(ch, k) : p.id = q.id => p = q
  /\ \A n \in Receivers : fl[n] \subseteq Travelling(ch)

-----------------------------------------------------------------------------
LEMMA TravellingOn ==
  ASSUME NEW ch, DOMAIN ch = Chans, NEW x
  PROVE  x \in Travelling(ch) <=> \E k \in Chans : \E p \in On(ch, k) : p.id = x
BY DEF Travelling, On, ToSet

\* The other end of a link is one node.
LEMMA OtherEnd ==
  ASSUME NEW k \in Chans
  PROVE  \E m \in Nodes : Ends[k[1]] = {k[2], m} /\ m # k[2] /\ Ends[k[1]] \ {k[2]} = {m}
<1>1. PICK e, n : e = Ends[k[1]] /\ n = k[2]
  OBVIOUS
<1>2. k[1] \in Links /\ n \in e
  BY <1>1 DEF Chans
<1>3. e \in SUBSET Nodes /\ Cardinality(e) = 2
  BY <1>1, <1>2, TopologyAssumption
<1>4. IsFiniteSet(e)
  BY <1>3, TopologyAssumption, FS_Subset
<1>5. Cardinality(e \ {n}) = 1 /\ IsFiniteSet(e \ {n})
  BY <1>2, <1>3, <1>4, FS_RemoveElement
<1>6. PICK m : e \ {n} = {m}
  BY <1>5, FS_Singleton
<1>7. e = {n, m} /\ m # n /\ m \in Nodes
  BY <1>2, <1>3, <1>6
<1> QED
  BY <1>1, <1>6, <1>7

\* What travels after a node has put packets on its links.
LEMMA OnFlood ==
  ASSUME NEW ch \in [Chans -> Seq(TypedPackets)], NEW up, NEW n, NEW packets \in Seq(TypedPackets),
         NEW except, NEW k \in Chans, NEW q
  PROVE  q \in On(Flood(ch, up, n, packets, except), k) <=>
           q \in On(ch, k) \/ (Puts(up \ {except}, n, k) /\ q \in ToSet(packets))
<1>1. ToSet(ch[k] \o packets) = ToSet(ch[k]) \cup ToSet(packets)
  BY ToSetConcat
<1> QED
  BY <1>1 DEF Flood, On, Puts

\* What travels before and after a packet leaves its channel.
LEMMA OnTake ==
  ASSUME NEW ch \in [Chans -> Seq(TypedPackets)], NEW k \in Chans, ch[k] # <<>>, NEW j \in Chans,
         NEW q
  PROVE  q \in On(ch, j) <=> q \in On([ch EXCEPT ![k] = Tail(@)], j) \/ (j = k /\ q = Head(ch[k]))
<1>1. ToSet(ch[k]) = {Head(ch[k])} \cup ToSet(Tail(ch[k]))
  BY ToSetHead
<1> QED
  BY <1>1 DEF On

LEMMA Remembered ==
  ASSUME NEW n, NEW seen, Remember(n, seen), NEW m \in Receivers
  PROVE  /\ filter'[m] \subseteq Travelling(chan')
         /\ filter'[m] \subseteq filter[m] \cup IF m = n THEN seen ELSE {}
BY DEF Remember

\* New packets have identifiers of their own.
LEMMA NewIdOwn ==
  ASSUME NEW k \in Nat \ {0}, k <= Cardinality(FreeIds)
  PROVE  /\ NewId(k) \in FreeIds
         /\ Cardinality(FreeIds \cap 1..NewId(k)) = k
<1>1. FreeIds \in SUBSET (1..MaxPackets) /\ MaxPackets \in Nat
  BY FreeIdsFinite, ControlPlaneAssumption DEF Ids
<1>2. \E i \in FreeIds : Cardinality(FreeIds \cap 1..i) = k
  BY <1>1, KthElement
<1> QED
  BY <1>2 DEF NewId

\* One step of flooding: q leaves channel k, and node k[2] puts it on its other
\* links unless it filters it or is the one it is for.
Passes(up, ch0, ch1, fl0, fl1, o, d, k, q) ==
  /\ \A j \in Chans : On(ch0, j) \subseteq On(ch1, j) \cup IF j = k THEN {q} ELSE {}
  /\ \A j \in Chans : \A p \in On(ch1, j) : IsOf(o, d, p) =>
       p \in On(ch0, j) \/ (p = q /\ Puts(up, k[2], j))
  /\ IsOf(o, d, q) /\ k[2] \in Switches \ {d} /\ q.id \notin fl0[k[2]] =>
       \A j \in Chans : Puts(up \ {k[1]}, k[2], j) => q \in On(ch1, j)
  /\ \A n \in Receivers : fl1[n] \subseteq fl0[n] \cup IF n = k[2] THEN {q.id} ELSE {}

\* The nodes that have seen the packet after that.
Seen(S, o, d, k, q) == S \cup IF IsOf(o, d, q) THEN {k[2]} ELSE {}

LEMMA SpreadStep ==
  ASSUME NEW up, NEW ch0, NEW ch1, NEW fl0, NEW fl1, NEW o, NEW d, NEW S \in SUBSET Receivers,
         Flooding(up, ch0, fl0, o, d, S), Identified(ch0, fl0),
         NEW k \in Chans, NEW q \in On(ch0, k), Passes(up, ch0, ch1, fl0, fl1, o, d, k, q)
  PROVE  Flooding(up, ch1, fl1, o, d, Seen(S, o, d, k, q))
<1>a. /\ \A j \in Chans : On(ch0, j) \subseteq On(ch1, j) \cup IF j = k THEN {q} ELSE {}
      /\ \A j \in Chans : \A p \in On(ch1, j) : IsOf(o, d, p) =>
           p \in On(ch0, j) \/ (p = q /\ Puts(up, k[2], j))
      /\ IsOf(o, d, q) /\ k[2] \in Switches \ {d} /\ q.id \notin fl0[k[2]] =>
           \A j \in Chans : Puts(up \ {k[1]}, k[2], j) => q \in On(ch1, j)
      /\ \A n \in Receivers : fl1[n] \subseteq fl0[n] \cup IF n = k[2] THEN {q.id} ELSE {}
  BY DEF Passes
<1> USE <1>a
<1> DEFINE S1 == S \cup IF IsOf(o, d, q) THEN {k[2]} ELSE {}
<1>0. k[1] \in Links /\ k[2] \in Receivers /\ k[2] \in Ends[k[1]]
  BY DEF Chans
<1>1. o \in S1 /\ o \in S
  BY DEF Flooding
<1>2. ASSUME NEW j \in Chans, NEW n \in (S1 \cap (Switches \cup {o})) \ {d}, Puts(up, n, j)
      PROVE  j[2] \in S1 \/ \E p \in On(ch1, j) : IsOf(o, d, p)
  <2>1. CASE n \in S
    <3>1. j[2] \in S \/ \E p \in On(ch0, j) : IsOf(o, d, p)
      BY <1>2, <2>1 DEF Flooding
    <3>2. ASSUME NEW p \in On(ch0, j), IsOf(o, d, p) PROVE p \in On(ch1, j) \/ j[2] \in S1
      <4>1. p \in On(ch1, j) \/ (j = k /\ p = q)
        OBVIOUS
      <4> QED
        BY <3>2, <4>1
    <3> QED
      BY <3>1, <3>2
  <2>2. CASE n \notin S
    <3>1. IsOf(o, d, q) /\ n = k[2] /\ n \in Switches \ {d}
      BY <1>1, <1>2, <2>2
    <3>2. q.id \notin fl0[k[2]] /\ Ends[k[1]] \ {k[2]} \subseteq S
      BY <1>0, <2>2, <3>1 DEF Flooding
    <3>3. CASE j[1] = k[1]
      <4>1. j[2] \in Ends[k[1]] /\ j[2] # k[2]
        BY <1>2, <3>1, <3>3 DEF Puts, Chans
      <4> QED
        BY <3>2, <4>1
    <3>4. CASE j[1] # k[1]
      <4>1. Puts(up \ {k[1]}, k[2], j)
        BY <1>2, <3>1, <3>4 DEF Puts
      <4> QED
        BY <3>1, <3>2, <4>1
    <3> QED
      BY <3>3, <3>4
  <2> QED
    BY <2>1, <2>2
<1>3. ASSUME NEW j \in Chans, NEW p \in On(ch1, j), IsOf(o, d, p)
      PROVE  Ends[j[1]] \ {j[2]} \subseteq S1 /\ \A n \in Receivers \ S1 : p.id \notin fl1[n]
  <2>1. CASE p \in On(ch0, j)
    <3>1. Ends[j[1]] \ {j[2]} \subseteq S /\ \A n \in Receivers \ S : p.id \notin fl0[n]
      BY <1>3, <2>1 DEF Flooding
    <3>2. p.id = q.id => p = q
      BY <2>1 DEF Identified
    <3>3. ASSUME NEW n \in Receivers \ S1 PROVE p.id \notin fl1[n]
      <4>1. n \in Receivers \ S /\ p.id \notin fl0[n]
        BY <3>1, <3>3
      <4>2. n = k[2] => p.id # q.id
        BY <1>3, <3>2, <3>3
      <4> QED
        BY <4>1, <4>2
    <3> QED
      BY <3>1, <3>3
  <2>2. CASE p = q /\ Puts(up, k[2], j)
    <3>1. Ends[j[1]] \ {j[2]} = {k[2]}
      BY <2>2, OtherEnd DEF Puts
    <3>2. ASSUME NEW n \in Receivers \ S1 PROVE p.id \notin fl1[n]
      <4>1. n \in Receivers \ S /\ n # k[2]
        BY <1>3, <2>2, <3>2
      <4>2. q.id \notin fl0[n]
        BY <1>3, <2>2, <4>1 DEF Flooding
      <4> QED
        BY <2>2, <4>1, <4>2
    <3> QED
      BY <1>3, <2>2, <3>1, <3>2
  <2> QED
    BY <1>3, <2>1, <2>2
<1> HIDE DEF S1
<1>4. Flooding(up, ch1, fl1, o, d, S1)
  BY <1>1, <1>2, <1>3 DEF Flooding
<1> QED
  BY <1>4 DEF S1, Seen

\* Flooding starts at o: its packet is on all its links, and nowhere else.
LEMMA SpreadStart ==
  ASSUME NEW up, NEW ch, NEW fl, NEW o, NEW d,
         \A k \in Chans : Puts(up, o, k) => \E p \in On(ch, k) : IsOf(o, d, p),
         \A k \in Chans : \A p \in On(ch, k) : IsOf(o, d, p) =>
           Puts(up, o, k) /\ \A n \in Receivers : p.id \notin fl[n]
  PROVE  Flooding(up, ch, fl, o, d, {o})
<1>1. ASSUME NEW k \in Chans, NEW p \in On(ch, k), IsOf(o, d, p)
      PROVE  Ends[k[1]] \ {k[2]} \subseteq {o} /\ \A n \in Receivers \ {o} : p.id \notin fl[n]
  <2>1. Puts(up, o, k)
    BY <1>1
  <2>2. Ends[k[1]] \ {k[2]} = {o}
    BY <2>1, OtherEnd DEF Puts
  <2> QED
    BY <1>1, <2>2
<1>2. ASSUME NEW k \in Chans, NEW n \in ({o} \cap (Switches \cup {o})) \ {d}, Puts(up, n, k)
      PROVE  k[2] \in {o} \/ \E p \in On(ch, k) : IsOf(o, d, p)
  BY <1>2
<1> QED
  BY <1>1, <1>2 DEF Flooding

-----------------------------------------------------------------------------
\* The tables for the whole network, and for the network without link l.
Whole == NewTable(Links)
Without(l) == NewTable(Links \ {l})

\* The two kinds of packets after link l failed: a switch at its end tells of it
\* with version v, and a controller changes the rules of a switch.
IsNote(l, v, p) ==
  /\ p.type = "LINK_DOWN" /\ p.src \in Ends[l] \cap Switches /\ p.dst = ALL
  /\ p.data = [link |-> l, version |-> v]
IsUpdate(l, p) ==
  /\ p.type = "CHANGE_RULES" /\ p.src \in Controllers /\ p.dst \in Patched(Whole, Without(l))
  /\ p.data = [rules |-> At(Diff(Whole, Without(l)), p.dst), del |-> Removed(Whole, Without(l), p.dst)]

LEMMA TablesTyped ==
  ASSUME NEW l \in Links
  PROVE  /\ Whole \in Tables /\ Without(l) \in Tables
         /\ Patched(Whole, Without(l)) \in SUBSET Switches
<1>1. Links \ {l} \in SUBSET Links
  OBVIOUS
<1>2. Whole \in Tables /\ Without(l) \in Tables
  BY <1>1, NewTableIsTable DEF Whole, Without, Tables, IsTable
<1> QED
  BY <1>2 DEF Patched, Diff, Tables, Rule

\* An update brings a switch from a table that has all rules of the old or of the
\* new routes to one that has all of the new.
LEMMA InstallNew ==
  ASSUME NEW old \in Tables, NEW new \in Tables, NEW rules, NEW s,
         At(old, s) \subseteq rules \/ At(new, s) \subseteq rules
  PROVE  At(new, s) \subseteq Install(rules, At(Diff(old, new), s), Removed(old, new, s))
<1>1. SUFFICES ASSUME NEW r \in At(new, s)
               PROVE  r \in Install(rules, At(Diff(old, new), s), Removed(old, new, s))
  OBVIOUS
<1>2. r \in new /\ r.sw = s /\ r.sig \notin Removed(old, new, s)
  BY DEF At, Removed, SigsOf
<1>3. CASE r \notin old
  <2>1. r \in At(Diff(old, new), s)
    BY <1>2, <1>3 DEF At, Diff
  <2> QED
    BY <1>2, <2>1 DEF Install
<1>4. CASE r \in old
  <2>1. r \in At(old, s) /\ r \in rules
    BY <1>2, <1>4 DEF At
  <2>2. r.sig \notin SigsOf(At(Diff(old, new), s))
    <3>1. SUFFICES ASSUME NEW q \in At(Diff(old, new), s), q.sig = r.sig PROVE FALSE
      BY DEF SigsOf
    <3>2. q \in new /\ q \notin old /\ q.sw = s
      BY DEF At, Diff
    <3>3. q = r
      BY <1>2, <3>1, <3>2 DEF Tables, IsTable
    <3> QED
      BY <1>4, <3>2, <3>3
  <2> QED
    BY <1>2, <2>1, <2>2 DEF Install
<1> QED
  BY <1>3, <1>4

\* The same without the deletions.
LEMMA InstallBack ==
  ASSUME NEW old \in Tables, NEW new \in Tables, NEW rules, NEW s,
         At(old, s) \subseteq rules \/ At(new, s) \subseteq rules
  PROVE  At(new, s) \subseteq Install(rules, At(Diff(old, new), s), {})
<1>1. At(new, s) \subseteq Install(rules, At(Diff(old, new), s), Removed(old, new, s))
  BY InstallNew
<1> QED
  BY <1>1 DEF Install

\* The updates of a controller that hears of the failure.
LEMMA PatchContents ==
  ASSUME NEW l \in Links, NEW c \in Controllers, Cardinality(FreeIds) >= Cardinality(Switches)
  PROVE  /\ Patch(c, Whole, Without(l)) \in Seq(TypedPackets)
         /\ \A p \in ToSet(Patch(c, Whole, Without(l))) :
              p.src = c /\ IsUpdate(l, p) /\ p.id \in FreeIds
         /\ \A p, q \in ToSet(Patch(c, Whole, Without(l))) : p.id = q.id => p = q
         /\ \A s \in Patched(Whole, Without(l)) :
              \E p \in ToSet(Patch(c, Whole, Without(l))) : IsOf(c, s, p)
<1> DEFINE S == Patched(Whole, Without(l))
           dests == SetToSeq(S)
           data(s) == [rules |-> At(Diff(Whole, Without(l)), s), del |-> Removed(Whole, Without(l), s)]
           packet(k) == Packet(k, "CHANGE_RULES", c, dests[k], data(dests[k]))
           patch == Patch(c, Whole, Without(l))
<1>1. S \in SUBSET Switches /\ IsFiniteSet(S)
  <2>1. IsFiniteSet(Switches)
    BY TopologyAssumption, FS_Subset DEF Nodes
  <2> QED
    BY <2>1, TablesTyped, FS_Subset
<1>2. patch \in Seq(TypedPackets)
  BY TablesTyped, PatchTyped DEF Tables
<1>3. /\ DOMAIN dests = 1..Len(dests) /\ Len(dests) \in Nat /\ Len(dests) <= Cardinality(Switches)
      /\ \A k \in DOMAIN dests : dests[k] \in S
      /\ \A s \in S : \E k \in DOMAIN dests : dests[k] = s
      /\ \A j, k \in DOMAIN dests : dests[j] = dests[k] => j = k
  BY <1>1, SwitchList, SetToSeqOnce
<1>4. patch = [k \in DOMAIN dests |-> packet(k)]
  BY DEF Patch
<1> HIDE DEF dests, S
<1>5. \A k \in DOMAIN dests : k \in Nat \ {0} /\ k <= Cardinality(FreeIds)
  BY <1>3, FreeIdsFinite, SwitchesFinite
<1>6. \A k \in DOMAIN dests : NewId(k) \in FreeIds /\ Cardinality(FreeIds \cap 1..NewId(k)) = k
  BY <1>5, NewIdOwn
<1>7. \A k \in DOMAIN dests : /\ packet(k).id = NewId(k) /\ packet(k).type = "CHANGE_RULES"
                              /\ packet(k).src = c /\ packet(k).dst = dests[k]
                              /\ packet(k).data = data(dests[k])
  BY DEF Packet
<1>8. ToSet(patch) = {packet(k) : k \in DOMAIN dests}
  BY <1>4 DEF ToSet
<1> HIDE DEF packet, patch
<1>9. \A k \in DOMAIN dests : packet(k).src = c /\ IsUpdate(l, packet(k)) /\ packet(k).id \in FreeIds
  <2>1. SUFFICES ASSUME NEW k \in DOMAIN dests PROVE IsUpdate(l, packet(k))
    BY <1>6, <1>7
  <2>2. dests[k] \in S
    BY <1>3
  <2>3. /\ packet(k).type = "CHANGE_RULES" /\ packet(k).src = c /\ packet(k).dst = dests[k]
        /\ packet(k).data = data(dests[k])
    BY <1>7
  <2> QED
    BY <2>2, <2>3 DEF IsUpdate, S
<1>10. \A j, k \in DOMAIN dests : packet(j).id = packet(k).id => j = k
  BY <1>6, <1>7
<1>11. \A s \in S : \E p \in ToSet(patch) : IsOf(c, s, p)
  <2>1. SUFFICES ASSUME NEW s \in S PROVE \E p \in ToSet(patch) : IsOf(c, s, p)
    OBVIOUS
  <2>2. PICK k \in DOMAIN dests : dests[k] = s
    BY <1>3
  <2>3. packet(k) \in ToSet(patch)
    BY <1>8
  <2>4. packet(k).src = c /\ packet(k).dst = s
    BY <1>7, <2>2
  <2> QED
    BY <2>3, <2>4 DEF IsOf
<1> QED
  BY <1>2, <1>8, <1>9, <1>10, <1>11 DEF patch, S

-----------------------------------------------------------------------------
\* TableRoutes, one length at a time.
WaysOf(sig, n) ==
  {p \in [1..n -> Switches] :
     /\ p[1] = SwitchOf(sig[1]) /\ p[n] = SwitchOf(sig[2])
     /\ \A k \in 1..n - 1 : \E l \in Links : Ends[l] = {p[k], p[k + 1]} /\ Sends(p[k], sig, l)
     /\ Sends(p[n], sig, AccessLink(sig[2]))}

LEMMA WaysType ==
  ASSUME NEW sig, NEW n
  PROVE  \A p : p \in WaysOf(sig, n) <=>
           /\ p \in [1..n -> Switches] /\ p[1] = SwitchOf(sig[1]) /\ p[n] = SwitchOf(sig[2])
           /\ \A k \in 1..n - 1 : \E l \in Links : Ends[l] = {p[k], p[k + 1]} /\ Sends(p[k], sig, l)
           /\ Sends(p[n], sig, AccessLink(sig[2]))
BY Zenon DEF WaysOf

\* Where the switches have the rules of all routes over the links that are up,
\* the rules of a signature follow one of the shortest walks.
LEMMA RulesFollow ==
  ASSUME \A s \in Switches : At(NewTable(Up(hist)), s) \subseteq table[s],
         NEW sig \in Sigs, Reaches(sig[1], sig[2])
  PROVE  \E p \in Shortest(Up(hist), SwitchOf(sig[1]), SwitchOf(sig[2])),
            n \in 1..Cardinality(Switches) : Len(p) = n /\ p \in WaysOf(sig, n)
<1> DEFINE up == Up(hist)
           s == SwitchOf(sig[1])
           t == SwitchOf(sig[2])
<1>1. sig[1] \in Endpoints /\ sig[2] \in Endpoints /\ sig[1] \notin Switches /\ sig[2] \notin Switches
  BY TopologyAssumption DEF Sigs
<1>2. up \in SUBSET Links /\ AccessLink(sig[1]) \in up /\ AccessLink(sig[2]) \in up /\ Connected(up, s, t)
  BY <1>1 DEF Reaches, AccessUp, Access, Up
<1> HIDE DEF up
<1>3. PathOf(up, sig) = {CHOOSE q \in Shortest(up, s, t) : TRUE}
  BY <1>2 DEF PathOf, ShortestPath
<1>4. PICK p : PathOf(up, sig) = {p} /\ p \in Shortest(up, s, t)
  BY <1>2, <1>3 DEF Connected
<1> HIDE DEF s, t
<1>5. PICK n \in 1..Cardinality(Switches) : Shortest(up, s, t) = Walks(up, s, t, n)
  BY <1>2, ConnectedWalk
<1>6. /\ n \in Nat \ {0} /\ p \in [1..n -> Switches] /\ p[1] = s /\ p[n] = t
      /\ \A k \in 1..n - 1 : Linked(up, p, k)
  <2>1. n \in Nat \ {0}
    BY SwitchesFinite
  <2> QED
    BY <1>4, <1>5, <2>1, WalkType
<1>7. Len(p) = n /\ DOMAIN p = 1..n
  BY <1>6, SeqDef, LenProperties
<1> DEFINE rule(k) == [sw |-> p[k], sig |-> sig,
                       link |-> IF k < Len(p) THEN LinkBetween(p[k], p[k + 1]) ELSE AccessLink(sig[2])]
<1>8. ASSUME NEW k \in 1..n PROVE rule(k) \in table[p[k]]
  <2>0. RulesOf(up, sig) = {rule(i) : i \in DOMAIN p}
    BY <1>4 DEF RulesOf
  <2>1. rule(k) \in RulesOf(up, sig)
    <3> HIDE DEF rule
    <3> QED
      BY <1>7, <2>0
  <2>2. rule(k) \in NewTable(up) /\ rule(k).sw = p[k] /\ p[k] \in Switches
    BY <1>6, <2>1 DEF NewTable
  <2> HIDE DEF rule
  <2> QED
    BY <2>2 DEF At, up
<1>9. ASSUME NEW k \in 1..n - 1
       PROVE  \E l \in Links : Ends[l] = {p[k], p[k + 1]} /\ Sends(p[k], sig, l)
  <2>1. k \in 1..n /\ k < Len(p) /\ k + 1 \in 1..n
    BY <1>6, <1>7
  <2>2. PICK l \in up : Ends[l] = {p[k], p[k + 1]}
    BY <1>6 DEF Linked
  <2>3. l \in Links /\ SwitchLink(l)
    BY <1>2, <1>6, <2>1, <2>2 DEF SwitchLink
  <2>4. LinkBetween(p[k], p[k + 1]) = l
    <3>1. \A m \in Links : Ends[m] = {p[k], p[k + 1]} => m = l
      BY <2>2, <2>3, SimulationAssumption
    <3> QED
      BY <2>2, <2>3, <3>1 DEF LinkBetween
  <2>5. [sw |-> p[k], sig |-> sig, link |-> l] \in table[p[k]]
    BY <1>8, <2>1, <2>4
  <2> QED
    BY <2>2, <2>3, <2>5 DEF Sends, up
<1>10. Sends(p[n], sig, AccessLink(sig[2]))
  <2>1. n \in 1..n /\ ~ (n < Len(p))
    BY <1>6, <1>7
  <2>2. rule(n) = [sw |-> p[n], sig |-> sig, link |-> AccessLink(sig[2])]
    BY <2>1
  <2> QED
    BY <1>2, <1>8, <2>1, <2>2 DEF Sends, up
<1>11. /\ p \in [1..n -> Switches] /\ Len(p) = n
       /\ p[1] = SwitchOf(sig[1]) /\ p[n] = SwitchOf(sig[2])
  BY <1>6, <1>7 DEF s, t
<1>12. p \in Shortest(Up(hist), SwitchOf(sig[1]), SwitchOf(sig[2]))
  BY <1>4 DEF s, t, up
<1>13. p \in WaysOf(sig, n)
  BY <1>9, <1>10, <1>11, WaysType
<1> QED
  BY <1>11, <1>12, <1>13

\* So every packet between connected hosts arrives, ...
LEMMA RoutesFollow ==
  ASSUME \A s \in Switches : At(NewTable(Up(hist)), s) \subseteq table[s]
  PROVE  RoutesWork
<1>1. SUFFICES ASSUME NEW sig \in Sigs, Reaches(sig[1], sig[2]) PROVE TableRoutes(sig) # {}
  BY DEF RoutesWork, Arrives
<1>2. PICK n \in 1..Cardinality(Switches) : WaysOf(sig, n) # {}
  BY <1>1, RulesFollow
<1>3. TableRoutes(sig) = UNION {WaysOf(sig, m) : m \in 1..Cardinality(Switches)}
  BY DEF TableRoutes, WaysOf
<1> QED
  BY <1>2, <1>3

\* ... and where the switches have one rule for a signature, on a shortest walk:
\* a way that leaves the walk leaves it at a switch with two rules.
LEMMA RoutesAreShortest ==
  ASSUME \A s \in Switches : At(NewTable(Up(hist)), s) \subseteq table[s] /\ IsTable(table[s]),
         NEW sig \in Sigs, Reaches(sig[1], sig[2]), NEW p \in TableRoutes(sig)
  PROVE  /\ p \in Shortest(Up(hist), SwitchOf(sig[1]), SwitchOf(sig[2]))
         /\ p[1] = SwitchOf(sig[1]) /\ p[Len(p)] = SwitchOf(sig[2])
<1>1. PICK q \in Shortest(Up(hist), SwitchOf(sig[1]), SwitchOf(sig[2])), m \in 1..Cardinality(Switches) :
        Len(q) = m /\ q \in WaysOf(sig, m)
  BY RulesFollow
<1>2. /\ q \in [1..m -> Switches] /\ Len(q) = m
      /\ q[1] = SwitchOf(sig[1]) /\ q[m] = SwitchOf(sig[2])
      /\ \A k \in 1..m - 1 : \E l \in Links : Ends[l] = {q[k], q[k + 1]} /\ Sends(q[k], sig, l)
      /\ Sends(q[m], sig, AccessLink(sig[2]))
  BY <1>1, WaysType
<1>3. PICK n \in 1..Cardinality(Switches) : p \in WaysOf(sig, n)
  BY DEF TableRoutes, WaysOf
<1>4. /\ p \in [1..n -> Switches] /\ p[1] = SwitchOf(sig[1]) /\ p[n] = SwitchOf(sig[2])
      /\ \A k \in 1..n - 1 : \E l \in Links : Ends[l] = {p[k], p[k + 1]} /\ Sends(p[k], sig, l)
      /\ Sends(p[n], sig, AccessLink(sig[2]))
  BY <1>3, WaysType
<1>5. n \in Nat \ {0} /\ m \in Nat \ {0}
  BY SwitchesFinite
<1>6. ASSUME NEW s \in Switches, NEW j, NEW l, Sends(s, sig, j), Sends(s, sig, l)
      PROVE  j = l
  <2> DEFINE rule(k) == [sw |-> s, sig |-> sig, link |-> k]
  <2>1. rule(j) \in table[s] /\ rule(l) \in table[s] /\ IsTable(table[s])
    BY <1>6 DEF Sends
  <2>2. rule(j) = rule(l)
    BY <2>1 DEF IsTable
  <2> QED
    BY <2>2
<1>7. \A k \in 1..n, j \in Links : p[k] \in Switches /\ (Ends[j] \subseteq Switches => j # AccessLink(sig[2]))
  BY <1>4, AccessLinkType, TopologyAssumption DEF Sigs
<1>8. \A k \in 1..n - 1, j \in 1..m - 1 : p[k] = q[j] => p[k + 1] = q[j + 1]
  <2>1. SUFFICES ASSUME NEW k \in 1..n - 1, NEW j \in 1..m - 1, p[k] = q[j] PROVE p[k + 1] = q[j + 1]
    OBVIOUS
  <2>2. PICK l \in Links : Ends[l] = {p[k], p[k + 1]} /\ Sends(p[k], sig, l)
    BY <1>4
  <2>3. PICK i \in Links : Ends[i] = {q[j], q[j + 1]} /\ Sends(q[j], sig, i)
    BY <1>2
  <2>4. k \in 1..n
    BY <1>5
  <2>5. l = i
    BY <1>6, <1>7, <2>1, <2>2, <2>3, <2>4
  <2> QED
    BY <2>1, <2>2, <2>3, <2>5
<1>9. \A k \in 1..n - 1 : p[k] # q[m]
  <2>1. SUFFICES ASSUME NEW k \in 1..n - 1, p[k] = q[m] PROVE FALSE
    OBVIOUS
  <2>2. PICK l \in Links : Ends[l] = {p[k], p[k + 1]} /\ Sends(p[k], sig, l)
    BY <1>4
  <2>3. k \in 1..n /\ k + 1 \in 1..n
    BY <1>5
  <2> QED
    BY <1>2, <1>6, <1>7, <2>1, <2>2, <2>3
<1>10. \A k \in 1..m - 1 : q[k] # p[n]
  <2>1. SUFFICES ASSUME NEW k \in 1..m - 1, q[k] = p[n] PROVE FALSE
    OBVIOUS
  <2>2. PICK l \in Links : Ends[l] = {q[k], q[k + 1]} /\ Sends(q[k], sig, l)
    BY <1>2
  <2>3. k \in 1..m /\ k + 1 \in 1..m /\ n \in 1..n
    BY <1>5
  <2>4. q[k] \in Switches /\ q[k + 1] \in Switches
    BY <1>2, <2>3
  <2> QED
    BY <1>4, <1>6, <1>7, <2>1, <2>2, <2>3, <2>4
<1>11. \A k \in Nat : k \in 1..n => k \in 1..m /\ p[k] = q[k]
  <2> DEFINE T == {k \in Nat : k \in 1..n /\ ~ (k \in 1..m /\ p[k] = q[k])}
  <2>1. SUFFICES ASSUME T # {} PROVE FALSE
    OBVIOUS
  <2>2. PICK k \in T : \A j \in T : k <= j
    <3>1. T \in SUBSET Nat
      OBVIOUS
    <3> HIDE DEF T
    <3> QED
      BY <2>1, <3>1, LeastNumber
  <2>3. k # 1
    BY <1>2, <1>4, <1>5, <2>2
  <2>4. k - 1 \in Nat /\ k - 1 \in 1..n - 1 /\ k - 1 \in 1..n /\ (k - 1) + 1 = k /\ ~ (k <= k - 1)
    BY <1>5, <2>2, <2>3
  <2>5. k - 1 \in 1..m /\ p[k - 1] = q[k - 1]
    BY <2>2, <2>4
  <2>6. k - 1 # m
    BY <1>9, <2>4, <2>5
  <2>7. k - 1 \in 1..m - 1
    BY <1>5, <2>5, <2>6
  <2>8. p[k] = q[k] /\ k \in 1..m
    BY <1>5, <1>8, <2>4, <2>5, <2>7
  <2> QED
    BY <2>2, <2>8
<1>12. n = m
  <2>1. n \in 1..m /\ p[n] = q[n]
    BY <1>5, <1>11
  <2>2. n \notin 1..m - 1
    BY <1>10, <2>1
  <2> QED
    BY <1>5, <2>1, <2>2
<1>13. p = q
  <2>1. \A k \in 1..n : p[k] = q[k]
    BY <1>5, <1>11
  <2> QED
    BY <1>2, <1>4, <1>12, <2>1
<1> QED
  BY <1>2, <1>13

-----------------------------------------------------------------------------
\* What c believes and keeps after and before it hears of the failure.
Knows(l, c) ==
  known[c][l] = Version(l) /\ existing[c] = Links \ {l} /\ flowDb[c] = Without(l)
Unaware(l, c) ==
  /\ known[c][l] < Version(l) /\ existing[c] = Links /\ flowDb[c] = Whole
  /\ \A k \in Chans : \A p \in On(chan, k) : p.src # c

\* Before a link fails: nothing travels, and all know that all links are up.
Calm ==
  /\ \A k \in Chans : chan[k] = <<>>
  /\ Up(hist) = Links
  /\ \A c \in Controllers :
       known[c] = [l \in Links |-> Version(l)] /\ existing[c] = Links /\ flowDb[c] = Whole
  /\ \A s \in Switches : At(Whole, s) \subseteq table[s]

\* After link l failed: the packets that travel, ...
Carried(l) ==
  \A k \in Chans : \A p \in On(chan, k) :
    k[1] \in Up(hist) /\ (IsNote(l, Version(l), p) \/ IsUpdate(l, p))

\* ... the tables, which have all the rules of the old or of the new routes, ...
Covered(l) ==
  \A s \in Switches :
    /\ At(Whole, s) \subseteq table[s] \/ At(Without(l), s) \subseteq table[s]
    /\ s \notin Patched(Whole, Without(l)) => At(Whole, s) \subseteq table[s]

\* ... the notifications, ...
NotesSpread(l) ==
  \A e \in Ends[l] \cap Switches : \E S \in SUBSET Receivers :
    Flooding(Up(hist), chan, filter, e, ALL, S) /\ \A c \in S \cap Controllers : Knows(l, c)

\* ... and the updates.
UpdatesSpread(l) ==
  \A c \in Controllers, s \in Patched(Whole, Without(l)) :
    Knows(l, c) => \E S \in SUBSET Receivers :
                     /\ Flooding(Up(hist), chan, filter, c, s, S)
                     /\ s \in S => At(Without(l), s) \subseteq table[s]

Failed(l) ==
  /\ Up(hist) = Links \ {l}
  /\ \A c \in Controllers : Knows(l, c) \/ Unaware(l, c)
  /\ Carried(l) /\ Covered(l) /\ NotesSpread(l) /\ UpdatesSpread(l)

-----------------------------------------------------------------------------
LEMMA UpAppend ==
  ASSUME TypeInv, NEW l \in Links, NEW s \in States, hist' = [hist EXCEPT ![l] = Append(@, s)]
  PROVE  /\ Up(hist') = IF s = "UP" THEN Up(hist) \cup {l} ELSE Up(hist) \ {l}
         /\ \A m \in Links : Version(m)' = IF m = l THEN Version(m) + 1 ELSE Version(m)
<1>1. hist \in [Links -> Seq(States)]
  BY DEF TypeInv
<1>2. /\ Append(hist[l], s) \in Seq(States) /\ Last(Append(hist[l], s)) = s
      /\ Len(Append(hist[l], s)) = Len(hist[l]) + 1
  BY <1>1, AppendProperties DEF Last
<1>3. hist'[l] = Append(hist[l], s) /\ \A m \in Links : m # l => hist'[m] = hist[m]
  BY <1>1
<1>4. \A m \in Links : Len(hist'[m]) = IF m = l THEN Len(hist[m]) + 1 ELSE Len(hist[m])
  BY <1>2, <1>3
<1>5. \A m \in Links : Last(hist'[m]) = IF m = l THEN s ELSE Last(hist[m])
  BY <1>2, <1>3
<1>6. Up(hist') = IF s = "UP" THEN Up(hist) \cup {l} ELSE Up(hist) \ {l}
  BY <1>5 DEF Up, States
<1> QED
  BY <1>4, <1>6 DEF Version

\* What travels when link l fails in a quiet network: what each end that is a
\* switch has to tell, on all its links that are up.
LEMMA NotesContents ==
  ASSUME TypeInv, \A k \in Chans : chan[k] = <<>>, NEW l \in Links, Last(hist[l]) = "UP",
         SetLink(l, "DOWN")
  PROVE  \E N \in SUBSET TypedPackets :
           /\ \A k \in Chans : \A p : p \in On(chan', k) <=> p \in N /\ Puts(Up(hist'), p.src, k)
           /\ \A p \in N : IsNote(l, Version(l) + 1, p) /\ p.id \in FreeIds
           /\ \A p, q \in N : p.id = q.id => p = q
           /\ \A e \in Ends[l] \cap Switches : \E p \in N : IsOf(e, ALL, p)
<1>0. PICK up : up = Up(hist')
  OBVIOUS
<1> DEFINE v == Version(l) + 1
           E == Ends[l] \cap Switches
           ends == SetToSeq(E)
           note(k) == Notification(k, ends[k], l, "DOWN", v)
           tell(ch, k) == IF k > Len(ends) \/ Last(hist[l]) = "DOWN" THEN ch
                          ELSE Flood(ch, up, ends[k], <<note(k)>>, NoLink)
           T == [Chans -> Seq(TypedPackets)]
<1>1. /\ chan' = tell(tell(chan, 1), 2) /\ chan \in T
      /\ Cardinality(FreeIds) >= 2 /\ v \in 1..MaxVersion
  <2>1. Len(hist[l]) \in 1..MaxVersion /\ Version(l) < MaxVersion
    BY DEF TypeInv, SetLink
  <2>2. v \in 1..MaxVersion
    BY <2>1, ControlPlaneAssumption DEF Version
  <2> QED
    BY <1>0, <2>2 DEF SetLink, TypeInv
<1>2. E \in SUBSET Switches /\ IsFiniteSet(E) /\ Cardinality(E) <= 2
  <2>1. Ends[l] \in SUBSET Nodes /\ Cardinality(Ends[l]) = 2
    BY TopologyAssumption
  <2>2. IsFiniteSet(Ends[l])
    BY <2>1, TopologyAssumption, FS_Subset
  <2> QED
    BY <2>1, <2>2, FS_Subset
<1>3. /\ DOMAIN ends = 1..Len(ends) /\ Len(ends) \in Nat /\ Len(ends) <= 2
      /\ \A k \in DOMAIN ends : ends[k] \in E
      /\ \A e \in E : \E k \in DOMAIN ends : ends[k] = e
  <2>1. Len(ends) = Cardinality(E)
    BY <1>2, SetToSeqType
  <2> QED
    BY <1>2, <2>1, SwitchList, SetToSeqOnce
<1> HIDE DEF ends, E, v
<1> DEFINE K == DOMAIN ends
<1>4. \A k \in K : k \in {1, 2} /\ k <= Cardinality(FreeIds)
  BY <1>1, <1>3, FreeIdsFinite
<1>5. ASSUME NEW k \in K
      PROVE  /\ note(k) \in TypedPackets /\ note(k).id = NewId(k) /\ note(k).id \in FreeIds
             /\ IsNote(l, v, note(k)) /\ note(k).src = ends[k]
             /\ Cardinality(FreeIds \cap 1..note(k).id) = k
  <2>1. k \in Nat \ {0} /\ k <= Cardinality(FreeIds) /\ ends[k] \in Receivers
    BY <1>2, <1>3, <1>4 DEF Receivers
  <2>2. note(k) \in TypedPackets
    BY <1>1, <2>1, NotificationTyped DEF States
  <2>3. /\ note(k).id = NewId(k) /\ note(k).type = "LINK_DOWN" /\ note(k).src = ends[k]
        /\ note(k).dst = ALL /\ note(k).data = [link |-> l, version |-> v]
    BY DEF Notification, Packet
  <2>4. ends[k] \in Ends[l] \cap Switches
    BY <1>3 DEF E
  <2>5. NewId(k) \in FreeIds /\ Cardinality(FreeIds \cap 1..NewId(k)) = k
    BY <2>1, NewIdOwn
  <2> HIDE DEF note
  <2> QED
    BY <2>2, <2>3, <2>4, <2>5 DEF IsNote
<1>6. ASSUME NEW ch \in T, NEW j \in {1, 2}
      PROVE  /\ tell(ch, j) \in T
             /\ \A k \in Chans : \A q : q \in On(tell(ch, j), k) <=>
                  q \in On(ch, k) \/ (j \in K /\ Puts(up, ends[j], k) /\ q = note(j))
  <2>1. CASE j \notin K
    <3>1. j > Len(ends)
      BY <1>3, <2>1
    <3> QED
      BY <2>1, <3>1
  <2>2. CASE j \in K
    <3>1. ~ (j > Len(ends)) /\ Last(hist[l]) # "DOWN"
      BY <1>3, <2>2
    <3>2. PICK p, n : p \in TypedPackets /\ p = note(j) /\ n = ends[j]
      BY <1>5, <2>2
    <3>3. PICK one, next : one = <<p>> /\ next = Flood(ch, up, n, one, NoLink)
      OBVIOUS
    <3>4. tell(ch, j) = next
      BY <3>1, <3>2, <3>3
    <3>5. ch \in [Chans -> Seq(TypedPackets)] /\ up \in SUBSET Links
      BY <1>0 DEF Up
    <3> HIDE DEF tell, note, K, T
    <3>6. /\ next \in [Chans -> Seq(TypedPackets)]
          /\ \A k \in Chans : \A q : q \in On(next, k) <=> q \in On(ch, k) \/ (Puts(up, n, k) /\ q = p)
      <4>1. one \in Seq(TypedPackets)
        <5>1. one = <<p>> /\ p \in TypedPackets
          BY <3>2, <3>3
        <5> QED
          BY <5>1, OneElement
      <4>2. \A q : q \in ToSet(one) <=> q = p
        BY <3>3, ToSetOne
      <4>3. next = Flood(ch, up, n, one, NoLink)
        BY <3>3
      <4>4. next \in [Chans -> Seq(TypedPackets)]
        BY <3>5, <4>1, <4>3, FloodType
      <4>5. up \ {NoLink} = up
        BY <3>5, NameAssumption
      <4>6. ASSUME NEW k \in Chans, NEW q
            PROVE  q \in On(next, k) <=> q \in On(ch, k) \/ (Puts(up \ {NoLink}, n, k) /\ q \in ToSet(one))
        BY <3>5, <4>1, <4>3, OnFlood
      <4> QED
        BY <4>2, <4>4, <4>5, <4>6
    <3> QED
      <4>1. tell(ch, j) \in T
        BY <3>4, <3>6 DEF T
      <4>2. ASSUME NEW k \in Chans, NEW q
            PROVE  q \in On(tell(ch, j), k) <=>
                     q \in On(ch, k) \/ (j \in K /\ Puts(up, ends[j], k) /\ q = note(j))
        <5>1. q \in On(next, k) <=> q \in On(ch, k) \/ (Puts(up, n, k) /\ q = p)
          BY <3>6
        <5> QED
          BY <2>2, <3>2, <3>4, <5>1
      <4> QED
        BY <4>1, <4>2
  <2> QED
    BY <2>1, <2>2
<1> HIDE DEF tell, note
<1>7. tell(chan, 1) \in T
  BY <1>1, <1>6
<1>8. ASSUME NEW k \in Chans, NEW q
      PROVE  q \in On(chan', k) <=> \E j \in K : Puts(up, ends[j], k) /\ q = note(j)
  <2>1. q \notin On(chan, k)
    BY ToSetEmpty DEF On
  <2>2. q \in On(tell(chan, 1), k) <=>
          q \in On(chan, k) \/ (1 \in K /\ Puts(up, ends[1], k) /\ q = note(1))
    BY <1>1, <1>6
  <2>3. q \in On(chan', k) <=>
          q \in On(tell(chan, 1), k) \/ (2 \in K /\ Puts(up, ends[2], k) /\ q = note(2))
    <3>1. PICK first : first = tell(chan, 1)
      OBVIOUS
    <3>2. q \in On(tell(first, 2), k) <=>
            q \in On(first, k) \/ (2 \in K /\ Puts(up, ends[2], k) /\ q = note(2))
      BY <1>6, <1>7, <3>1
    <3> QED
      BY <1>1, <3>1, <3>2
  <2> QED
    BY <1>4, <2>1, <2>2, <2>3
<1> DEFINE N == {note(j) : j \in K}
<1>9. ASSUME NEW k \in Chans, NEW p
      PROVE  p \in On(chan', k) <=> p \in N /\ Puts(up, p.src, k)
  <2>1. ASSUME p \in On(chan', k) PROVE p \in N /\ Puts(up, p.src, k)
    <3>1. PICK j \in K : Puts(up, ends[j], k) /\ p = note(j)
      BY <1>8, <2>1
    <3> QED
      BY <1>5, <3>1
  <2>2. ASSUME p \in N, Puts(up, p.src, k) PROVE p \in On(chan', k)
    <3>1. PICK j \in K : p = note(j)
      BY <2>2
    <3>2. Puts(up, ends[j], k)
      BY <1>5, <2>2, <3>1
    <3> QED
      BY <1>8, <3>1, <3>2
  <2> QED
    BY <2>1, <2>2
<1>10. N \in SUBSET TypedPackets /\ \A p \in N : IsNote(l, v, p) /\ p.id \in FreeIds
  BY <1>5
<1>11. \A p, q \in N : p.id = q.id => p = q
  <2>1. \A i, j \in K : note(i).id = note(j).id => i = j
    BY <1>5
  <2> QED
    BY <2>1
<1>12. ASSUME NEW e \in E PROVE \E p \in N : IsOf(e, ALL, p)
  <2>1. PICK k \in K : ends[k] = e
    BY <1>3
  <2>2. note(k) \in N /\ note(k).src = e /\ note(k).dst = ALL
    BY <1>5, <2>1 DEF IsNote
  <2> QED
    BY <2>2 DEF IsOf
<1> HIDE DEF N
<1> QED
  BY <1>0, <1>9, <1>10, <1>11, <1>12 DEF v, E

\* A link fails in a calm network.
LEMMA FailKeeps ==
  ASSUME TypeInv, Identified(chan, filter), Calm, NEW l \in Links, SetLink(l, "DOWN")
  PROVE  Identified(chan', filter') /\ Failed(l)'
<1>1. /\ hist' = [hist EXCEPT ![l] = Append(@, "DOWN")]
      /\ UNCHANGED <<filter, table, known, existing, flowDb>>
  BY DEF SetLink
<1>2. /\ Up(hist) = Links /\ \A k \in Chans : chan[k] = <<>>
      /\ \A c \in Controllers : known[c][l] = Version(l) /\ existing[c] = Links /\ flowDb[c] = Whole
      /\ \A s \in Switches : At(Whole, s) \subseteq table[s]
  BY DEF Calm
<1>3. Up(hist') = Links \ {l} /\ Version(l)' = Version(l) + 1 /\ Version(l) \in Nat
  <2>1. Version(l) \in Nat
    BY LenProperties DEF Version, TypeInv
  <2> QED
    BY <1>1, <1>2, <2>1, UpAppend DEF States
<1>4. Last(hist[l]) = "UP"
  BY <1>2 DEF Up
<1>5. PICK N \in SUBSET TypedPackets :
        /\ \A k \in Chans : \A p : p \in On(chan', k) <=> p \in N /\ Puts(Up(hist'), p.src, k)
        /\ \A p \in N : IsNote(l, Version(l) + 1, p) /\ p.id \in FreeIds
        /\ \A p, q \in N : p.id = q.id => p = q
        /\ \A e \in Ends[l] \cap Switches : \E p \in N : IsOf(e, ALL, p)
  BY <1>2, <1>4, NotesContents
<1>6. DOMAIN chan = Chans /\ DOMAIN chan' = Chans
  <2>1. TypeInv'
    BY SetLinkKeepsTypeInv DEF States
  <2> QED
    BY <2>1 DEF TypeInv
<1>7. \A n \in Receivers : filter'[n] = {}
  <2>1. \A k \in Chans : On(chan, k) = {}
    BY <1>2, ToSetEmpty DEF On
  <2>2. Travelling(chan) = {}
    BY <1>6, <2>1, TravellingOn
  <2> QED
    BY <1>1, <2>2 DEF Identified
<1>8. Identified(chan', filter')
  BY <1>5, <1>7 DEF Identified
<1>9. \A k \in Chans : \A p \in On(chan', k) :
        p \in N /\ Puts(Up(hist'), p.src, k) /\ IsNote(l, Version(l)', p) /\ p.src \in Switches
  BY <1>3, <1>5 DEF IsNote
<1>10. Carried(l)'
  BY <1>9 DEF Carried, Puts
<1>11. \A c \in Controllers : Unaware(l, c)'
  <2>1. SUFFICES ASSUME NEW c \in Controllers PROVE Unaware(l, c)'
    OBVIOUS
  <2>2. \A k \in Chans : \A p \in On(chan', k) : p.src # c
    BY <1>9, TopologyAssumption DEF Endpoints
  <2>3. known'[c][l] < Version(l)' /\ existing'[c] = Links /\ flowDb'[c] = Whole
    BY <1>1, <1>2, <1>3
  <2> QED
    BY <2>2, <2>3 DEF Unaware
<1>12. Covered(l)'
  BY <1>1, <1>2 DEF Covered
<1>13. NotesSpread(l)'
  <2>1. SUFFICES ASSUME NEW e \in Ends[l] \cap Switches
                 PROVE  /\ {e} \in SUBSET Receivers
                        /\ Flooding(Up(hist'), chan', filter', e, ALL, {e})
                        /\ {e} \cap Controllers = {}
    BY DEF NotesSpread
  <2>2. PICK p \in N : IsOf(e, ALL, p)
    BY <1>5
  <2>3. \A k \in Chans : Puts(Up(hist'), e, k) => p \in On(chan', k)
    BY <1>5, <2>2 DEF IsOf
  <2>4. \A k \in Chans : \A q \in On(chan', k) : IsOf(e, ALL, q) =>
          Puts(Up(hist'), e, k) /\ \A n \in Receivers : q.id \notin filter'[n]
    BY <1>7, <1>9 DEF IsOf
  <2>5. Flooding(Up(hist'), chan', filter', e, ALL, {e})
    BY <2>2, <2>3, <2>4, SpreadStart
  <2> QED
    BY <2>5, TopologyAssumption DEF Receivers, Endpoints
<1>14. \A c \in Controllers : ~ Knows(l, c)'
  BY <1>1, <1>2, <1>3 DEF Knows
<1>15. UpdatesSpread(l)'
  BY <1>14 DEF UpdatesSpread
<1> QED
  BY <1>3, <1>8, <1>10, <1>11, <1>12, <1>13, <1>15 DEF Failed

-----------------------------------------------------------------------------
\* The packet that is received after link l failed.
LEMMA Taken ==
  ASSUME TypeInv, NEW l \in Links, Failed(l), NEW k \in Chans, chan[k] # <<>>
  PROVE  /\ Head(chan[k]) \in TypedPackets /\ Head(chan[k]) \in On(chan, k)
         /\ [chan EXCEPT ![k] = Tail(@)] \in [Chans -> Seq(TypedPackets)]
         /\ k[1] \in Up(hist)
         /\ IsNote(l, Version(l), Head(chan[k])) \/ IsUpdate(l, Head(chan[k]))
<1>1. chan \in [Chans -> Seq(TypedPackets)]
  BY DEF TypeInv
<1>2. Head(chan[k]) \in On(chan, k)
  BY <1>1, OnTake
<1> QED
  BY <1>2, TakeHeadTyped DEF Failed, Carried

\* No request travels, so a switch answers nothing.
LEMMA NoAnswer ==
  ASSUME NEW l, NEW v, NEW s, NEW q, IsNote(l, v, q) \/ IsUpdate(l, q)
  PROVE  Answers(s, q) = <<>>
BY DEF IsNote, IsUpdate, Answers

\* What travels after switch k[2] received packet q, which it may have put on its
\* other links.
LEMMA SwitchSends ==
  ASSUME TypeInv, NEW l \in Links, Failed(l), NEW k \in Chans, chan[k] # <<>>, NEW q, q = Head(chan[k]),
         SwitchReceive(k[2], k[1], q, [chan EXCEPT ![k] = Tail(@)]),
         NEW j \in Chans, NEW x
  PROVE  /\ x \in On(chan, j) => x \in On(chan', j) \/ (j = k /\ x = q)
         /\ x \in On(chan', j) => x \in On(chan, j) \/ (x = q /\ Puts(Up(hist), k[2], j))
         /\ Spreads(k[2], q) /\ Puts(Up(hist) \ {k[1]}, k[2], j) => q \in On(chan', j)
<1> DEFINE T == Seq(TypedPackets)
<1>1. PICK up, s, rest, copy, mid :
        /\ up = Up(hist) /\ s = k[2] /\ rest = [chan EXCEPT ![k] = Tail(@)]
        /\ copy = (IF Spreads(s, q) THEN <<q>> ELSE <<>>) /\ mid = Flood(rest, up, s, copy, k[1])
  OBVIOUS
<1>2. /\ q \in TypedPackets /\ rest \in [Chans -> T] /\ chan \in [Chans -> T]
      /\ IsNote(l, Version(l), q) \/ IsUpdate(l, q)
  BY <1>1, Taken DEF TypeInv
<1>3. copy \in T
  BY <1>1, <1>2, OneElement, EmptySeq
<1>4. mid \in [Chans -> T]
  BY <1>1, <1>2, <1>3, FloodType
<1>5. chan' = Flood(mid, up, s, <<>>, NoLink)
  <2>1. Answers(s, q) = <<>>
    BY <1>2, NoAnswer
  <2> QED
    BY <1>1, <2>1 DEF SwitchReceive
<1>6. ASSUME NEW y PROVE y \in ToSet(copy) <=> Spreads(s, q) /\ y = q
  BY <1>1, ToSetOne, ToSetEmpty
<1>7. ASSUME NEW y PROVE y \in On(chan', j) <=> y \in On(mid, j)
  <2>1. PICK none, next : none = <<>> /\ next = Flood(mid, up, s, none, NoLink)
    OBVIOUS
  <2>2. none \in T /\ y \notin ToSet(none)
    BY <2>1, EmptySeq, ToSetEmpty
  <2>3. y \in On(next, j) <=> y \in On(mid, j) \/ (Puts(up \ {NoLink}, s, j) /\ y \in ToSet(none))
    BY <1>4, <2>1, <2>2, OnFlood
  <2> QED
    BY <1>5, <2>1, <2>2, <2>3
<1>8. ASSUME NEW y
      PROVE  y \in On(mid, j) <=> y \in On(rest, j) \/ (Puts(up \ {k[1]}, s, j) /\ y \in ToSet(copy))
  <2>1. mid = Flood(rest, up, s, copy, k[1]) /\ rest \in [Chans -> T]
    BY <1>1, <1>2
  <2> QED
    BY <1>3, <2>1, OnFlood
<1>9. ASSUME NEW y PROVE y \in On(chan, j) <=> y \in On(rest, j) \/ (j = k /\ y = q)
  BY <1>1, <1>2, OnTake
<1>10. Puts(up \ {k[1]}, s, j) => Puts(up, s, j)
  BY DEF Puts
<1> QED
  BY <1>1, <1>6, <1>7, <1>8, <1>9, <1>10

\* What every reception after the failure of l does: k[2] receives q, may put it on
\* its other links and may send new packets of its own.
Receives(l, k, q, New) ==
  /\ hist' = hist /\ q \in On(chan, k)
  /\ \A p \in New : p.src = k[2] /\ IsUpdate(l, p) /\ p.id \in FreeIds
  /\ \A p, r \in New : p.id = r.id => p = r
  /\ \A j \in Chans : \A p \in On(chan, j) : p \in On(chan', j) \/ (j = k /\ p = q)
  /\ \A j \in Chans : \A p \in On(chan', j) :
       p \in On(chan, j) \/ ((p = q \/ p \in New) /\ Puts(Up(hist), k[2], j))
  /\ k[2] \in Switches /\ Spreads(k[2], q) =>
       \A j \in Chans : Puts(Up(hist) \ {k[1]}, k[2], j) => q \in On(chan', j)
  /\ \E seen \in SUBSET {q.id} : Remember(k[2], seen)

LEMMA ReceivesFilter ==
  ASSUME NEW l, NEW k \in Chans, NEW q, NEW New, Receives(l, k, q, New), NEW n \in Receivers
  PROVE  /\ filter'[n] \subseteq Travelling(chan')
         /\ filter'[n] \subseteq filter[n] \cup IF n = k[2] THEN {q.id} ELSE {}
<1>1. PICK seen \in SUBSET {q.id} : Remember(k[2], seen)
  BY DEF Receives
<1>2. /\ filter'[n] \subseteq Travelling(chan')
      /\ filter'[n] \subseteq filter[n] \cup IF n = k[2] THEN seen ELSE {}
  BY <1>1, Remembered
<1> QED
  BY <1>1, <1>2

\* Such a step keeps packets apart, and only notifications and updates travel.
LEMMA StepKeeps ==
  ASSUME TypeInv, Identified(chan, filter), NEW l \in Links, Failed(l),
         NEW k \in Chans, NEW q, NEW New, Receives(l, k, q, New)
  PROVE  Identified(chan', filter') /\ Carried(l)'
<1>0. /\ hist' = hist /\ q \in On(chan, k)
      /\ \A p \in New : p.src = k[2] /\ IsUpdate(l, p) /\ p.id \in FreeIds
      /\ \A p, r \in New : p.id = r.id => p = r
      /\ \A j \in Chans : \A p \in On(chan', j) :
           p \in On(chan, j) \/ ((p = q \/ p \in New) /\ Puts(Up(hist), k[2], j))
  BY DEF Receives
<1>1. \A n \in Receivers : filter'[n] \subseteq Travelling(chan')
  BY ReceivesFilter
<1>2. ASSUME NEW i \in Chans, NEW j \in Chans, NEW p \in On(chan', i), NEW r \in On(chan', j), p.id = r.id
      PROVE  p = r
  <2>1. \A h \in Chans : \A x \in On(chan', h) : x \in New \/ \E g \in Chans : x \in On(chan, g)
    BY <1>0
  <2>2. \A g \in Chans : \A x \in On(chan, g) : x.id \notin FreeIds
    <3>1. DOMAIN chan = Chans
      BY DEF TypeInv
    <3> QED
      BY <3>1, TravellingOn DEF FreeIds
  <2>3. CASE p \in New
    <3>1. r \in New
      BY <1>0, <1>2, <2>1, <2>2, <2>3
    <3> QED
      BY <1>0, <1>2, <2>3, <3>1
  <2>4. CASE p \notin New
    <3>1. r \notin New
      BY <1>0, <1>2, <2>1, <2>2, <2>4
    <3>2. PICK g \in Chans, h \in Chans : p \in On(chan, g) /\ r \in On(chan, h)
      BY <2>1, <2>4, <3>1
    <3> QED
      BY <1>2, <3>2 DEF Identified
  <2> QED
    BY <2>3, <2>4
<1>3. Identified(chan', filter')
  BY <1>1, <1>2 DEF Identified
<1>4. Carried(l)'
  <2>1. \A j \in Chans : \A p \in On(chan, j) :
          j[1] \in Up(hist) /\ (IsNote(l, Version(l), p) \/ IsUpdate(l, p))
    BY DEF Failed, Carried
  <2>2. SUFFICES ASSUME NEW j \in Chans, NEW p \in On(chan', j)
                 PROVE  j[1] \in Up(hist) /\ (IsNote(l, Version(l), p) \/ IsUpdate(l, p))
    BY <1>0 DEF Carried, Version
  <2>3. p \in On(chan, j) \/ ((p = q \/ p \in New) /\ j[1] \in Up(hist))
    BY <1>0 DEF Puts
  <2> QED
    BY <1>0, <2>1, <2>3
<1> QED
  BY <1>3, <1>4

\* Such a step keeps the packets spreading that it does not send.
LEMMA StepSpreads ==
  ASSUME Identified(chan, filter), NEW l, NEW k \in Chans, NEW q, NEW New, Receives(l, k, q, New),
         NEW o, NEW d, NEW S \in SUBSET Receivers, \A p \in New : ~ IsOf(o, d, p),
         Flooding(Up(hist), chan, filter, o, d, S)
  PROVE  Flooding(Up(hist'), chan', filter', o, d, Seen(S, o, d, k, q))
<1>0. /\ hist' = hist /\ q \in On(chan, k)
      /\ \A j \in Chans : \A p \in On(chan, j) : p \in On(chan', j) \/ (j = k /\ p = q)
      /\ \A j \in Chans : \A p \in On(chan', j) :
           p \in On(chan, j) \/ ((p = q \/ p \in New) /\ Puts(Up(hist), k[2], j))
      /\ k[2] \in Switches /\ Spreads(k[2], q) =>
           \A j \in Chans : Puts(Up(hist) \ {k[1]}, k[2], j) => q \in On(chan', j)
  BY DEF Receives
<1>1. PICK up, ch, fl : up = Up(hist) /\ ch = chan' /\ fl = filter'
  OBVIOUS
<1>2. \A j \in Chans : On(chan, j) \subseteq On(ch, j) \cup IF j = k THEN {q} ELSE {}
  BY <1>0, <1>1
<1>3. \A j \in Chans : \A p \in On(ch, j) : IsOf(o, d, p) =>
        p \in On(chan, j) \/ (p = q /\ Puts(up, k[2], j))
  BY <1>0, <1>1
<1>4. IsOf(o, d, q) /\ k[2] \in Switches \ {d} /\ q.id \notin filter[k[2]] =>
        \A j \in Chans : Puts(up \ {k[1]}, k[2], j) => q \in On(ch, j)
  BY <1>0, <1>1 DEF IsOf, Spreads
<1>5. \A n \in Receivers : fl[n] \subseteq filter[n] \cup IF n = k[2] THEN {q.id} ELSE {}
  BY <1>1, ReceivesFilter
<1>6. Passes(up, chan, ch, filter, fl, o, d, k, q)
  BY <1>2, <1>3, <1>4, <1>5 DEF Passes
<1>7. Flooding(up, chan, filter, o, d, S)
  BY <1>1
<1>8. Flooding(up, ch, fl, o, d, Seen(S, o, d, k, q))
  BY <1>0, <1>6, <1>7, SpreadStep
<1> QED
  BY <1>0, <1>1, <1>8

\* After link l failed, a switch receives a packet.
LEMMA SwitchKeeps ==
  ASSUME TypeInv, TypeInv', Identified(chan, filter), NEW l \in Links, Failed(l), hist' = hist,
         NEW k \in Chans, chan[k] # <<>>, NEW q, q = Head(chan[k]), k[2] \in Switches,
         SwitchReceive(k[2], k[1], q, [chan EXCEPT ![k] = Tail(@)])
  PROVE  Identified(chan', filter') /\ Failed(l)'
<1>1. /\ q \in On(chan, k)
      /\ IsNote(l, Version(l), q) \/ IsUpdate(l, q)
      /\ Up(hist') = Up(hist) /\ Version(l)' = Version(l)
      /\ UNCHANGED <<known, existing, flowDb>>
  BY Taken DEF SwitchReceive, Version
<1>2. /\ \A j \in Chans : \A p \in On(chan, j) : p \in On(chan', j) \/ (j = k /\ p = q)
      /\ \A j \in Chans : \A p \in On(chan', j) :
           p \in On(chan, j) \/ (p = q /\ Puts(Up(hist), k[2], j))
      /\ Spreads(k[2], q) => \A j \in Chans : Puts(Up(hist) \ {k[1]}, k[2], j) => q \in On(chan', j)
  BY SwitchSends
<1>3. Receives(l, k, q, {})
  <2>1. \E seen \in SUBSET {q.id} : Remember(k[2], seen)
    <3>1. Remember(k[2], IF Spreads(k[2], q) THEN {q.id} ELSE {})
      BY DEF SwitchReceive
    <3> QED
      BY <3>1
  <2> QED
    BY <1>1, <1>2, <2>1 DEF Receives
<1>4. /\ Identified(chan', filter')
      /\ Carried(l)'
      /\ \A o, d : \A S \in SUBSET Receivers :
           Flooding(Up(hist), chan, filter, o, d, S) =>
             Flooding(Up(hist), chan', filter', o, d, Seen(S, o, d, k, q))
  <2>1. Identified(chan', filter') /\ Carried(l)'
    BY <1>3, StepKeeps
  <2>2. ASSUME NEW o, NEW d, NEW S \in SUBSET Receivers, Flooding(Up(hist), chan, filter, o, d, S)
        PROVE  Flooding(Up(hist), chan', filter', o, d, Seen(S, o, d, k, q))
    <3>1. Flooding(Up(hist'), chan', filter', o, d, Seen(S, o, d, k, q))
      BY <1>3, <2>2, StepSpreads
    <3> QED
      BY <1>1, <3>1
  <2> QED
    BY <2>1, <2>2
<1>5. ASSUME NEW s \in Switches
      PROVE  /\ At(Without(l), s) \subseteq table[s] => At(Without(l), s) \subseteq table'[s]
             /\ s = k[2] /\ IsUpdate(l, q) /\ q.dst = s => At(Without(l), s) \subseteq table'[s]
             /\ s \notin Patched(Whole, Without(l)) => table'[s] = table[s]
             /\ table'[s] = table[s] \/ At(Without(l), s) \subseteq table'[s]
  <2>1. CASE s = k[2] /\ IsUpdate(l, q) /\ q.dst = s
    <3>1. q.data = [rules |-> At(Diff(Whole, Without(l)), s), del |-> Removed(Whole, Without(l), s)]
      BY <2>1 DEF IsUpdate
    <3>2. table'[s] = Install(table[s], q.data.rules, q.data.del)
      <4>1. q.type = "CHANGE_RULES" /\ q.dst \in {k[2], ALL}
        BY <2>1 DEF IsUpdate
      <4>2. table' = [table EXCEPT ![k[2]] = Install(@, q.data.rules, q.data.del)]
        BY <4>1 DEF SwitchReceive
      <4>3. DOMAIN table = Switches
        BY DEF TypeInv
      <4> QED
        BY <2>1, <4>2, <4>3
    <3>3. At(Whole, s) \subseteq table[s] \/ At(Without(l), s) \subseteq table[s]
      BY DEF Failed, Covered
    <3>4. At(Without(l), s) \subseteq
            Install(table[s], At(Diff(Whole, Without(l)), s), Removed(Whole, Without(l), s))
      BY <3>3, TablesTyped, InstallNew
    <3>5. At(Without(l), s) \subseteq table'[s]
      BY <3>1, <3>2, <3>4
    <3> QED
      BY <2>1, <3>5 DEF IsUpdate
  <2>2. CASE ~ (s = k[2] /\ IsUpdate(l, q) /\ q.dst = s)
    <3>1. table'[s] = table[s]
      <4>1. CASE s = k[2]
        <5>1. ~ (q.dst \in {k[2], ALL} /\ q.type = "CHANGE_RULES")
          <6>1. CASE IsNote(l, Version(l), q)
            BY <6>1 DEF IsNote
          <6>2. CASE IsUpdate(l, q)
            <7>1. q.dst \in Switches /\ q.dst # s
              BY <2>2, <4>1, <6>2, TablesTyped DEF IsUpdate
            <7> QED
              BY <4>1, <7>1, NameAssumption DEF Nodes
          <6> QED
            BY <1>1, <6>1, <6>2
        <5> QED
          BY <5>1 DEF SwitchReceive
      <4>2. CASE s # k[2]
        BY <4>2 DEF SwitchReceive, TypeInv
      <4> QED
        BY <4>1, <4>2
    <3> QED
      BY <2>2, <3>1
  <2> QED
    BY <2>1, <2>2
<1>6. \A c \in Controllers : (Knows(l, c) <=> Knows(l, c)') /\ (Unaware(l, c) => Unaware(l, c)')
  <2>1. SUFFICES ASSUME NEW c \in Controllers, Unaware(l, c) PROVE Unaware(l, c)'
    BY <1>1 DEF Knows
  <2>2. \A j \in Chans : \A p \in On(chan', j) : p.src # c
    BY <1>1, <1>2, <2>1 DEF Unaware
  <2> QED
    BY <1>1, <2>1, <2>2 DEF Unaware
<1>7. Covered(l)'
  BY <1>5 DEF Failed, Covered
<1>8. k[2] \in Receivers /\ k[2] \notin Controllers
  BY TopologyAssumption DEF Receivers, Endpoints
<1>9. NotesSpread(l)'
  <2>1. SUFFICES ASSUME NEW e \in Ends[l] \cap Switches
                 PROVE  \E S \in SUBSET Receivers :
                          /\ Flooding(Up(hist), chan', filter', e, ALL, S)
                          /\ \A c \in S \cap Controllers : Knows(l, c)'
    BY <1>1 DEF NotesSpread
  <2>2. PICK S \in SUBSET Receivers : /\ Flooding(Up(hist), chan, filter, e, ALL, S)
                                      /\ \A c \in S \cap Controllers : Knows(l, c)
    BY DEF Failed, NotesSpread
  <2>3. PICK S1 : S1 = Seen(S, e, ALL, k, q)
    OBVIOUS
  <2>4. Flooding(Up(hist), chan', filter', e, ALL, S1)
    BY <1>4, <2>2, <2>3
  <2>5. S1 \in SUBSET Receivers /\ S1 \cap Controllers \subseteq S
    BY <1>8, <2>3 DEF Seen
  <2> QED
    BY <1>6, <2>2, <2>4, <2>5
<1>10. UpdatesSpread(l)'
  <2>1. SUFFICES ASSUME NEW c \in Controllers, NEW s \in Patched(Whole, Without(l)), Knows(l, c)
                 PROVE  \E S \in SUBSET Receivers :
                          /\ Flooding(Up(hist), chan', filter', c, s, S)
                          /\ s \in S => At(Without(l), s) \subseteq table'[s]
    BY <1>1, <1>6 DEF UpdatesSpread
  <2>2. PICK S \in SUBSET Receivers : /\ Flooding(Up(hist), chan, filter, c, s, S)
                                      /\ s \in S => At(Without(l), s) \subseteq table[s]
    BY <2>1 DEF Failed, UpdatesSpread
  <2>3. PICK S1 : S1 = Seen(S, c, s, k, q)
    OBVIOUS
  <2>4. Flooding(Up(hist), chan', filter', c, s, S1)
    BY <1>4, <2>2, <2>3
  <2>5. S1 \in SUBSET Receivers
    BY <1>8, <2>3 DEF Seen
  <2>6. s \in Switches
    BY TablesTyped
  <2>7. IsOf(c, s, q) => IsUpdate(l, q) /\ q.dst = s
    <3>1. IsNote(l, Version(l), q) => q.dst \notin Switches
      BY NameAssumption DEF IsNote, Nodes
    <3> QED
      BY <1>1, <2>6, <3>1 DEF IsOf
  <2>8. s \in S1 => At(Without(l), s) \subseteq table'[s]
    BY <1>5, <2>2, <2>3, <2>6, <2>7 DEF Seen
  <2> QED
    BY <2>4, <2>5, <2>8
<1> QED
  BY <1>1, <1>4, <1>6, <1>7, <1>9, <1>10 DEF Failed

\* What travels when a packet leaves its channel and nothing else happens.
LEMMA TakenSends ==
  ASSUME TypeInv, NEW k \in Chans, chan[k] # <<>>, NEW q, q = Head(chan[k]),
         chan' = [chan EXCEPT ![k] = Tail(@)], NEW j \in Chans, NEW x
  PROVE  x \in On(chan, j) <=> x \in On(chan', j) \/ (j = k /\ x = q)
<1>1. PICK ch, rest : ch = chan /\ rest = chan' /\ rest = [ch EXCEPT ![k] = Tail(@)]
  OBVIOUS
<1>2. ch \in [Chans -> Seq(TypedPackets)]
  BY <1>1 DEF TypeInv
<1>3. x \in On(ch, j) <=> x \in On([ch EXCEPT ![k] = Tail(@)], j) \/ (j = k /\ x = Head(ch[k]))
  BY <1>1, <1>2, OnTake
<1> QED
  BY <1>1, <1>3

\* A controller that knows of the failure, or already saw the packet, does nothing.
LEMMA StaysKeeps ==
  ASSUME TypeInv, Identified(chan, filter), NEW l \in Links, Failed(l), hist' = hist,
         NEW k \in Chans, chan[k] # <<>>, NEW q, q = Head(chan[k]), k[2] \in Controllers,
         IsNote(l, Version(l), q) => Knows(l, k[2]),
         chan' = [chan EXCEPT ![k] = Tail(@)], Remember(k[2], {q.id}),
         UNCHANGED <<table, known, existing, flowDb>>
  PROVE  Identified(chan', filter') /\ Failed(l)'
<1>0. k[2] \notin Switches
  BY TopologyAssumption DEF Endpoints
<1>1. /\ q \in On(chan, k)
      /\ IsNote(l, Version(l), q) \/ IsUpdate(l, q)
      /\ Up(hist') = Up(hist) /\ Version(l)' = Version(l)
  BY Taken DEF Version
<1>2. \A j \in Chans : \A x : x \in On(chan, j) <=> x \in On(chan', j) \/ (j = k /\ x = q)
  BY TakenSends
<1>3. Receives(l, k, q, {})
  BY <1>0, <1>1, <1>2 DEF Receives
<1>4. Identified(chan', filter') /\ Carried(l)'
  BY <1>3, StepKeeps
<1>5. ASSUME NEW o, NEW d, NEW S \in SUBSET Receivers, Flooding(Up(hist), chan, filter, o, d, S)
      PROVE  Flooding(Up(hist), chan', filter', o, d, Seen(S, o, d, k, q))
  <2>1. PICK New : New = {}
    OBVIOUS
  <2>2. Receives(l, k, q, New) /\ \A p \in New : ~ IsOf(o, d, p)
    BY <1>3, <2>1
  <2>3. Flooding(Up(hist'), chan', filter', o, d, Seen(S, o, d, k, q))
    BY <1>5, <2>2, StepSpreads
  <2> QED
    BY <1>1, <2>3
<1>6. \A c \in Controllers : (Knows(l, c) <=> Knows(l, c)') /\ (Unaware(l, c) => Unaware(l, c)')
  <2>1. SUFFICES ASSUME NEW c \in Controllers, Unaware(l, c) PROVE Unaware(l, c)'
    BY <1>1 DEF Knows
  <2>2. \A j \in Chans : \A p \in On(chan', j) : p.src # c
    BY <1>2, <2>1 DEF Unaware
  <2> QED
    BY <1>1, <2>1, <2>2 DEF Unaware
<1>7. Covered(l)'
  BY DEF Failed, Covered
<1>8. k[2] \in Receivers
  BY DEF Receivers
<1>9. NotesSpread(l)'
  <2>1. SUFFICES ASSUME NEW e \in Ends[l] \cap Switches
                 PROVE  \E S \in SUBSET Receivers :
                          /\ Flooding(Up(hist), chan', filter', e, ALL, S)
                          /\ \A c \in S \cap Controllers : Knows(l, c)'
    BY <1>1 DEF NotesSpread
  <2>2. PICK S \in SUBSET Receivers : /\ Flooding(Up(hist), chan, filter, e, ALL, S)
                                      /\ \A c \in S \cap Controllers : Knows(l, c)
    BY DEF Failed, NotesSpread
  <2>3. PICK S1 : S1 = Seen(S, e, ALL, k, q)
    OBVIOUS
  <2>4. Flooding(Up(hist), chan', filter', e, ALL, S1)
    BY <1>5, <2>2, <2>3
  <2>5. S1 \in SUBSET Receivers
    BY <1>8, <2>3 DEF Seen
  <2>6. ASSUME NEW c \in S1 \cap Controllers PROVE Knows(l, c)
    <3>1. c \in S \/ (c = k[2] /\ IsOf(e, ALL, q))
      BY <2>3, <2>6 DEF Seen
    <3>2. IsOf(e, ALL, q) => IsNote(l, Version(l), q)
      <4>1. IsUpdate(l, q) => q.src \notin Switches
        BY TopologyAssumption DEF IsUpdate, Endpoints
      <4> QED
        BY <1>1, <4>1 DEF IsOf
    <3> QED
      BY <2>2, <3>1, <3>2
  <2> QED
    BY <1>6, <2>4, <2>5, <2>6
<1>10. UpdatesSpread(l)'
  <2>1. SUFFICES ASSUME NEW c \in Controllers, NEW s \in Patched(Whole, Without(l)), Knows(l, c)
                 PROVE  \E S \in SUBSET Receivers :
                          /\ Flooding(Up(hist), chan', filter', c, s, S)
                          /\ s \in S => At(Without(l), s) \subseteq table[s]
    BY <1>1, <1>6 DEF UpdatesSpread
  <2>2. PICK S \in SUBSET Receivers : /\ Flooding(Up(hist), chan, filter, c, s, S)
                                      /\ s \in S => At(Without(l), s) \subseteq table[s]
    BY <2>1 DEF Failed, UpdatesSpread
  <2>3. PICK S1 : S1 = Seen(S, c, s, k, q)
    OBVIOUS
  <2>4. Flooding(Up(hist), chan', filter', c, s, S1)
    BY <1>5, <2>2, <2>3
  <2>5. S1 \in SUBSET Receivers
    BY <1>8, <2>3 DEF Seen
  <2>6. s \in S1 => s \in S
    BY <1>0, <2>3, TablesTyped DEF Seen
  <2> QED
    BY <2>2, <2>4, <2>5, <2>6
<1> QED
  BY <1>1, <1>4, <1>6, <1>7, <1>9, <1>10 DEF Failed

\* What a controller makes of a notification.
LEMMA NoteNews ==
  ASSUME NEW l \in Links, NEW q, IsNote(l, Version(l), q), NEW c
  PROVE  /\ known[c][l] < Version(l) => Newer(c, Report(q)) = {l}
         /\ ~ (known[c][l] < Version(l)) => Newer(c, Report(q)) = {}
         /\ NewKnown(c, Report(q)) =
              [m \in Links |-> IF m \in Newer(c, Report(q)) THEN Version(l) ELSE known[c][m]]
         /\ NewExisting(c, Report(q)) = existing[c] \ Newer(c, Report(q))
         /\ Recomputes(c, q) <=> NewExisting(c, Report(q)) # existing[c]
         /\ Believed(c, q) = flowDb[c]
<1>1. /\ q.type = "LINK_DOWN" /\ q.data.link = l /\ q.data.version = Version(l)
  BY DEF IsNote
<1>2. Report(q) = [m \in {l} |-> [state |-> "DOWN", version |-> Version(l)]]
  BY <1>1 DEF Report
<1>3. /\ DOMAIN Report(q) = {l} /\ Report(q)[l].version = Version(l) /\ Report(q)[l].state = "DOWN"
  BY <1>2
<1>4. Newer(c, Report(q)) = {m \in {l} : Version(l) > known[c][m]}
  BY <1>3 DEF Newer
<1>5. /\ known[c][l] < Version(l) => Newer(c, Report(q)) = {l}
      /\ ~ (known[c][l] < Version(l)) => Newer(c, Report(q)) = {}
      /\ \A m \in Newer(c, Report(q)) : m = l
  BY <1>4
<1>6. NewKnown(c, Report(q)) =
        [m \in Links |-> IF m \in Newer(c, Report(q)) THEN Version(l) ELSE known[c][m]]
  BY <1>3, <1>5 DEF NewKnown
<1>7. NewExisting(c, Report(q)) = existing[c] \ Newer(c, Report(q))
  BY <1>3, <1>5 DEF NewExisting
<1>8. /\ Recomputes(c, q) <=> NewExisting(c, Report(q)) # existing[c]
      /\ Believed(c, q) = flowDb[c]
  BY <1>1 DEF Recomputes, Believed
<1> QED
  BY <1>5, <1>6, <1>7, <1>8

\* A controller that hears of the failure believes it, and sends its updates.
LEMMA PatchSends ==
  ASSUME TypeInv, NEW l \in Links, Failed(l), hist' = hist,
         NEW k \in Chans, chan[k] # <<>>, NEW q, q = Head(chan[k]), NEW c \in Controllers,
         IsNote(l, Version(l), q), Unaware(l, c),
         ControllerProcess(c, q, [chan EXCEPT ![k] = Tail(@)])
  PROVE  /\ Knows(l, c)'
         /\ \A e \in Controllers \ {c} :
              known'[e] = known[e] /\ existing'[e] = existing[e] /\ flowDb'[e] = flowDb[e]
         /\ \A j \in Chans : \A x :
              /\ x \in On(chan, j) => x \in On(chan', j) \/ (j = k /\ x = q)
              /\ x \in On(chan', j) <=>
                   \/ x \in On([chan EXCEPT ![k] = Tail(@)], j)
                   \/ Puts(Up(hist), c, j) /\ x \in ToSet(Patch(c, Whole, Without(l)))
              /\ x \in On([chan EXCEPT ![k] = Tail(@)], j) => x \in On(chan, j)
<1>1. /\ known[c][l] < Version(l) /\ existing[c] = Links /\ flowDb[c] = Whole
  BY DEF Unaware
<1>2. /\ Newer(c, Report(q)) = {l} /\ NewExisting(c, Report(q)) = Links \ {l}
      /\ NewKnown(c, Report(q))[l] = Version(l)
      /\ Recomputes(c, q) /\ Believed(c, q) = Whole
  <2>1. Newer(c, Report(q)) = {l}
    BY <1>1, NoteNews
  <2>2. NewExisting(c, Report(q)) = Links \ {l}
    BY <1>1, <2>1, NoteNews
  <2>3. NewKnown(c, Report(q)) =
          [m \in Links |-> IF m \in Newer(c, Report(q)) THEN Version(l) ELSE known[c][m]]
    BY NoteNews
  <2>4. Recomputes(c, q)
    BY <1>1, <2>2, NoteNews
  <2>5. Believed(c, q) = Whole
    BY <1>1, NoteNews
  <2> QED
    BY <2>1, <2>2, <2>3, <2>4, <2>5
<1>3. /\ c \in DOMAIN known /\ c \in DOMAIN existing /\ c \in DOMAIN flowDb
      /\ DOMAIN known = Controllers /\ DOMAIN existing = Controllers /\ DOMAIN flowDb = Controllers
      /\ chan \in [Chans -> Seq(TypedPackets)]
  BY DEF TypeInv
<1>4. /\ known' = [known EXCEPT ![c] = NewKnown(c, Report(q))]
      /\ existing' = [existing EXCEPT ![c] = NewExisting(c, Report(q))]
  BY DEF ControllerProcess
<1>5. existing'[c] = Links \ {l} /\ known'[c][l] = Version(l)
  BY <1>2, <1>3, <1>4
<1>6. /\ flowDb' = [flowDb EXCEPT ![c] = Without(l)]
      /\ chan' = Flood([chan EXCEPT ![k] = Tail(@)], Up(hist), c, Patch(c, Whole, Without(l)), NoLink)
  <2>1. \E new \in {NewTable(existing'[c])} : \E patch \in {Patch(c, Believed(c, q), new)} :
          /\ flowDb' = [flowDb EXCEPT ![c] = new]
          /\ chan' = Flood([chan EXCEPT ![k] = Tail(@)], Up(hist), c, patch, NoLink)
    BY <1>2 DEF ControllerProcess
  <2> QED
    BY <1>2, <1>5, <2>1 DEF Without
<1>7. Knows(l, c)'
  BY <1>3, <1>5, <1>6 DEF Knows, Version
<1>8. \A e \in Controllers \ {c} :
        known'[e] = known[e] /\ existing'[e] = existing[e] /\ flowDb'[e] = flowDb[e]
  BY <1>3, <1>4, <1>6
<1>9. PICK rest, next, up, patch :
        /\ rest = [chan EXCEPT ![k] = Tail(@)] /\ next = chan' /\ up = Up(hist)
        /\ patch = Patch(c, Whole, Without(l))
  OBVIOUS
<1>10. next = Flood(rest, up, c, patch, NoLink)
  BY <1>6, <1>9
<1>11. rest \in [Chans -> Seq(TypedPackets)] /\ patch \in Seq(TypedPackets)
  <2>1. patch \in Seq(TypedPackets)
    <3>1. Cardinality(FreeIds) >= Cardinality(Switches)
      BY DEF ControllerProcess
    <3> QED
      BY <1>9, <3>1, PatchContents
  <2> QED
    BY <1>9, <2>1, Taken
<1>12. up \ {NoLink} = up
  BY <1>9, NameAssumption DEF Up
<1>13. ASSUME NEW j \in Chans, NEW x
       PROVE  x \in On(next, j) <=> x \in On(rest, j) \/ (Puts(up \ {NoLink}, c, j) /\ x \in ToSet(patch))
  BY <1>10, <1>11, OnFlood
<1>14. ASSUME NEW j \in Chans, NEW x
       PROVE  x \in On(chan, j) <=> x \in On(rest, j) \/ (j = k /\ x = q)
  BY <1>3, <1>9, OnTake
<1>15. ASSUME NEW j \in Chans, NEW x
       PROVE  /\ x \in On(chan, j) => x \in On(next, j) \/ (j = k /\ x = q)
              /\ x \in On(next, j) <=> x \in On(rest, j) \/ (Puts(up, c, j) /\ x \in ToSet(patch))
              /\ x \in On(rest, j) => x \in On(chan, j)
  BY <1>12, <1>13, <1>14
<1> QED
  BY <1>7, <1>8, <1>9, <1>15

LEMMA PatchKeeps ==
  ASSUME TypeInv, Identified(chan, filter), NEW l \in Links, Failed(l), hist' = hist,
         NEW k \in Chans, chan[k] # <<>>, NEW q, q = Head(chan[k]), NEW c \in Controllers, c = k[2],
         IsNote(l, Version(l), q), Unaware(l, c),
         ControllerProcess(c, q, [chan EXCEPT ![k] = Tail(@)])
  PROVE  Identified(chan', filter') /\ Failed(l)'
<1>0. /\ c \notin Switches /\ q.src \in Switches /\ c \in Receivers
      /\ \A e \in Controllers : e \notin Switches
  BY TopologyAssumption DEF Endpoints, IsNote, Receivers
<1>1. /\ q \in On(chan, k)
      /\ Up(hist') = Up(hist) /\ Version(l)' = Version(l)
      /\ Remember(c, {q.id}) /\ table' = table
  BY Taken DEF Version, ControllerProcess
<1>a. ControllerProcess(c, q, [chan EXCEPT ![k] = Tail(@)])
  OBVIOUS
<1>2. /\ Knows(l, c)'
      /\ \A e \in Controllers \ {c} :
           known'[e] = known[e] /\ existing'[e] = existing[e] /\ flowDb'[e] = flowDb[e]
  BY <1>a, PatchSends
<1>3. PICK New, rest : New = ToSet(Patch(c, Whole, Without(l))) /\ rest = [chan EXCEPT ![k] = Tail(@)]
  OBVIOUS
<1>4. \A j \in Chans : \A x :
        /\ x \in On(chan, j) => x \in On(chan', j) \/ (j = k /\ x = q)
        /\ x \in On(chan', j) <=> x \in On(rest, j) \/ (Puts(Up(hist), c, j) /\ x \in New)
        /\ x \in On(rest, j) => x \in On(chan, j)
  <2>1. \A j \in Chans : \A x :
          /\ x \in On(chan, j) => x \in On(chan', j) \/ (j = k /\ x = q)
          /\ x \in On(chan', j) <=>
               \/ x \in On([chan EXCEPT ![k] = Tail(@)], j)
               \/ Puts(Up(hist), c, j) /\ x \in ToSet(Patch(c, Whole, Without(l)))
          /\ x \in On([chan EXCEPT ![k] = Tail(@)], j) => x \in On(chan, j)
    BY <1>a, PatchSends
  <2> QED
    BY <1>3, <2>1
<1>5. /\ \A p \in New : p.src = c /\ IsUpdate(l, p) /\ p.id \in FreeIds
      /\ \A p, r \in New : p.id = r.id => p = r
      /\ \A s \in Patched(Whole, Without(l)) : \E p \in New : IsOf(c, s, p)
  <2>1. Cardinality(FreeIds) >= Cardinality(Switches)
    BY DEF ControllerProcess
  <2> QED
    BY <1>3, <2>1, PatchContents
<1>6. Receives(l, k, q, New)
  <2>1. \E seen \in SUBSET {q.id} : Remember(k[2], seen)
    BY <1>1
  <2>2. \A j \in Chans : \A p \in On(chan', j) :
          p \in On(chan, j) \/ ((p = q \/ p \in New) /\ Puts(Up(hist), k[2], j))
    BY <1>4
  <2>3. \A j \in Chans : \A p \in On(chan, j) : p \in On(chan', j) \/ (j = k /\ p = q)
    BY <1>4
  <2> QED
    BY <1>0, <1>1, <1>5, <2>1, <2>2, <2>3 DEF Receives
<1>7. Identified(chan', filter') /\ Carried(l)'
  BY <1>6, StepKeeps
<1>8. ASSUME NEW o, NEW d, NEW S \in SUBSET Receivers, \A p \in New : ~ IsOf(o, d, p),
             Flooding(Up(hist), chan, filter, o, d, S)
      PROVE  Flooding(Up(hist), chan', filter', o, d, Seen(S, o, d, k, q))
  <2>1. Flooding(Up(hist'), chan', filter', o, d, Seen(S, o, d, k, q))
    BY <1>6, <1>8, StepSpreads
  <2> QED
    BY <1>1, <2>1
<1>9. \A e \in Controllers \ {c} : (Knows(l, e) <=> Knows(l, e)') /\ (Unaware(l, e) => Unaware(l, e)')
  <2>1. \A e \in Controllers \ {c} : Knows(l, e) <=> Knows(l, e)'
    BY <1>1, <1>2 DEF Knows
  <2>2. SUFFICES ASSUME NEW e \in Controllers \ {c}, Unaware(l, e) PROVE Unaware(l, e)'
    BY <2>1
  <2>3. \A j \in Chans : \A p \in On(chan', j) : p.src # e
    BY <1>4, <1>5, <2>2 DEF Unaware
  <2>4. known'[e][l] < Version(l)' /\ existing'[e] = Links /\ flowDb'[e] = Whole
    BY <1>1, <1>2, <2>2 DEF Unaware
  <2> QED
    BY <2>3, <2>4 DEF Unaware
<1>10. Covered(l)'
  BY <1>1 DEF Failed, Covered
<1>11. NotesSpread(l)'
  <2>1. SUFFICES ASSUME NEW e \in Ends[l] \cap Switches
                 PROVE  \E S \in SUBSET Receivers :
                          /\ Flooding(Up(hist), chan', filter', e, ALL, S)
                          /\ \A d \in S \cap Controllers : Knows(l, d)'
    BY <1>1 DEF NotesSpread
  <2>2. PICK S \in SUBSET Receivers : /\ Flooding(Up(hist), chan, filter, e, ALL, S)
                                      /\ \A d \in S \cap Controllers : Knows(l, d)
    BY DEF Failed, NotesSpread
  <2>3. PICK S1 : S1 = Seen(S, e, ALL, k, q)
    OBVIOUS
  <2>4. \A p \in New : ~ IsOf(e, ALL, p)
    BY <1>0, <1>5 DEF IsOf
  <2>5. Flooding(Up(hist), chan', filter', e, ALL, S1)
    BY <1>8, <2>2, <2>3, <2>4
  <2>6. S1 \in SUBSET Receivers /\ \A d \in S1 : d \in S \/ d = c
    BY <1>0, <2>3 DEF Seen
  <2>7. \A d \in S1 \cap Controllers : Knows(l, d)'
    BY <1>2, <1>9, <2>2, <2>6
  <2> QED
    BY <2>5, <2>6, <2>7
<1>12. ASSUME NEW s \in Patched(Whole, Without(l))
       PROVE  Flooding(Up(hist), chan', filter', c, s, {c})
  <2>1. PICK ch, fl, up : ch = chan' /\ fl = filter' /\ up = Up(hist)
    OBVIOUS
  <2>2. \A j \in Chans : Puts(up, c, j) => \E p \in On(ch, j) : IsOf(c, s, p)
    <3>1. PICK p \in New : IsOf(c, s, p)
      BY <1>5
    <3> QED
      BY <1>4, <2>1, <3>1
  <2>3. ASSUME NEW j \in Chans, NEW p \in On(ch, j), IsOf(c, s, p)
        PROVE  Puts(up, c, j) /\ \A n \in Receivers : p.id \notin fl[n]
    <3>1. p \notin On(chan, j)
      BY <2>3 DEF Unaware, IsOf
    <3>2. Puts(up, c, j) /\ p \in New
      BY <1>4, <2>1, <3>1
    <3>3. p.id \notin Travelling(chan)
      BY <1>5, <3>2 DEF FreeIds
    <3>4. q.id \in Travelling(chan)
      <4>1. DOMAIN chan = Chans
        BY DEF TypeInv
      <4> QED
        BY <1>1, <4>1, TravellingOn
    <3>5. SUFFICES ASSUME NEW n \in Receivers PROVE p.id \notin fl[n]
      BY <3>2
    <3>6. fl[n] \subseteq filter[n] \cup {q.id}
      <4>1. filter'[n] \subseteq filter[n] \cup IF n = k[2] THEN {q.id} ELSE {}
        BY <1>6, ReceivesFilter
      <4> QED
        BY <2>1, <4>1
    <3>7. filter[n] \subseteq Travelling(chan)
      BY DEF Identified
    <3> QED
      BY <3>3, <3>4, <3>6, <3>7
  <2>4. Flooding(up, ch, fl, c, s, {c})
    BY <2>2, <2>3, SpreadStart
  <2> QED
    BY <2>1, <2>4
<1>13. UpdatesSpread(l)'
  <2>1. SUFFICES ASSUME NEW e \in Controllers, NEW s \in Patched(Whole, Without(l)), Knows(l, e)'
                 PROVE  \E S \in SUBSET Receivers :
                          /\ Flooding(Up(hist), chan', filter', e, s, S)
                          /\ s \in S => At(Without(l), s) \subseteq table[s]
    BY <1>1 DEF UpdatesSpread
  <2>2. CASE e = c
    <3>1. Flooding(Up(hist), chan', filter', e, s, {c})
      BY <1>12, <2>2
    <3>2. s \notin {c} /\ {c} \in SUBSET Receivers
      BY <1>0, TablesTyped
    <3> QED
      BY <3>1, <3>2
  <2>3. CASE e # c
    <3>1. PICK S \in SUBSET Receivers : /\ Flooding(Up(hist), chan, filter, e, s, S)
                                        /\ s \in S => At(Without(l), s) \subseteq table[s]
      BY <1>9, <2>1, <2>3 DEF Failed, UpdatesSpread
    <3>2. ~ IsOf(e, s, q) /\ \A p \in New : ~ IsOf(e, s, p)
      BY <1>0, <1>5, <2>3 DEF IsOf
    <3>3. Seen(S, e, s, k, q) = S
      BY <3>2 DEF Seen
    <3>4. Flooding(Up(hist), chan', filter', e, s, S)
      BY <1>8, <3>1, <3>2, <3>3
    <3> QED
      BY <3>1, <3>4
  <2> QED
    BY <2>2, <2>3
<1>14. \A e \in Controllers : Knows(l, e)' \/ Unaware(l, e)'
  BY <1>2, <1>9 DEF Failed
<1>15. Up(hist') = Links \ {l}
  BY <1>1 DEF Failed
<1> QED
  BY <1>7, <1>10, <1>11, <1>13, <1>14, <1>15 DEF Failed

\* After link l failed, a packet is received.
LEMMA RunKeeps ==
  ASSUME TypeInv, TypeInv', Identified(chan, filter), NEW l \in Links, Failed(l),
         NEW k \in Chans, Deliver(k)
  PROVE  Identified(chan', filter') /\ Failed(l)'
<1>1. chan[k] # <<>> /\ hist' = hist
  BY DEF Deliver
<1>2. PICK q : q = Head(chan[k])
  OBVIOUS
<1>3. /\ k[1] \in Up(hist) /\ q \in On(chan, k)
      /\ IsNote(l, Version(l), q) \/ IsUpdate(l, q)
  BY <1>1, <1>2, Taken
<1>4. CASE k[2] \in Switches
  <2>1. SwitchReceive(k[2], k[1], q, [chan EXCEPT ![k] = Tail(@)])
    BY <1>2, <1>3, <1>4 DEF Deliver
  <2> QED
    BY <1>1, <1>2, <1>4, <2>1, SwitchKeeps
<1>5. CASE k[2] \notin Switches
  <2>1. k[2] \in Controllers
    BY <1>5 DEF Chans, Receivers
  <2>2. PICK c \in Controllers : c = k[2]
    BY <2>1
  <2>3. ControllerReceive(c, q, [chan EXCEPT ![k] = Tail(@)])
    BY <1>2, <1>3, <1>5, <2>2 DEF Deliver
  <2>4. c \notin Switches /\ c \in Receivers
    BY <1>5, <2>2 DEF Receivers
  <2>5. CASE q.id \notin filter[c] /\ q.dst \in {c, ALL}
    <3>1. ControllerProcess(c, q, [chan EXCEPT ![k] = Tail(@)])
      BY <2>3, <2>5 DEF ControllerReceive
    <3>2. IsNote(l, Version(l), q)
      <4>1. IsUpdate(l, q) => q.dst \in Switches
        BY TablesTyped DEF IsUpdate
      <4>2. ALL \notin Switches
        BY NameAssumption DEF Nodes
      <4> QED
        BY <1>3, <2>4, <2>5, <4>1, <4>2
    <3>3. CASE Unaware(l, c)
      BY <1>1, <1>2, <2>2, <3>1, <3>2, <3>3, PatchKeeps
    <3>4. CASE Knows(l, c)
      <4>1. /\ Newer(c, Report(q)) = {} /\ NewExisting(c, Report(q)) = existing[c]
            /\ ~ Recomputes(c, q) /\ NewKnown(c, Report(q)) = [m \in Links |-> known[c][m]]
        <5>1. ~ (known[c][l] < Version(l))
          <6>1. Version(l) \in Nat
            BY LenProperties DEF Version, TypeInv
          <6> QED
            BY <3>4, <6>1 DEF Knows
        <5>2. Newer(c, Report(q)) = {}
          BY <3>2, <5>1, NoteNews
        <5>3. NewExisting(c, Report(q)) = existing[c]
          <6>1. NewExisting(c, Report(q)) = existing[c] \ Newer(c, Report(q))
            BY <3>2, NoteNews
          <6> QED
            BY <5>2, <6>1
        <5>4. ~ Recomputes(c, q)
          BY <3>2, <5>3, NoteNews
        <5>5. NewKnown(c, Report(q)) =
                [m \in Links |-> IF m \in Newer(c, Report(q)) THEN Version(l) ELSE known[c][m]]
          BY <3>2, NoteNews
        <5> QED
          BY <5>2, <5>3, <5>4, <5>5
      <4>2. known[c] = [m \in Links |-> known[c][m]] /\ known = [known EXCEPT ![c] = known[c]]
            /\ existing = [existing EXCEPT ![c] = existing[c]]
        BY DEF TypeInv
      <4>3. UNCHANGED <<table, known, existing, flowDb>> /\ Remember(c, {q.id})
            /\ chan' = [chan EXCEPT ![k] = Tail(@)]
        BY <3>1, <4>1, <4>2 DEF ControllerProcess
      <4> QED
        BY <1>1, <1>2, <2>2, <3>4, <4>3, StaysKeeps
    <3> QED
      BY <3>3, <3>4 DEF Failed
  <2>6. CASE ~ (q.id \notin filter[c] /\ q.dst \in {c, ALL})
    <3>1. /\ UNCHANGED <<table, known, existing, flowDb>> /\ Remember(c, {q.id})
          /\ chan' = [chan EXCEPT ![k] = Tail(@)]
      BY <2>3, <2>6 DEF ControllerReceive, ControllerIgnore
    <3>2. ASSUME IsNote(l, Version(l), q) PROVE Knows(l, c)
      <4>1. q.dst = ALL /\ q.src \in Ends[l] \cap Switches /\ q.id \in filter[c]
        BY <2>6, <3>2 DEF IsNote
      <4>2. PICK S \in SUBSET Receivers : /\ Flooding(Up(hist), chan, filter, q.src, ALL, S)
                                          /\ \A e \in S \cap Controllers : Knows(l, e)
        BY <4>1 DEF Failed, NotesSpread
      <4>3. IsOf(q.src, ALL, q)
        BY <4>1 DEF IsOf
      <4>4. \A n \in Receivers \ S : q.id \notin filter[n]
        BY <1>3, <4>2, <4>3 DEF Flooding
      <4> QED
        BY <2>4, <4>1, <4>2, <4>4
    <3> QED
      BY <1>1, <1>2, <2>2, <3>1, <3>2, StaysKeeps
  <2> QED
    BY <2>5, <2>6
<1> QED
  BY <1>4, <1>5

-----------------------------------------------------------------------------
\* When nothing travels, the packet that o floods has reached the other end of
\* every link that a node with the packet can use.
LEMMA FloodEnds ==
  ASSUME NEW up \in SUBSET Links, NEW fl, NEW ch, \A k \in Chans : ch[k] = <<>>,
         NEW o, NEW d, NEW S \in SUBSET Receivers, Flooding(up, ch, fl, o, d, S),
         NEW n \in (S \cap (Switches \cup {o})) \ {d},
         NEW j \in up, NEW m \in Receivers, n # m, n \in Ends[j], m \in Ends[j]
  PROVE  m \in S
<1>1. PICK k \in Chans : k[1] = j /\ k[2] = m
  <2>1. <<j, m>> \in Chans /\ <<j, m>>[1] = j /\ <<j, m>>[2] = m
    BY DEF Chans
  <2> QED
    BY <2>1
<1>2. Puts(up, n, k)
  BY <1>1 DEF Puts
<1>3. k[2] \in S \/ \E p \in On(ch, k) : IsOf(o, d, p)
  BY <1>2 DEF Flooding
<1>4. On(ch, k) = {}
  BY ToSetEmpty DEF On
<1> QED
  BY <1>1, <1>3, <1>4

LEMMA FloodClosed ==
  ASSUME NEW up \in SUBSET Links, NEW fl, NEW ch, \A k \in Chans : ch[k] = <<>>,
         NEW o, NEW d, NEW S \in SUBSET Receivers, Flooding(up, ch, fl, o, d, S), d \notin S
  PROVE  Closed(up, S \cap Switches)
<1>1. SUFFICES ASSUME NEW j \in up, NEW x \in Switches, NEW y \in Switches, Ends[j] = {x, y}, x \in S
               PROVE  y \in S
  BY DEF Closed
<1>2. /\ y \in Receivers /\ x \in Ends[j] /\ y \in Ends[j]
      /\ x \in (S \cap (Switches \cup {o})) \ {d}
  BY <1>1 DEF Receivers
<1>3. CASE x # y
  BY <1>1, <1>2, <1>3, FloodEnds
<1> QED
  BY <1>1, <1>3

\* The switch that an end host is attached to.
LEMMA SwitchOfType ==
  ASSUME NEW h \in Endpoints
  PROVE  /\ SwitchOf(h) \in Switches /\ SwitchOf(h) # h
         /\ h \in Ends[AccessLink(h)] /\ SwitchOf(h) \in Ends[AccessLink(h)]
<1>1. AccessLink(h) \in Links /\ h \in Ends[AccessLink(h)] /\ h \notin Switches
  BY AccessLinkType, TopologyAssumption
<1>2. PICK s \in Ends[AccessLink(h)] : s \in Switches
  BY <1>1, TopologyAssumption
<1>3. s # h /\ \A m \in Ends[AccessLink(h)] : m # h => m \in Switches
  BY <1>1, <1>2, OneEndHost
<1>4. SwitchOf(h) \in Ends[AccessLink(h)] /\ SwitchOf(h) # h
  BY <1>2, <1>3 DEF SwitchOf, Other
<1> QED
  BY <1>1, <1>3, <1>4

\* In a whole network, when nothing travels any more, each controller that is
\* still attached knows of the failure.
LEMMA QuietKnows ==
  ASSUME WholeNetwork, NEW l \in Links, Failed(l), \A k \in Chans : chan[k] = <<>>,
         NEW c \in Controllers, AccessLink(c) # l
  PROVE  Knows(l, c)
<1>1. c \in Endpoints /\ c \in Receivers
  BY DEF Endpoints, Receivers
<1>2. PICK x, a : x = SwitchOf(c) /\ a = AccessLink(c)
  OBVIOUS
<1>3. x \in Switches /\ x # c /\ c \in Ends[a] /\ x \in Ends[a] /\ a \in Links
  BY <1>1, <1>2, SwitchOfType, AccessLinkType
<1>4. PICK up : up = Up(hist)
  OBVIOUS
<1>5. up = Links \ {l}
  BY <1>4 DEF Failed
<1>6. PICK e \in Ends[l] \cap Switches : \A A : Closed(Links \ {l}, A) => (x \in A <=> e \in A)
  BY <1>3, NearEnd
<1>7. PICK S \in SUBSET Receivers : /\ Flooding(up, chan, filter, e, ALL, S)
                                    /\ \A b \in S \cap Controllers : Knows(l, b)
  BY <1>4 DEF Failed, NotesSpread
<1>8. up \in SUBSET Links /\ ALL \notin S /\ e \in S
  BY <1>5, <1>7, NameAssumption DEF Flooding, Receivers, Nodes, Endpoints
<1>9. Closed(up, S \cap Switches)
  BY <1>7, <1>8, FloodClosed
<1>10. x \in S
  BY <1>3, <1>5, <1>6, <1>8, <1>9
<1>11. c \in S
  <2>1. a \in up /\ x \in (S \cap (Switches \cup {e})) \ {ALL}
    BY <1>2, <1>3, <1>5, <1>8, <1>10
  <2> QED
    BY <1>1, <1>3, <1>7, <1>8, <1>10, <2>1, FloodEnds
<1> QED
  BY <1>7, <1>11

\* No end of a link that changes a rule when it fails is an end host.
LEMMA PatchedEnds ==
  ASSUME NEW l \in Links, NEW s \in Patched(Whole, Without(l))
  PROVE  \E x, y \in Switches :
           Ends[l] = {x, y} /\ \A A : Closed(Links \ {l}, A) => (x \in A <=> y \in A)
<1>1. PICK r \in NewTable(Links \ {l}) : r \notin NewTable(Links)
  BY DEF Patched, Diff, Whole, Without
<1> QED
  BY <1>1, Rerouted

\* Then the switches have the rules of all routes that are left.
LEMMA QuietTables ==
  ASSUME WholeNetwork, NEW l \in Links, Failed(l), \A k \in Chans : chan[k] = <<>>, NEW s \in Switches
  PROVE  At(Without(l), s) \subseteq table[s]
<1>1. CASE s \notin Patched(Whole, Without(l))
  <2>1. At(Whole, s) \subseteq table[s]
    BY <1>1 DEF Failed, Covered
  <2>2. At(Without(l), s) \subseteq At(Whole, s)
    BY <1>1 DEF At, Patched, Diff
  <2> QED
    BY <2>1, <2>2
<1>2. CASE s \in Patched(Whole, Without(l))
  <2>1. PICK x, y \in Switches :
          Ends[l] = {x, y} /\ \A A : Closed(Links \ {l}, A) => (x \in A <=> y \in A)
    BY <1>2, PatchedEnds
  <2>2. PICK c \in Controllers : TRUE
    BY ExperimentAssumption
  <2>3. PICK z, a, up : z = SwitchOf(c) /\ a = AccessLink(c) /\ up = Up(hist)
    OBVIOUS
  <2>4. /\ c \in Endpoints /\ c \in Receivers /\ c \notin Switches
        /\ z \in Switches /\ z # c /\ c \in Ends[a] /\ z \in Ends[a] /\ a \in Links
    <3>1. c \in Endpoints /\ c \in Receivers /\ c \notin Switches
      BY TopologyAssumption DEF Endpoints, Receivers
    <3> QED
      BY <2>3, <3>1, SwitchOfType, AccessLinkType
  <2>5. a # l
    BY <2>1, <2>4
  <2>6. Knows(l, c)
    BY <2>3, <2>5, QuietKnows
  <2>7. PICK S \in SUBSET Receivers : /\ Flooding(up, chan, filter, c, s, S)
                                      /\ s \in S => At(Without(l), s) \subseteq table[s]
    BY <1>2, <2>3, <2>6 DEF Failed, UpdatesSpread
  <2>8. up = Links \ {l} /\ up \in SUBSET Links /\ a \in up /\ c \in S
    BY <2>3, <2>4, <2>5, <2>7 DEF Failed, Flooding
  <2>9. ASSUME s \notin S PROVE FALSE
    <3>1. Closed(up, S \cap Switches)
      BY <2>7, <2>8, <2>9, FloodClosed
    <3>2. z \in S
      <4>1. z \in Receivers /\ c \in (S \cap (Switches \cup {c})) \ {s}
        BY <2>4, <2>8, <2>9 DEF Receivers
      <4>2. c # z /\ c \in Ends[a] /\ z \in Ends[a] /\ a \in up /\ up \in SUBSET Links
        BY <2>4, <2>8
      <4>3. Flooding(up, chan, filter, c, s, S)
        BY <2>7
      <4> QED
        BY <4>1, <4>2, <4>3, FloodEnds
    <3>3. PICK e \in Ends[l] \cap Switches : \A A : Closed(Links \ {l}, A) => (z \in A <=> e \in A)
      BY <2>4, NearEnd
    <3>4. PICK f \in Ends[l] \cap Switches : \A A : Closed(Links \ {l}, A) => (s \in A <=> f \in A)
      BY NearEnd
    <3>5. e \in S /\ f \notin S
      <4>1. z \in S \cap Switches /\ s \notin S \cap Switches
        BY <2>4, <2>9, <3>2
      <4>2. e \in S \cap Switches /\ f \notin S \cap Switches
        BY <2>8, <3>1, <3>3, <3>4, <4>1
      <4> QED
        BY <4>2
    <3>6. x \in S \cap Switches <=> y \in S \cap Switches
      BY <2>1, <2>8, <3>1
    <3> QED
      BY <2>1, <3>5, <3>6
  <2> QED
    BY <2>7, <2>9
<1> QED
  BY <1>1, <1>2

-----------------------------------------------------------------------------
\* The inductive invariant of the experiment, as long as no packet was lost.
Phases == {"start", "prepared", "run"}

RunInv ==
  /\ Identified(chan, filter)
  /\ phase \in Phases
  /\ phase # "run" => Calm
  /\ phase = "run" => \E l \in Links : Failed(l)

LosslessRunInv == losses = 0 => RunInv

\* What install_all_routes finds in the table of a switch: the rules that the last
\* controller thinks it has, or the ones it is about to install.
LEMMA RoutesToInstall ==
  ASSUME WholeNetwork, TypeInv, RunInv, \A k \in Chans : chan[k] = <<>>, NEW s \in Switches
  PROVE  At(flowDb[LastController], s) \subseteq table[s] \/ At(Whole, s) \subseteq table[s]
<1>1. CASE phase # "run"
  BY <1>1 DEF RunInv, Calm
<1>2. CASE phase = "run"
  <2>1. PICK l \in Links : Failed(l)
    BY <1>2 DEF RunInv
  <2>2. PICK c \in Controllers : c = LastController
    BY ExperimentAssumption
  <2>3. CASE Knows(l, c)
    BY <2>1, <2>2, <2>3 DEF Failed, Covered, Knows
  <2>4. CASE ~ Knows(l, c)
    <3>1. AccessLink(c) = l
      BY <2>1, <2>4, QuietKnows
    <3>2. c \in Ends[l] /\ c \notin Switches
      BY <3>1, AccessLinkType, TopologyAssumption DEF Endpoints
    <3>3. s \notin Patched(Whole, Without(l))
      BY <3>2, PatchedEnds
    <3> QED
      BY <2>1, <3>3 DEF Failed, Covered
  <2> QED
    BY <2>3, <2>4
<1> QED
  BY <1>1, <1>2

LEMMA PrepareKeepsTypeInv ==
  ASSUME TypeInv, Prepare
  PROVE  TypeInv'
<1>1. PICK new \in {NewTable(Links)} :
        /\ flowDb' = [c \in Controllers |-> new]
        /\ table' = [s \in Switches |-> Installed(s, new)]
  BY DEF Prepare
<1>2. /\ hist' = [l \in Links |-> Append(hist[l], "UP")]
      /\ known' = [c \in Controllers |-> [l \in Links |-> Version(l) + 1]]
      /\ existing' = [c \in Controllers |-> Links]
      /\ UNCHANGED <<chan, filter, losses>>
      /\ \A l \in Links : Version(l) < MaxVersion
  BY DEF Prepare
<1>3. new \in Tables /\ flowDb[LastController] \in Tables
  BY NewTableIsTable, ExperimentAssumption DEF Tables, IsTable, TypeInv
<1>4. \A s \in Switches : Installed(s, new) \in Tables
  <2>1. SUFFICES ASSUME NEW s \in Switches PROVE Installed(s, new) \in Tables
    OBVIOUS
  <2>2. Diff(flowDb[LastController], new) \in Tables
    BY <1>3 DEF Diff, Tables, IsTable
  <2>3. At(Diff(flowDb[LastController], new), s) \in Tables /\ table[s] \in Tables
    BY <2>2, AtTyped DEF TypeInv
  <2> QED
    BY <2>3, InstallTyped DEF Installed
<1>5. \A l \in Links : /\ Append(hist[l], "UP") \in Seq(States)
                       /\ Len(Append(hist[l], "UP")) = Version(l) + 1
  BY AppendProperties DEF TypeInv, States, Version
<1>6. \A l \in Links : Version(l) + 1 \in 1..MaxVersion
  <2>1. \A l \in Links : Version(l) \in 1..MaxVersion
    BY DEF TypeInv, Version
  <2> QED
    BY <1>2, <2>1, ControlPlaneAssumption
<1>7. hist' \in [Links -> Seq(States)] /\ \A l \in Links : Len(hist'[l]) \in 1..MaxVersion
  BY <1>2, <1>5, <1>6
<1>8. /\ table' \in [Switches -> Tables] /\ flowDb' \in [Controllers -> Tables]
      /\ known' \in [Controllers -> [Links -> 1..MaxVersion]]
      /\ existing' \in [Controllers -> SUBSET Links]
  BY <1>1, <1>2, <1>3, <1>4, <1>6
<1> QED
  BY <1>2, <1>7, <1>8 DEF TypeInv

LEMMA PrepareMakesCalm ==
  ASSUME WholeNetwork, TypeInv, RunInv, Prepare
  PROVE  Calm'
<1>1. /\ flowDb' = [c \in Controllers |-> Whole]
      /\ table' = [s \in Switches |-> Installed(s, Whole)]
      /\ hist' = [l \in Links |-> Append(hist[l], "UP")]
      /\ known' = [c \in Controllers |-> [l \in Links |-> Version(l) + 1]]
      /\ existing' = [c \in Controllers |-> Links]
      /\ \A k \in Chans : chan[k] = <<>>
      /\ chan' = chan
  BY DEF Prepare, Whole
<1>2. ASSUME NEW l \in Links PROVE Last(hist'[l]) = "UP" /\ Len(hist'[l]) = Version(l) + 1
  <2>1. hist[l] \in Seq(States) /\ "UP" \in States
    BY DEF TypeInv, States
  <2>2. Last(Append(hist[l], "UP")) = "UP" /\ Len(Append(hist[l], "UP")) = Len(hist[l]) + 1
    BY <2>1, AppendProperties DEF Last
  <2> QED
    BY <1>1, <2>2 DEF Version
<1>3. Up(hist') = Links
  BY <1>2 DEF Up
<1>4. \A c \in Controllers :
        known'[c] = [l \in Links |-> Len(hist'[l])] /\ existing'[c] = Links /\ flowDb'[c] = Whole
  BY <1>1, <1>2
<1>5. ASSUME NEW s \in Switches PROVE At(Whole, s) \subseteq table'[s]
  <2>1. flowDb[LastController] \in Tables /\ Whole \in Tables
    BY NewTableIsTable, ExperimentAssumption DEF TypeInv, Tables, IsTable, Whole
  <2>2. At(flowDb[LastController], s) \subseteq table[s] \/ At(Whole, s) \subseteq table[s]
    BY <1>1, RoutesToInstall
  <2>3. At(Whole, s) \subseteq Install(table[s], At(Diff(flowDb[LastController], Whole), s), {})
    BY <2>1, <2>2, InstallBack
  <2> QED
    BY <1>1, <2>3 DEF Installed
<1> QED
  BY <1>1, <1>3, <1>4, <1>5 DEF Calm, Version

LEMMA InitRunInv == ExperimentInit => TypeInv /\ RunInv
<1>1. SUFFICES ASSUME ExperimentInit PROVE TypeInv /\ RunInv
  OBVIOUS
<1>2. Init /\ phase = "start"
  BY <1>1 DEF ExperimentInit, SimulationInit
<1>3. TypeInv
  BY <1>2, InitTypeInv
<1>4. \A k \in Chans : chan[k] = <<>> /\ On(chan, k) = {}
  BY <1>2, ToSetEmpty DEF Init, On
<1>5. Identified(chan, filter)
  BY <1>2, <1>4 DEF Identified, Init
<1>6. \A l \in Links : Last(hist[l]) = "UP" /\ Version(l) = 1
  BY <1>2 DEF Init, Last, Version
<1>7. Calm
  BY <1>2, <1>4, <1>6 DEF Init, Calm, Up, Whole
<1> QED
  BY <1>2, <1>3, <1>5, <1>7 DEF RunInv, Phases

\* What every step of the experiment keeps: the types, ...
LEMMA ExperimentKeepsTypeInv ==
  TypeInv /\ phase \in Phases /\ [ExperimentNext]_experimentVars => TypeInv' /\ phase' \in Phases
<1>1. SUFFICES ASSUME TypeInv, phase \in Phases, [ExperimentNext]_experimentVars
               PROVE  TypeInv' /\ phase' \in Phases
  OBVIOUS
<1>2. CASE Prepare
  BY <1>1, <1>2, PrepareKeepsTypeInv DEF Prepare, Phases
<1>3. ASSUME NEW l \in Links, Fail(l) PROVE TypeInv' /\ phase' \in Phases
  BY <1>1, <1>3, SetLinkKeepsTypeInv DEF Fail, SetLinkDown, States, Phases
<1>4. ASSUME NEW k \in Chans, Run(k) PROVE TypeInv' /\ phase' \in Phases
  BY <1>1, <1>4, DeliverKeepsTypeInv, LoseKeepsTypeInv DEF Run, Phases
<1>5. CASE UNCHANGED experimentVars
  BY <1>1, <1>5 DEF experimentVars, simulationVars, vars, TypeInv
<1> QED
  BY <1>1, <1>2, <1>3, <1>4, <1>5 DEF ExperimentNext

\* ... and, in a whole network, the rest, unless it loses a packet.
LEMMA ExperimentKeepsRunInv ==
  ASSUME WholeNetwork, TypeInv, RunInv, [ExperimentNext]_experimentVars,
         ~ \E k \in Chans : Lose(k)
  PROVE  RunInv'
<1>1. TypeInv /\ RunInv /\ [ExperimentNext]_experimentVars /\ ~ \E k \in Chans : Lose(k)
  OBVIOUS
<1>2. TypeInv'
  BY <1>1, ExperimentKeepsTypeInv DEF RunInv
<1>3. CASE Prepare
  <2>1. Calm'
    BY <1>1, <1>3, PrepareMakesCalm
  <2>2. Identified(chan', filter') /\ phase' = "prepared"
    BY <1>1, <1>3 DEF Prepare, RunInv
  <2> QED
    BY <2>1, <2>2 DEF RunInv, Phases
<1>4. ASSUME NEW l \in Links, Fail(l) PROVE RunInv'
  <2>1. Identified(chan, filter) /\ Calm /\ phase' = "run" /\ SetLink(l, "DOWN")
    BY <1>1, <1>4 DEF Fail, SetLinkDown, RunInv
  <2>2. Identified(chan', filter') /\ Failed(l)'
    BY <1>1, <2>1, FailKeeps
  <2> QED
    BY <2>1, <2>2 DEF RunInv, Phases
<1>5. ASSUME NEW k \in Chans, Run(k) PROVE RunInv'
  <2>1. Identified(chan, filter) /\ phase = "run" /\ phase' = "run" /\ Deliver(k)
    BY <1>1, <1>5 DEF Run, RunInv
  <2>2. PICK l \in Links : Failed(l)
    BY <1>1, <2>1 DEF RunInv
  <2>3. Identified(chan', filter') /\ Failed(l)'
    BY <1>1, <1>2, <2>1, <2>2, RunKeeps
  <2> QED
    BY <2>1, <2>3 DEF RunInv, Phases
<1>6. CASE UNCHANGED experimentVars
  <2>1. UNCHANGED vars /\ phase' = phase
    BY <1>6 DEF experimentVars, simulationVars
  <2>2. UNCHANGED <<hist, chan, filter, table, known, existing, flowDb>>
    BY <2>1 DEF vars
  <2>3. Up(hist') = Up(hist) /\ \A l \in Links : Version(l)' = Version(l)
    BY <2>2 DEF Version
  <2>4. Calm => Calm'
    BY <2>2, <2>3 DEF Calm
  <2>5. ASSUME NEW l \in Links, Failed(l) PROVE Failed(l)'
    <3>1. \A c \in Controllers : (Knows(l, c) <=> Knows(l, c)') /\ (Unaware(l, c) => Unaware(l, c)')
      BY <2>2, <2>3, <2>5 DEF Knows, Unaware
    <3>2. Up(hist') = Links \ {l} /\ \A c \in Controllers : Knows(l, c)' \/ Unaware(l, c)'
      BY <2>3, <2>5, <3>1 DEF Failed
    <3>3. Carried(l)' /\ Covered(l)'
      BY <2>2, <2>3, <2>5 DEF Failed, Carried, Covered
    <3>4. NotesSpread(l)'
      BY <2>2, <2>3, <2>5, <3>1 DEF Failed, NotesSpread
    <3>5. UpdatesSpread(l)'
      BY <2>2, <2>3, <2>5, <3>1 DEF Failed, UpdatesSpread
    <3> QED
      BY <3>2, <3>3, <3>4, <3>5 DEF Failed
  <2> QED
    BY <1>1, <2>1, <2>2, <2>4, <2>5 DEF RunInv
<1> QED
  BY <1>1, <1>3, <1>4, <1>5, <1>6 DEF ExperimentNext

\* A lost packet is never forgotten.
LEMMA LossesOnlyGrow ==
  ASSUME losses \in Nat, [ExperimentNext]_experimentVars, losses' = 0
  PROVE  losses = 0 /\ ~ \E k \in Chans : Lose(k)
<1>1. \A k \in Chans : ~ Lose(k)
  <2>1. \A k \in Chans : Lose(k) => losses' = losses + 1
    BY Zenon DEF Lose
  <2>2. losses + 1 # 0
    OBVIOUS
  <2> QED
    BY <2>1, <2>2
<1>2. CASE Prepare
  BY <1>1, <1>2 DEF Prepare
<1>3. ASSUME NEW l \in Links, Fail(l) PROVE losses = 0
  BY <1>3 DEF Fail, SetLinkDown, SetLink
<1>4. ASSUME NEW k \in Chans, Run(k) PROVE losses = 0
  <2>1. Deliver(k)
    BY <1>1, <1>4 DEF Run
  <2> QED
    BY <2>1 DEF Deliver
<1>5. CASE UNCHANGED experimentVars
  BY <1>1, <1>5 DEF experimentVars, simulationVars, vars
<1> QED
  BY <1>1, <1>2, <1>3, <1>4, <1>5 DEF ExperimentNext

LEMMA ExperimentKeepsLosslessRunInv ==
  ASSUME WholeNetwork
  PROVE  TypeInv /\ LosslessRunInv /\ [ExperimentNext]_experimentVars => LosslessRunInv'
<1>1. SUFFICES ASSUME TypeInv, LosslessRunInv, [ExperimentNext]_experimentVars, losses' = 0
               PROVE  RunInv'
  BY DEF LosslessRunInv
<1>2. losses \in Nat
  BY <1>1, ControlPlaneAssumption DEF TypeInv
<1>3. losses = 0 /\ ~ \E k \in Chans : Lose(k)
  BY <1>1, <1>2, LossesOnlyGrow
<1> QED
  BY <1>1, <1>3, ExperimentKeepsRunInv DEF LosslessRunInv

\* In every network, the state of a repetition is of the right types (main.cc:144-160).
THEOREM ExperimentTyped == ExperimentSpec => []ExperimentTypeOK
<1>1. ExperimentInit => TypeInv /\ phase \in Phases
  BY InitRunInv DEF RunInv
<1>2. TypeInv /\ phase \in Phases => ExperimentTypeOK
  BY TypesFollow DEF ExperimentTypeOK, Phases
<1>3. (TypeInv /\ phase \in Phases) /\ [ExperimentNext]_experimentVars => (TypeInv /\ phase \in Phases)'
  BY ExperimentKeepsTypeInv
<1> QED
  BY <1>1, <1>2, <1>3, PTL DEF ExperimentSpec

\* Setting all links up without an event tells the controllers what they would have
\* been told, so what they believe stays true.
LEMMA PrepareKeepsIInv ==
  ASSUME IInv, Prepare
  PROVE  IInv'
<1>1. /\ hist' = [l \in Links |-> Append(hist[l], "UP")]
      /\ known' = [c \in Controllers |-> [l \in Links |-> Version(l) + 1]]
      /\ existing' = [c \in Controllers |-> Links]
      /\ flowDb' = [c \in Controllers |-> NewTable(Links)]
      /\ table' = [s \in Switches |-> Installed(s, NewTable(Links))]
      /\ chan' = chan /\ \A k \in Chans : chan[k] = <<>>
      /\ \A l \in Links : Version(l) < MaxVersion
  BY DEF Prepare
<1>2. ASSUME NEW l \in Links
      PROVE  /\ Append(hist[l], "UP") \in Seq(States)
             /\ Len(Append(hist[l], "UP")) = Version(l) + 1
             /\ Append(hist[l], "UP")[Version(l) + 1] = "UP"
             /\ Version(l) + 1 \in 1..MaxVersion
  <2>1. hist[l] \in Seq(States) /\ "UP" \in States /\ Len(hist[l]) \in 1..MaxVersion
    BY DEF IInv, States
  <2>2. Len(hist[l]) + 1 \in 1..MaxVersion
    BY <1>1, <2>1, ControlPlaneAssumption DEF Version
  <2> QED
    BY <2>1, <2>2, AppendProperties DEF Version
<1>3. hist' \in [Links -> Seq(States)] /\ \A l \in Links : Len(hist'[l]) \in 1..MaxVersion
  BY <1>1, <1>2
<1>4. chan' \in [Chans -> Seq(TruePackets(hist'))]
  <2>1. chan' = [k \in Chans |-> <<>>]
    BY <1>1 DEF IInv
  <2>2. <<>> \in Seq(TruePackets(hist'))
    BY EmptySeq
  <2> QED
    BY <2>1, <2>2
<1>5. NewTable(Links) \in SUBSET AllRules
  BY DEF AllRules
<1>6. table' \in [Switches -> SUBSET AllRules]
  <2>1. \A s \in Switches : Installed(s, NewTable(Links)) \subseteq table[s] \cup NewTable(Links)
    BY DEF Installed, Install, At, Diff
  <2> QED
    BY <1>1, <1>5, <2>1 DEF IInv
<1>7. known' \in [Controllers -> [Links -> Nat \ {0}]]
  <2>1. \A l \in Links : Version(l) + 1 \in Nat \ {0}
    BY <1>2, ControlPlaneAssumption
  <2> QED
    BY <1>1, <2>1
<1>8. ViewTruth'
  <2>1. \A c \in Controllers, l \in Links :
          /\ known'[c][l] = Version(l) + 1 /\ Len(hist'[l]) = Version(l) + 1
          /\ hist'[l][Version(l) + 1] = "UP" /\ l \in existing'[c]
    BY <1>1, <1>2
  <2>2. \A l \in Links : Version(l) + 1 \in Nat
    BY <1>2
  <2> QED
    BY <2>1, <2>2 DEF ViewTruth, Version
<1> QED
  BY <1>1, <1>3, <1>4, <1>5, <1>6, <1>7, <1>8 DEF IInv

\* In every network, connected or not, what travels and what the controllers believe is
\* true through all repetitions, although links are set up behind the switches' back
\* and events are dropped between them (main.cc:144-160).
THEOREM ExperimentViewsTrue == ExperimentSpec => [](NewsIsTrue /\ ViewTruth)
<1>1. ExperimentInit => IInv
  BY InitIInv DEF ExperimentInit, SimulationInit
<1>2. IInv /\ [ExperimentNext]_experimentVars => IInv'
  <2>1. SUFFICES ASSUME IInv, [ExperimentNext]_experimentVars PROVE IInv'
    OBVIOUS
  <2>2. ASSUME NEW l \in Links, Fail(l) PROVE IInv'
    BY <2>1, <2>2, SetLinkKeepsIInv DEF Fail, SetLinkDown, States
  <2>3. ASSUME NEW k \in Chans, Run(k) PROVE IInv'
    BY <2>1, <2>3, DeliverStep, LoseKeepsIInv DEF Run
  <2>4. CASE UNCHANGED experimentVars
    BY <2>1, <2>4, NextKeepsIInv DEF experimentVars, simulationVars
  <2> QED
    BY <2>1, <2>2, <2>3, <2>4, PrepareKeepsIInv DEF ExperimentNext
<1>3. IInv => NewsIsTrue /\ ViewTruth
  BY PacketsAreTrue DEF IInv
<1> QED
  BY <1>1, <1>2, <1>3, PTL DEF ExperimentSpec

\* In every network that is connected while no link has failed, the invariant
\* holds in every repetition, until a packet is lost: refused by a full queue
\* (link.cc:51, 69) or dropped by a link or a controller (link.cc:42,
\* controller.cc:47).
THEOREM ExperimentInvariantHolds ==
  ASSUME WholeNetwork
  PROVE  ExperimentSpec => [](TypeInv /\ LosslessRunInv)
<1> DEFINE Inv == TypeInv /\ phase \in Phases /\ LosslessRunInv
<1>1. ExperimentInit => Inv
  BY InitRunInv DEF RunInv, LosslessRunInv
<1>2. Inv /\ [ExperimentNext]_experimentVars => Inv'
  BY ExperimentKeepsTypeInv, ExperimentKeepsLosslessRunInv
<1> QED
  BY <1>1, <1>2, PTL DEF ExperimentSpec

\* As long as no packet was lost, every repetition starts with working routes, whatever
\* the repetition before has left in the switches and in the last controller's flow
\* database (simulation.cc:272-285).
THEOREM RepetitionsStartFresh ==
  ASSUME WholeNetwork
  PROVE  ExperimentSpec => []FreshStart
<1>1. TypeInv /\ LosslessRunInv => FreshStart
  <2>1. SUFFICES ASSUME TypeInv, RunInv, phase = "prepared" PROVE
                   /\ \A s \in Switches : IsTable(table[s]) /\ At(NewTable(Links), s) \subseteq table[s]
                   /\ RoutesWork
    BY DEF FreshStart, LosslessRunInv
  <2>2. \A s \in Switches : At(NewTable(Links), s) \subseteq table[s]
    BY <2>1 DEF RunInv, Calm, Whole
  <2>3. \A s \in Switches : IsTable(table[s])
    BY <2>1 DEF TypeInv, Tables
  <2>4. Up(hist) = Links
    BY <2>1 DEF RunInv, Calm
  <2>5. RoutesWork
    BY <2>2, <2>4, RoutesFollow
  <2> QED
    BY <2>2, <2>3, <2>5
<1> QED
  BY <1>1, ExperimentInvariantHolds, PTL

\* When a repetition has ended and no packet was lost so far, the tables route around
\* the failed link: whichever link it was, whichever controllers could hear of it, and
\* in whatever order the copies of their updates were installed (main.cc:155-158,
\* switch.cc:20-56).
THEOREM RepetitionsConverge ==
  ASSUME WholeNetwork
  PROVE  ExperimentSpec => []RepetitionConverges
<1>1. TypeInv /\ LosslessRunInv => RepetitionConverges
  <2>1. SUFFICES ASSUME RunInv, phase = "run", \A k \in Chans : chan[k] = <<>> PROVE RoutesWork
    BY DEF RepetitionConverges, QuietRoutesWork, Quiet, LosslessRunInv
  <2>2. PICK l \in Links : Failed(l)
    BY <2>1 DEF RunInv
  <2>3. \A s \in Switches : At(Without(l), s) \subseteq table[s]
    BY <2>1, <2>2, QuietTables
  <2>4. Without(l) = NewTable(Up(hist))
    BY <2>2 DEF Failed, Without
  <2> QED
    BY <2>3, <2>4, RoutesFollow
<1> QED
  BY <1>1, ExperimentInvariantHolds, PTL

-----------------------------------------------------------------------------
(* The measurements of the experiment.                                     *)

\* set_all_links_up_silent makes the graph the whole network again.
LEMMA PrepareKeepsGraphInv ==
  ASSUME GraphInv, Prepare
  PROVE  GraphInv'
<1>1. AddAllGraphLinks /\ hist' = [l \in Links |-> Append(hist[l], "UP")]
  BY DEF Prepare
<1>2. /\ hist \in [Links -> Seq(States)] /\ edges \in [Pairs -> Nat] /\ live \in SUBSET Links
      /\ nsmap = HostsOf(live)
      /\ \A l \in Links : SwitchLink(l) => edges[Ends[l]] = IF l \in live THEN 1 ELSE 0
  BY DEF GraphInv, GraphIsNetwork, HostsOf
<1>3. ASSUME NEW l \in Links
      PROVE  Append(hist[l], "UP") \in Seq(States) /\ Last(Append(hist[l], "UP")) = "UP"
  BY <1>2, AppendProperties DEF Last, States
<1>4. hist' \in [Links -> Seq(States)] /\ Up(hist') = Links
  BY <1>1, <1>3 DEF Up
<1>5. live' = Links
  BY <1>1, <1>2 DEF AddAllGraphLinks
<1>6. ASSUME NEW e \in Pairs
      PROVE  edges'[e] = 1
  <2>1. PICK l : l = CHOOSE m \in Links : Ends[m] = e
    OBVIOUS
  <2>2. l \in Links /\ Ends[l] = e /\ SwitchLink(l)
    BY <2>1 DEF Pairs, SwitchLink
  <2>3. AddEdge(edges, l)[e] = 1
    BY <2>2, EdgesAfter
  <2>4. edges' = [f \in Pairs |-> AddEdge(edges, CHOOSE m \in Links : Ends[m] = f)[f]]
    BY <1>1, <1>2 DEF AddAllGraphLinks
  <2> QED
    BY <2>1, <2>3, <2>4
<1>7. edges' \in [Pairs -> Nat]
  <2>1. edges' = [f \in Pairs |-> AddEdge(edges, CHOOSE m \in Links : Ends[m] = f)[f]]
    BY <1>1, <1>2 DEF AddAllGraphLinks
  <2> QED
    BY <1>6, <2>1
<1>8. \A l \in Links : SwitchLink(l) => edges'[Ends[l]] = 1
  BY <1>6 DEF Pairs
<1>9. nsmap' = HostsOf(Links)
  <2> DEFINE Hs == {l \in Links : ~ SwitchLink(l)}
  <2>1. nsmap' = UNION {AddHost(nsmap, l) : l \in Hs}
    BY <1>1 DEF AddAllGraphLinks
  <2>2. \A l \in Hs : AddHost(nsmap, l) = HostsOf(live \cup {l})
    BY <1>2, HostsAfter
  <2>3. \A h \in Endpoints : AccessLink(h) \in Links /\ ~ SwitchLink(AccessLink(h))
    BY AccessLinkType, NoAccess
  <2>4. HostsOf(Links) \subseteq nsmap'
    <3>1. SUFFICES ASSUME NEW h \in Endpoints PROVE <<h, SwitchOf(h)>> \in nsmap'
      BY DEF HostsOf
    <3>2. AccessLink(h) \in Hs
      BY <2>3
    <3>3. <<h, SwitchOf(h)>> \in HostsOf(live \cup {AccessLink(h)})
      BY DEF HostsOf
    <3> QED
      BY <2>1, <2>2, <3>2, <3>3
  <2>5. \A l \in Hs : HostsOf(live \cup {l}) \subseteq HostsOf(Links)
    BY <1>2 DEF HostsOf
  <2> QED
    BY <2>1, <2>2, <2>4, <2>5
<1> QED
  BY <1>4, <1>5, <1>7, <1>8, <1>9 DEF GraphInv, GraphIsNetwork, HostsOf

LEMMA ExperimentKeepsGraphInv == GraphInv /\ [ExperimentNext]_experimentVars => GraphInv'
<1>1. SUFFICES ASSUME GraphInv, [ExperimentNext]_experimentVars PROVE GraphInv'
  OBVIOUS
<1>2. ASSUME NEW k \in Chans, Run(k) PROVE GraphInv'
  <2>1. UNCHANGED <<hist, graph>>
    BY <1>2 DEF Run, Deliver, Lose
  <2> QED
    BY <1>1, <2>1 DEF graph, GraphInv, GraphIsNetwork
<1>3. ASSUME NEW l \in Links, Fail(l) PROVE GraphInv'
  BY <1>1, <1>3, SetLinkDownKeepsGraphInv DEF Fail
<1>4. CASE UNCHANGED experimentVars
  BY <1>1, <1>4 DEF experimentVars, simulationVars, vars, graph, GraphInv, GraphIsNetwork
<1> QED
  BY <1>1, <1>2, <1>3, <1>4, PrepareKeepsGraphInv DEF ExperimentNext

THEOREM ExperimentGraphInvariantHolds == ExperimentSpec => []GraphInv
<1>1. ExperimentInit => GraphInv
  BY InitGraphInv DEF ExperimentInit
<1> QED
  BY <1>1, ExperimentKeepsGraphInv, PTL DEF ExperimentSpec

\* In every topology the graph stays the network through all repetitions: failures
\* take an edge or a host away, and setting all links up without an event brings
\* back what is missing and nothing else (simulation.cc:143-191, 223-230).
THEOREM ExperimentKeepsGraph == ExperimentSpec => []GraphIsNetwork
<1>1. GraphInv => GraphIsNetwork
  BY DEF GraphInv
<1> QED
  BY <1>1, ExperimentGraphInvariantHolds, PTL

\* The distances that the simulator computes are those of the network.
LEMMA DistanceOfNetwork ==
  ASSUME GraphIsNetwork, NEW s, NEW t
  PROVE  Distance(s, t) = {Len(p) - 1 : p \in Shortest(Up(hist), s, t)}
<1> DEFINE up == Up(hist)
           used == {l \in Links : SwitchLink(l) /\ edges[Ends[l]] > 0}
<1>1. \A l \in Links : l \in used <=> SwitchLink(l) /\ l \in up
  BY DEF GraphIsNetwork
<1>2. up \in SUBSET Links
  BY DEF Up
<1> HIDE DEF up, used
<1>3. ASSUME NEW n \in Nat PROVE Walks(used, s, t, n) = Walks(up, s, t, n)
  <2>1. ASSUME NEW p \in [1..n -> Switches], NEW k \in 1..n - 1
        PROVE  Linked(used, p, k) <=> Linked(up, p, k)
    <3>1. p[k] \in Switches /\ p[k + 1] \in Switches
      <4>1. k \in 1..n /\ k + 1 \in 1..n
        OBVIOUS
      <4> QED
        BY <4>1
    <3>2. \A l \in Links : Ends[l] = {p[k], p[k + 1]} => SwitchLink(l)
      BY <3>1 DEF SwitchLink
    <3>3. used \subseteq Links
      BY DEF used
    <3> QED
      BY <1>1, <1>2, <3>2, <3>3 DEF Linked
  <2>2. Walks(used, s, t, n) =
          {p \in [1..n -> Switches] : p[1] = s /\ p[n] = t /\ \A k \in 1..n - 1 : Linked(used, p, k)}
    BY Zenon DEF Walks, Linked
  <2>3. Walks(up, s, t, n) =
          {p \in [1..n -> Switches] : p[1] = s /\ p[n] = t /\ \A k \in 1..n - 1 : Linked(up, p, k)}
    BY Zenon DEF Walks, Linked
  <2> QED
    BY <2>1, <2>2, <2>3
<1>4. Shortest(used, s, t) = Shortest(up, s, t)
  <2>1. \A n \in 1..Cardinality(Switches) :
          n \in Nat /\ \A j \in 1..n - 1 : j \in Nat
    BY SwitchesFinite
  <2>2. \A n \in 1..Cardinality(Switches) :
          (\A j \in 1..n - 1 : Walks(used, s, t, j) = {}) <=> (\A j \in 1..n - 1 : Walks(up, s, t, j) = {})
    BY <1>3, <2>1
  <2>3. {m \in 1..Cardinality(Switches) : \A j \in 1..m - 1 : Walks(used, s, t, j) = {}}
        = {m \in 1..Cardinality(Switches) : \A j \in 1..m - 1 : Walks(up, s, t, j) = {}}
    BY <2>2
  <2> QED
    BY <1>3, <2>1, <2>3 DEF Shortest
<1> QED
  BY <1>4 DEF Distance, up, used

\* Two end hosts that are connected are in _nsmap, at switches that _graph connects.
LEMMA CountedReach ==
  ASSUME GraphIsNetwork, NEW sig \in Sigs
  PROVE  (\E e, f \in nsmap : e[1] = sig[1] /\ f[1] = sig[2] /\ Distance(e[2], f[2]) # {})
         <=> Reaches(sig[1], sig[2])
<1>1. sig[1] \in Endpoints /\ sig[2] \in Endpoints /\ sig[1] \notin Switches /\ sig[2] \notin Switches
  BY TopologyAssumption DEF Sigs
<1>2. Reaches(sig[1], sig[2]) <=>
        /\ AccessLink(sig[1]) \in Up(hist) /\ AccessLink(sig[2]) \in Up(hist)
        /\ Connected(Up(hist), SwitchOf(sig[1]), SwitchOf(sig[2]))
  BY <1>1 DEF Reaches, AccessUp, Access
<1>3. \A g : g \in nsmap <=> \E h \in Endpoints : AccessLink(h) \in Up(hist) /\ g = <<h, SwitchOf(h)>>
  BY DEF GraphIsNetwork
<1>4. Connected(Up(hist), SwitchOf(sig[1]), SwitchOf(sig[2]))
      <=> Distance(SwitchOf(sig[1]), SwitchOf(sig[2])) # {}
  <2> DEFINE ways == Shortest(Up(hist), SwitchOf(sig[1]), SwitchOf(sig[2]))
  <2>1. Distance(SwitchOf(sig[1]), SwitchOf(sig[2])) = {Len(p) - 1 : p \in ways}
    BY DistanceOfNetwork
  <2>2. Connected(Up(hist), SwitchOf(sig[1]), SwitchOf(sig[2])) <=> ways # {}
    BY DEF Connected
  <2> HIDE DEF ways
  <2> QED
    BY <2>1, <2>2
<1>5. ASSUME NEW e \in nsmap, NEW f \in nsmap, e[1] = sig[1], f[1] = sig[2], Distance(e[2], f[2]) # {}
      PROVE  Reaches(sig[1], sig[2])
  <2>1. \A g \in nsmap : g[2] = SwitchOf(g[1]) /\ AccessLink(g[1]) \in Up(hist)
    BY <1>3
  <2> QED
    BY <1>2, <1>4, <1>5, <2>1
<1>6. ASSUME Reaches(sig[1], sig[2])
      PROVE  \E e, f \in nsmap : e[1] = sig[1] /\ f[1] = sig[2] /\ Distance(e[2], f[2]) # {}
  <2> DEFINE x == <<sig[1], SwitchOf(sig[1])>>
             y == <<sig[2], SwitchOf(sig[2])>>
  <2>1. x \in nsmap /\ y \in nsmap
    BY <1>1, <1>2, <1>3, <1>6
  <2>2. x[1] = sig[1] /\ y[1] = sig[2] /\ Distance(x[2], y[2]) # {}
    BY <1>2, <1>4, <1>6
  <2> QED
    BY <2>1, <2>2
<1> QED
  BY <1>5, <1>6

LEMMA CheckedReach ==
  ASSUME GraphIsNetwork, NEW sig \in Sigs
  PROVE  sig \in Checked <=> {sig[1], sig[2]} \subseteq Hosts /\ Reaches(sig[1], sig[2])
<1>1. sig \in Checked <=>
        /\ {sig[1], sig[2]} \subseteq Hosts
        /\ \E e, f \in nsmap : e[1] = sig[1] /\ f[1] = sig[2] /\ Distance(e[2], f[2]) # {}
  BY DEF Checked
<1> QED
  BY <1>1, CountedReach

\* The switches have the rules of all routes over the links that are up.
RoutesInstalled == \A s \in Switches : At(NewTable(Up(hist)), s) \subseteq table[s]

\* Where the tables are right, so is what check_routes measures.
LEMMA ChecksPass ==
  ASSUME GraphIsNetwork, RoutesInstalled, \A s \in Switches : IsTable(table[s]), NEW sig \in Checked
  PROVE  sig \in Passed /\ \A p \in TableRoutes(sig) : Len(p) - 1 \in Distance(p[1], p[Len(p)])
<1>1. sig \in Sigs /\ sig[1] \in Endpoints
  BY DEF Checked, Sigs
<1>2. Reaches(sig[1], sig[2])
  BY <1>1, CheckedReach
<1>3. sig[1] \notin Switches
  BY <1>1, TopologyAssumption
<1>4. sig \in Passed
  <2>1. AccessLink(sig[1]) \in Up(hist)
    BY <1>2, <1>3 DEF Reaches, AccessUp
  <2>2. RoutesWork
    BY RoutesFollow DEF RoutesInstalled
  <2> QED
    BY <1>1, <1>2, <2>1, <2>2 DEF Passed, RoutesWork
<1>5. ASSUME NEW p \in TableRoutes(sig) PROVE Len(p) - 1 \in Distance(p[1], p[Len(p)])
  BY <1>1, <1>2, RoutesAreShortest, DistanceOfNetwork DEF RoutesInstalled
<1> QED
  BY <1>4, <1>5

\* In every topology and every trace of overlapping failures and recoveries, the pairs
\* that an experiment counts are those that the network connects.
THEOREM CountsAreConnected == SimulationSpec => []CountsConnected
<1>1. GraphInv => CountsConnected
  BY CheckedReach DEF GraphInv, CountsConnected
<1> QED
  BY <1>1, GraphInvariantHolds, PTL

\* And in each of them a state with the right tables is measured as one, whatever older
\* rules the tables have besides, whatever travels and whatever was lost.
THEOREM MeasuresAreRight == SimulationSpec => [](RoutesInstalled => RoutesWork /\ CheckPasses)
<1>1. TypeInv /\ GraphInv => (RoutesInstalled => RoutesWork /\ CheckPasses)
  BY RoutesFollow, ChecksPass DEF RoutesInstalled, TypeInv, Tables, GraphInv, CheckPasses
<1>2. Init => TypeInv
  BY InitTypeInv
<1> QED
  BY <1>1, <1>2, NextKeepsTypeInv, GraphInvariantHolds, SimulationIsControlPlane, PTL DEF Spec

\* The same in the experiment.
THEOREM ExperimentCountsAreConnected == ExperimentSpec => []CountsConnected
<1>1. GraphInv => CountsConnected
  BY CheckedReach DEF GraphInv, CountsConnected
<1> QED
  BY <1>1, ExperimentGraphInvariantHolds, PTL

\* When the network is quiet, before the failure and after it, the switches have
\* the rules of all routes.
LEMMA QuietRules ==
  ASSUME WholeNetwork, TypeInv, RunInv, Quiet
  PROVE  RoutesInstalled
<1>1. SUFFICES ASSUME NEW s \in Switches PROVE At(NewTable(Up(hist)), s) \subseteq table[s]
  BY DEF RoutesInstalled
<1>2. CASE phase # "run"
  BY <1>2 DEF RunInv, Calm, Whole
<1>3. CASE phase = "run"
  <2>1. PICK l \in Links : Failed(l)
    BY <1>3 DEF RunInv
  <2>2. At(Without(l), s) \subseteq table[s]
    BY <2>1, QuietTables DEF Quiet
  <2>3. Without(l) = NewTable(Up(hist))
    BY <2>1 DEF Failed, Without
  <2> QED
    BY <2>2, <2>3
<1> QED
  BY <1>2, <1>3

\* Whenever a repetition is quiet and no packet was lost so far, every packet between
\* connected hosts arrives (main.cc:144-160).
THEOREM QuietRepetitionsWork ==
  ASSUME WholeNetwork
  PROVE  ExperimentSpec => []QuietRoutesWork
<1>1. TypeInv /\ LosslessRunInv => QuietRoutesWork
  BY QuietRules, RoutesFollow DEF QuietRoutesWork, RoutesInstalled, LosslessRunInv
<1> QED
  BY <1>1, ExperimentInvariantHolds, PTL

\* And what it then reports is right: check_routes passes every pair of hosts that it
\* checks, and finds no way longer than the shortest of its graph
\* (main.cc:151-158, simulation.cc:308-374).
THEOREM QuietRepetitionsPass ==
  ASSUME WholeNetwork
  PROVE  ExperimentSpec => []QuietCheckPasses
<1>1. (TypeInv /\ LosslessRunInv) /\ GraphInv => QuietCheckPasses
  BY QuietRules, ChecksPass DEF QuietCheckPasses, CheckPasses, LosslessRunInv, GraphInv, TypeInv, Tables
<1> QED
  BY <1>1, ExperimentInvariantHolds, ExperimentGraphInvariantHolds, PTL
=============================================================================
