-------------------------- MODULE CoordinatorProps --------------------------
(***************************************************************************)
(* What is expected of the coordinator and its controllers.                *)
(***************************************************************************)
EXTENDS Coordinator

IsPacket(p) ==
  /\ p.id \in Ids /\ p.src \in Nodes /\ p.dst \in Controllers \cup {ALL} /\ p.asks \in BOOLEAN
  /\ DOMAIN p.news \subseteq Links
  /\ \A l \in DOMAIN p.news : p.news[l] \in [state : {"UP", "DOWN"}, version : 1..MaxVersion]

\* Type invariant; in particular no identifier is used twice.
TypeOK ==
  /\ hist \in [Links -> Seq({"UP", "DOWN"})] /\ \A l \in Links : Len(hist[l]) \in 1..MaxVersion
  /\ \A p \in sent : IsPacket(p) /\ p.id < pid
  /\ \A p, q \in sent : p.id = q.id => p = q
  /\ lastSeen \in [Controllers \cup {ALL} -> Ids]
  /\ ahead \in Nat /\ agenda \subseteq [pkt : sent, due : Nat]
  /\ outbox \subseteq Controllers \X sent
  /\ filter \in [Controllers -> SUBSET Ids]
  /\ known \in [Controllers -> [Links -> 1..MaxVersion]]
  /\ existing \in [Controllers -> SUBSET Links]
  /\ missed \in [Controllers -> SUBSET Ids] /\ \A c \in Controllers : missed[c] \subseteq filter[c]
  /\ log \in Seq(SUBSET Ids) /\ fresh \in BOOLEAN

\* The coordinator delays no packet by more than 2 * _rtt, however many packets
\* came shortly before it (coord_controller.cc:21-25).
DelayBounded == \A e \in agenda : e.due <= 2 * Rtt

\* The coordinator implements a broadcast in the same order to all controllers,
\* whatever the network does with the copies of a packet.
Ordered == INSTANCE Broadcast WITH Receivers <- Controllers, Messages <- Ids, out <- filter

ImplementsBroadcast == Ordered!Spec

\* Controller c is ahead of d on a link because a switch told c alone, in an answer,
\* or because d dropped the very news that c has (controller.cc:47).
Excused(c, d, l) ==
  \E p \in sent : /\ p.id \in filter[c] \ missed[c] /\ l \in DOMAIN p.news
                  /\ p.news[l].version = known[c][l]
                  /\ p.dst = c \/ (p.dst = ALL /\ p.id \in missed[d])

\* Once nothing is scheduled no controller is ahead of another on a link without
\* such a reason, and two that know the same version of it agree on its state: the
\* order in which they were handed the packets of one instant makes no difference,
\* and the news that the coordinator drops (coord_controller.cc:18) is lost for all.
ViewsAgree ==
  agenda = {} /\ outbox = {} =>
    \A c, d \in Controllers, l \in Links :
      /\ known[c][l] > known[d][l] => Excused(c, d, l)
      /\ known[c][l] = known[d][l] => (l \in existing[c] <=> l \in existing[d])

\* Every controller is handed every accepted packet in the end.
Accepted == UNION {log[i] : i \in DOMAIN log}
AllHeard == \A c \in Controllers : Accepted \subseteq filter[c]

EveryoneHears == ~AllHeard ~> AllHeard
=============================================================================
