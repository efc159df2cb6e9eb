----------------------------- MODULE LinkProps ------------------------------
(***************************************************************************)
(* What is expected of a link.                                             *)
(***************************************************************************)
EXTENDS Link

\* Type invariant.  The bound on queue also says that the unsigned counters
\* _aQueue and _bQueue never wrap below zero (link.cc:61, link.cc:80).
TypeOK ==
  /\ state \in {"UP", "DOWN"}
  /\ version \in 0..MaxVersion
  /\ queue \in [Dirs -> 0..QueueLimit + 1]
  /\ nextFree \in [Dirs -> Nat]
  /\ flight \in [Dirs -> Seq(Event)]

\* The counter never undercounts: every delivery event still scheduled is
\* counted, so the limit of link.cc:51 and :69 bounds the events of a link.
QueueCoversFlight == \A d \in Dirs : Len(flight[d]) <= queue[d]

\* In direction A the counter is exact, whatever happens to the link while
\* packets are in flight.
AQueueExact == queue["A"] = Len(flight["A"])

\* A later packet is due strictly later and the last one is due when the
\* transmitter becomes free at the latest.  This survives negative latency
\* samples because latency is only added to an idle direction (link.cc:52).
Ordered(d) ==
  /\ \A i, j \in DOMAIN flight[d] : i < j => flight[d][i].due < flight[d][j].due
  /\ \A i \in DOMAIN flight[d] : flight[d][i].due <= nextFree[d]

DueOrdered == \A d \in Dirs : Ordered(d)

\* The link implements a bounded lossy FIFO channel in each direction: packets
\* leave in the order they were sent, and never more than QueueLimit + 1 travel.
Payloads(s) == [i \in DOMAIN s |-> s[i].pkt]

Fifo == INSTANCE LossyFifo
          WITH Capacity <- QueueLimit + 1,
               chan <- [d \in Dirs |-> Payloads(flight[d])]

ImplementsFifo == Fifo!Spec

\* Direction A recovers from a full queue as long as events are executed.
AQueueDrains == (queue["A"] > QueueLimit) ~> (queue["A"] <= QueueLimit)

-----------------------------------------------------------------------------
\* "Limit queuing to some small number of packets." (link.cc:50): a packet is
\* refused only when that many packets are really queued.
RefusedOnlyWhenFull ==
  \A d \in Dirs : queue[d] > QueueLimit => Len(flight[d]) > QueueLimit
=============================================================================
