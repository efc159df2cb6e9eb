----------------------------- MODULE LossyFifo -----------------------------
(***************************************************************************)
(* What a Link promises to the nodes at its two ends: in each direction a  *)
(* bounded channel that may lose packets but never reorders, duplicates or *)
(* invents them.  The control plane is modelled over such channels; the    *)
(* detailed Link (link.cc) is shown to implement this specification.       *)
(***************************************************************************)
EXTENDS Naturals, Sequences

CONSTANTS Dirs,      \* the directions, named by the sending endpoint
          Packets,   \* packet payloads
          Capacity   \* packets one direction may hold

VARIABLE chan        \* chan[d]: the packets travelling in direction d, in order

Init == chan = [d \in Dirs |-> <<>>]

\* A packet enters a direction that has room.
Put(d, p) ==
  /\ Len(chan[d]) < Capacity
  /\ chan' = [chan EXCEPT ![d] = Append(@, p)]

\* The oldest packet leaves: it is received, or lost because the link is down.
Take(d) ==
  /\ chan[d] # <<>>
  /\ chan' = [chan EXCEPT ![d] = Tail(@)]

\* A new repetition of the converge experiment forgets every packet.
Clear == chan' = [d \in Dirs |-> <<>>]

Next ==
  \/ \E d \in Dirs, p \in Packets : Put(d, p)
  \/ \E d \in Dirs : Take(d)
  \/ Clear

Spec == Init /\ [][Next]_chan
=============================================================================
