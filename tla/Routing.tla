------------------------------ MODULE Routing -------------------------------
(***************************************************************************)
(* The topology, and Controller::compute_paths as a function of the links  *)
(* a controller believes to be up.  The controllers' igraph_t _graph and   *)
(* _hostAtSwitch are functions of _existingLinks: add_link and remove_link *)
(* change them together (controller.cc:250-258, 272-285).                  *)
(***************************************************************************)
EXTENDS Naturals, Sequences, SequencesExt, FiniteSets

CONSTANTS Switches,     \* names of the switches
          Controllers,  \* names of the controllers; they are end hosts too
          Hosts,        \* names of the other end hosts
          Links,        \* names of the links
          Ends          \* Ends[l]: the two nodes link l connects

Endpoints == Controllers \cup Hosts     \* Controller::_nodes
Nodes == Switches \cup Endpoints

\* Topologies of the simulator: a link has a switch at one end at least, and an
\* end host has one link (Simulation::_nsmap keeps one switch per host).
ASSUME TopologyAssumption ==
  /\ IsFiniteSet(Nodes) /\ IsFiniteSet(Links)
  /\ Switches \cap Endpoints = {} /\ Controllers \cap Hosts = {}
  /\ Ends \in [Links -> SUBSET Nodes]
  /\ \A l \in Links : Cardinality(Ends[l]) = 2 /\ Ends[l] \cap Switches # {}
  /\ \A h \in Endpoints : Cardinality({l \in Links : h \in Ends[l]}) = 1

LinksOf(n) == {l \in Links : n \in Ends[l]}                  \* Node::_links
Other(l, n) == CHOOSE m \in Ends[l] : m # n                  \* Link::get_other
LinkBetween(m, n) == CHOOSE l \in Links : Ends[l] = {m, n}
AccessLink(h) == CHOOSE l \in Links : h \in Ends[l]
SwitchOf(h) == Other(AccessLink(h), h)

-----------------------------------------------------------------------------
\* The walks from switch s to switch t over n switches, along links of up.
Walks(up, s, t, n) ==
  {p \in [1..n -> Switches] :
     /\ p[1] = s /\ p[n] = t
     /\ \A k \in 1..n - 1 : \E l \in up : Ends[l] = {p[k], p[k + 1]}}

\* The walks with the fewest switches.
Shortest(up, s, t) ==
  UNION {Walks(up, s, t, n) :
           n \in {m \in 1..Cardinality(Switches) : \A j \in 1..m - 1 : Walks(up, s, t, j) = {}}}

Connected(up, s, t) == Shortest(up, s, t) # {}

\* Every switch can be reached from every other when all links are up.
WholeNetwork == \A s, t \in Switches : Connected(Links, s, t)

\* igraph_get_shortest_path: one of the shortest paths, if there is any.
ShortestPath(up, s, t) ==
  IF Connected(up, s, t) THEN {CHOOSE p \in Shortest(up, s, t) : TRUE} ELSE {}

\* Packet::generate_signature(h0, h1, DATA)
Sigs == {sig \in Endpoints \X Endpoints : sig[1] # sig[2]}

\* The path of a signature: none unless both access links are up.
PathOf(up, sig) ==
  IF {AccessLink(sig[1]), AccessLink(sig[2])} \subseteq up
  THEN ShortestPath(up, SwitchOf(sig[1]), SwitchOf(sig[2])) ELSE {}

\* A forwarding rule: packets with signature sig leave switch sw over link.
Rule == [sw : Switches, sig : Sigs, link : Links]

\* The rules of a signature, one for each switch of its path.
RulesOf(up, sig) ==
  UNION {{[sw |-> p[k], sig |-> sig,
           link |-> IF k < Len(p) THEN LinkBetween(p[k], p[k + 1]) ELSE AccessLink(sig[2])] :
            k \in DOMAIN p} : p \in PathOf(up, sig)}

\* new_table of compute_paths for the links a controller believes to be up.
NewTable(up) == UNION {RulesOf(up, sig) : sig \in Sigs}

\* A flow table is a set of rules, at most one for a switch and a signature.
At(rules, s) == {r \in rules : r.sw = s}
SigsOf(rules) == {r.sig : r \in rules}
IsTable(rules) ==
  /\ rules \subseteq Rule
  /\ \A r, q \in rules : r.sw = q.sw /\ r.sig = q.sig => r = q

\* diffs of compute_paths: the new or different rules.  diffs_negative: the
\* signatures a switch has a rule for and needs none any more.
Diff(old, new) == new \ old
Removed(old, new, s) == SigsOf(At(old, s)) \ SigsOf(At(new, s))
=============================================================================
