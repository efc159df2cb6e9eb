----------------------------- MODULE Simulation -----------------------------
(***************************************************************************)
(* The simulator around the control plane (simulation.cc): with every      *)
(* change of a link it changes a graph of its own, and the figures that an *)
(* experiment reports compare the tables of the switches with that graph   *)
(* (check_routes, in SimulationProps).                                     *)
(***************************************************************************)
EXTENDS ControlPlane

SwitchLink(l) == Ends[l] \subseteq Switches
EndHost(l) == CHOOSE h \in Ends[l] : h \notin Switches

\* Two switches have one link: _graph has at most one edge for them, and
\* compute_paths finds the link by the names of its ends.
ASSUME SimulationAssumption ==
  \A l, m \in Links : SwitchLink(l) /\ Ends[l] = Ends[m] => l = m

VARIABLES edges,  \* _graph: for two switches, the number of edges between them
          nsmap,  \* _nsmap: pairs of an end host and its switch
          live    \* _liveLinks

graph == <<edges, nsmap, live>>
simulationVars == <<vars, graph>>

-----------------------------------------------------------------------------
\* Bug: the edge is added without looking for it.
AddEdgeAgain(es, l) == [es EXCEPT ![Ends[l]] = @ + 1]

\* igraph_add_edge adds a second edge between the same vertices; get_eid tells
\* whether there is one.
AddEdge(es, l) == IF es[Ends[l]] = 0 THEN [es EXCEPT ![Ends[l]] = @ + 1] ELSE es
RemoveEdge(es, l) == IF es[Ends[l]] > 0 THEN [es EXCEPT ![Ends[l]] = @ - 1] ELSE es

\* Bug: the host is not put back when its link recovers.
AddHostNever(ns, l) == ns

\* unordered_map::emplace: a switch that is there already stays.
AddHost(ns, l) ==
  LET h == EndHost(l) IN IF \E e \in ns : e[1] = h THEN ns ELSE ns \cup {<<h, Other(l, h)>>}

\* Bug: the host stays when its link fails.
RemoveHostNever(ns, l) == ns

RemoveHost(ns, l) == {e \in ns : e[1] # EndHost(l)}

AddGraphLink(l) ==
  /\ edges' = IF SwitchLink(l) THEN AddEdge(edges, l) ELSE edges
  /\ nsmap' = IF SwitchLink(l) THEN nsmap ELSE AddHost(nsmap, l)
  /\ live' = live \cup {m \in {l} : SwitchLink(m) => edges[Ends[m]] = 0}

RemoveGraphLink(l) ==
  /\ edges' = IF SwitchLink(l) THEN RemoveEdge(edges, l) ELSE edges
  /\ nsmap' = IF SwitchLink(l) THEN nsmap ELSE RemoveHost(nsmap, l)
  /\ live' = live \ {m \in {l} : SwitchLink(m) => edges[Ends[m]] > 0}

\* set_all_links_up_silent adds all links; none of them touches the edge or the
\* host of another.
AddAllGraphLinks ==
  /\ edges' = [e \in DOMAIN edges |-> AddEdge(edges, CHOOSE l \in Links : Ends[l] = e)[e]]
  /\ nsmap' = UNION {AddHost(nsmap, l) : l \in {m \in Links : ~SwitchLink(m)}}
  /\ live' = live \cup {m \in Links : SwitchLink(m) => edges[Ends[m]] = 0}

-----------------------------------------------------------------------------
\* set_all_links_up_silent and install_all_routes, after the constructor.
SimulationInit ==
  /\ Init
  /\ edges = [e \in {Ends[l] : l \in {k \in Links : SwitchLink(k)}} |-> 1]
  /\ nsmap = {<<h, SwitchOf(h)>> : h \in Endpoints}
  /\ live = Links

\* Simulation::set_link_up and set_link_down
SetLinkUp(l) == SetLink(l, "UP") /\ AddGraphLink(l)
SetLinkDown(l) == SetLink(l, "DOWN") /\ RemoveGraphLink(l)

\* All other events leave the graph alone.
OtherEvent ==
  /\ \/ \E k \in Chans : Deliver(k) \/ Lose(k)
     \/ \E c \in Controllers : SendSwitchInfoRequest(c) \/ SendRoutingRequest(c)
  /\ UNCHANGED graph

SimulationNext ==
  \/ \E l \in Links : SetLinkUp(l) \/ SetLinkDown(l)
  \/ OtherEvent

SimulationSpec == SimulationInit /\ [][SimulationNext]_simulationVars
=============================================================================
