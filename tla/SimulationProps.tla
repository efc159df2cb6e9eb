-------------------------- MODULE SimulationProps ---------------------------
(***************************************************************************)
(* What is expected of the simulator's measurements.                       *)
(***************************************************************************)
EXTENDS Simulation, ControlPlaneProps

\* The distance of two switches in _graph: a set with one number, or empty.
Distance(s, t) ==
  {Len(p) - 1 : p \in Shortest({l \in Links : SwitchLink(l) /\ edges[Ends[l]] > 0}, s, t)}

\* The signatures that check_routes checks: those of two other hosts that
\* _nsmap and _graph connect.
Checked ==
  {sig \in Sigs : /\ {sig[1], sig[2]} \subseteq Hosts
                  /\ \E e, f \in nsmap : e[1] = sig[1] /\ f[1] = sig[2] /\ Distance(e[2], f[2]) # {}}

\* The ones it finds to arrive, the first link included.
Passed == {sig \in Checked : AccessLink(sig[1]) \in Up(hist) /\ Arrives(sig)}

\* The simulator's graph is the network, however failures and recoveries of a
\* trace overlap (simulation.cc:143-191, main.cc:161-190): one edge between two
\* switches whose link is up and none else, the switch of every attached end
\* host, and the links that are up.
GraphIsNetwork ==
  /\ live = Up(hist)
  /\ \A l \in Links : SwitchLink(l) => edges[Ends[l]] = IF l \in live THEN 1 ELSE 0
  /\ nsmap = {<<h, SwitchOf(h)>> : h \in {n \in Endpoints : AccessLink(n) \in live}}

\* Whatever changes have overlapped and whatever travels, the pairs that an
\* experiment counts are those that the network connects at that moment, first and
\* last link included, although check_routes asks _nsmap and _graph and never a link
\* (simulation.cc:308-328).
CountsConnected ==
  \A sig \in Sigs : {sig[1], sig[2]} \subseteq Hosts => (sig \in Checked <=> Reaches(sig[1], sig[2]))

\* The best check_routes can report: every pair that is checked passes, and on a
\* way as short as the simulator's own (simulation.cc:366-374).
CheckPasses ==
  \A sig \in Checked :
    sig \in Passed /\ \A p \in TableRoutes(sig) : Len(p) - 1 \in Distance(p[1], p[Len(p)])

\* It is what is measured when the network is quiet, as long as no packet was lost.
QuietCheckPasses == losses = 0 /\ Quiet => CheckPasses
=============================================================================
