------------------------- MODULE ControlPlaneProps --------------------------
(***************************************************************************)
(* What is expected of the control plane.                                  *)
(***************************************************************************)
EXTENDS ControlPlane

\* What a packet of each type carries.
HasData(p) ==
  CASE p.type \in {"LINK_UP", "LINK_DOWN"} -> p.data \in [link : Links, version : 1..MaxVersion]
    [] p.type = "SWITCH_INFORMATION" ->
         p.data \in [LinksOf(p.src) -> [state : {"UP", "DOWN"}, version : 1..MaxVersion]]
    [] p.type = "CHANGE_RULES" -> IsTable(p.data.rules) /\ p.data.del \subseteq Sigs
    [] p.type \in {"SWITCH_TABLE_REQ", "SWITCH_TABLE_RESP"} -> IsTable(p.data)
    [] OTHER -> p.type = "SWITCH_INFORMATION_REQ"

\* Type invariant.
TypeOK ==
  /\ hist \in [Links -> Seq({"UP", "DOWN"})]
  /\ \A l \in Links : Len(hist[l]) \in 1..MaxVersion
  /\ \A k \in Chans : \A i \in DOMAIN chan[k] :
       LET p == chan[k][i]
       IN p.id \in Ids /\ p.src \in Receivers /\ p.dst \in Receivers \cup {ALL} /\ HasData(p)
  /\ filter \in [Receivers -> SUBSET Ids]
  /\ \A s \in Switches : IsTable(table[s])
  /\ known \in [Controllers -> [Links -> 1..MaxVersion]]
  /\ existing \in [Controllers -> SUBSET Links]
  /\ \A c \in Controllers : IsTable(flowDb[c])
  /\ losses \in 0..MaxLoss

\* A packet p tells of a link what the link was at that version.
Truthful(h, p) ==
  \A l \in DOMAIN Report(p) :
    /\ l \in Links
    /\ Report(p)[l].version \in 1..Len(h[l])
    /\ Report(p)[l].state = h[l][Report(p)[l].version]

\* Whatever travels tells the truth: a link that changes twice while its news
\* travels, and the two ends that each tell of it, cannot make a version mean two
\* states (link.cc:89-103, switch.cc:115-137).
NewsIsTrue == \A k \in Chans : \A i \in DOMAIN chan[k] : Truthful(hist, chan[k][i])

\* What a controller believes of a link is what the link was at the version the
\* controller has for it, and no controller is ahead of the link: no mixture of
\* old and new news, in whatever order it arrives (controller.cc:88-133).
ViewTruth ==
  \A c \in Controllers, l \in Links :
    /\ known[c][l] <= Version(l)
    /\ l \in existing[c] <=> hist[l][known[c][l]] = "UP"

\* The same over time: the control plane implements LinkView.
View == INSTANCE LinkView WITH seen <- known, up <- existing

ImplementsView == View!Spec

-----------------------------------------------------------------------------
Quiet == \A k \in Chans : chan[k] = <<>>

\* Two nodes the network connects through links that are up.
Access(n) == IF n \in Switches THEN n ELSE SwitchOf(n)
AccessUp(n) == n \in Switches \/ AccessLink(n) \in Up(hist)
Reaches(m, n) ==
  AccessUp(m) /\ AccessUp(n) /\ Connected(Up(hist), Access(m), Access(n))

\* A link some switch can tell controller c about.
Visible(c, l) == \E s \in Ends[l] \cap Switches : Reaches(c, s)

KnowsLink(c, l) == l \in existing[c] <=> l \in Up(hist)

\* What the periodic SWITCH_INFORMATION_REQ is for: once links stop changing and
\* no packet is lost any more, each controller knows every link it can learn of.
ViewConverges ==
  <>[](\A c \in Controllers, l \in Links : Visible(c, l) => KnowsLink(c, l))

-----------------------------------------------------------------------------
\* Switch s sends packets with signature sig over link l, which is up.
Sends(s, sig, l) == [sw |-> s, sig |-> sig, link |-> l] \in table[s] /\ l \in Up(hist)

\* The ways over switches that the tables give a signature: from the switch of
\* its source to its destination (the loop of Simulation::check_routes).
TableRoutes(sig) ==
  UNION {{p \in [1..n -> Switches] :
            /\ p[1] = SwitchOf(sig[1]) /\ p[n] = SwitchOf(sig[2])
            /\ \A k \in 1..n - 1 : \E l \in Links : Ends[l] = {p[k], p[k + 1]} /\ Sends(p[k], sig, l)
            /\ Sends(p[n], sig, AccessLink(sig[2]))} : n \in 1..Cardinality(Switches)}

Arrives(sig) == TableRoutes(sig) # {}

RoutesWork == \A sig \in Sigs : Reaches(sig[1], sig[2]) => Arrives(sig)

\* The tables of the switches deliver every packet between connected hosts in
\* the end: lost or reordered CHANGE_RULES are repaired by the routing requests.
RoutesConverge == <>[]RoutesWork

\* As long as no packet was lost (refused by a full queue, link.cc:51 and 69, or
\* dropped, link.cc:42 and controller.cc:47) the updates themselves do: whenever the
\* network falls quiet the tables route around the failed links, although copies of
\* an older update may be installed after a newer one (switch.cc:22-28 does not
\* filter copies).
QuietRoutesWork == losses = 0 /\ Quiet => RoutesWork

\* "OK, remove this signature" (controller.cc:415), "Given a diff, packetize
\* things and send rule updates to switches." (controller.h:113): a rule that a
\* controller removed from its flow database leaves the switch in the end, by the
\* update itself or by the periodic requests.
StaleRulesLeave ==
  <>[](\A c \in Controllers, s \in Switches :
         (\A l \in Links : KnowsLink(c, l)) /\ Reaches(c, s) => table[s] = At(flowDb[c], s))
=============================================================================
