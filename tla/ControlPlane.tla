---------------------------- MODULE ControlPlane ----------------------------
(***************************************************************************)
(* Switches and controllers (switch.cc, controller.cc, node.cc) over the   *)
(* links of the network.  A link is here what LossyFifo promises: one      *)
(* sequence of packets per direction, which the loss of a packet, the queue*)
(* limit and the drop distributions may shorten (Lose).                    *)
(*                                                                         *)
(* Gossip reads and writes a controller's Log only, which nothing else     *)
(* reads: it is the subject of module GossipLog.                           *)
(***************************************************************************)
EXTENDS Routing

CONSTANTS Failable,    \* bound: the links that may change state
          MaxVersion,  \* bound: a link's version grows up to MaxVersion
          MaxBusy,     \* bound: links change while at most so many packets travel
          MaxLoss,     \* bound: packets that may be lost in a behaviour
          MaxPackets,  \* bound: distinct packets travelling at a time
          Timers,      \* which periodic requests the controllers send
          Versioned    \* _filter_version: switches compare the hashes of tables

ASSUME ControlPlaneAssumption ==
  /\ Failable \subseteq Links
  /\ MaxVersion \in Nat \ {0} /\ MaxBusy \in Nat /\ MaxLoss \in Nat /\ MaxPackets \in Nat
  /\ Timers \subseteq {"switch_info", "routing"} /\ Versioned \in BOOLEAN

VARIABLES hist,      \* hist[l][v]: the state link l took with version v
          chan,      \* chan[<<l, n>>]: packets travelling over l towards n
          filter,    \* _filter of switches and controllers
          table,     \* _forwardingTable of the switches
          known,     \* _linkVersion of the controllers
          existing,  \* _existingLinks of the controllers
          flowDb,    \* _flowDb of the controllers
          losses     \* packets lost so far

vars == <<hist, chan, filter, table, known, existing, flowDb, losses>>

\* Node::receive of a plain host does nothing, so nothing travels towards one.
Receivers == Switches \cup Controllers
Chans == {k \in Links \X Receivers : k[2] \in Ends[k[1]]}

\* Link::_state and Link::_version
Up(h) == {l \in Links : Last(h[l]) = "UP"}
Version(l) == Len(hist[l])

ALL == "ALL"    \* Packet::WILDCARD

-----------------------------------------------------------------------------
(* Packets and their identifiers.                                          *)

\* Packet::pid never repeats.  An identifier no travelling packet carries can
\* not be met again, so it is forgotten and used again: the model has the
\* behaviours of a counter, with finitely many states.
Ids == 1..MaxPackets
Travelling(ch) == UNION {{ch[k][i].id : i \in DOMAIN ch[k]} : k \in DOMAIN ch}
FreeIds == Ids \ Travelling(chan)
NewId(k) == CHOOSE i \in FreeIds : Cardinality(FreeIds \cap 1..i) = k

\* Packet::Packet, for the k-th packet that a step creates.
Packet(k, type, src, dst, data) ==
  [id |-> NewId(k), type |-> type, src |-> src, dst |-> dst, data |-> data]

\* Node n inserts the identifiers seen into its _filter.
Remember(n, seen) ==
  filter' = [m \in Receivers |->
               (filter[m] \cup IF m = n THEN seen ELSE {}) \cap Travelling(chan')]

\* Node::flood: node n puts packets on its links, except one; a link that is
\* down refuses them (Link::send).
Flood(ch, up, n, packets, except) ==
  [k \in Chans |->
     IF n \in Ends[k[1]] \ {k[2]} /\ k[1] \in up \ {except}
     THEN ch[k] \o packets ELSE ch[k]]

NoLink == "none"

\* The names that stand for all nodes and for no link name none.
ASSUME NameAssumption == ALL \notin Nodes /\ NoLink \notin Links

-----------------------------------------------------------------------------
(* Switch                                                                  *)

\* Bug: a switch keeps the rule it has.
InstallKeeps(old, new, del) ==
  {r \in old \cup {q \in new : q.sig \notin SigsOf(old)} : r.sig \notin del}

\* Switch::install_flow_table: add or overwrite, then delete.
Install(old, new, del) ==
  {r \in new \cup {q \in old : q.sig \notin SigsOf(new)} : r.sig \notin del}

\* Bug: the version is read before it is incremented, or incremented twice.
NotificationEarly(k, n, l, s, v) ==
  Packet(k, IF s = "UP" THEN "LINK_UP" ELSE "LINK_DOWN", n, ALL, [link |-> l, version |-> v - 1])
NotificationLate(k, n, l, s, v) ==
  Packet(k, IF s = "UP" THEN "LINK_UP" ELSE "LINK_DOWN", n, ALL, [link |-> l, version |-> v + 1])

\* Switch::notify_link_up and notify_link_down: what the two ends of l tell the
\* network when its state changes to s with version v.
Notification(k, n, l, s, v) ==
  Packet(k, IF s = "UP" THEN "LINK_UP" ELSE "LINK_DOWN", n, ALL, [link |-> l, version |-> v])

SwitchInformation(s, p) ==
  Packet(1, "SWITCH_INFORMATION", s, p.src,
         [l \in LinksOf(s) |-> [state |-> Last(hist[l]), version |-> Version(l)]])

\* Bug: a switch does not answer.
AnswersNever(s, p) == <<>>

\* The answer of switch s to packet p, if it gives one (switch.cc:29-51).  A table
\* with the hash the controller sent need not be sent back; different
\* tables are taken to have different hashes.
Answers(s, p) ==
  IF p.type = "SWITCH_INFORMATION_REQ" THEN <<SwitchInformation(s, p)>>
  ELSE IF p.type = "SWITCH_TABLE_REQ" /\ (Versioned => p.data # table[s])
       THEN <<Packet(1, "SWITCH_TABLE_RESP", s, p.src, table[s])>>
       ELSE <<>>

\* Bug: identifiers are not filtered.
SpreadsAlways(s, p) == p.dst # s

\* Switch::receive.  A packet for another node is flooded on once; a packet for
\* this switch is processed every time a copy arrives.
Spreads(s, p) == p.dst # s /\ p.id \notin filter[s]

SwitchReceive(s, l, p, ch) ==
  /\ FreeIds # {}
  /\ chan' = Flood(Flood(ch, Up(hist), s, IF Spreads(s, p) THEN <<p>> ELSE <<>>, l),
                   Up(hist), s, IF p.dst \in {s, ALL} THEN Answers(s, p) ELSE <<>>, NoLink)
  /\ Remember(s, IF Spreads(s, p) THEN {p.id} ELSE {})
  /\ table' = IF p.dst \in {s, ALL} /\ p.type = "CHANGE_RULES"
              THEN [table EXCEPT ![s] = Install(@, p.data.rules, p.data.del)] ELSE table
  /\ UNCHANGED <<known, existing, flowDb>>

-----------------------------------------------------------------------------
(* Controller                                                              *)

\* The news in a packet: links whose state it tells with a newer version.
\* LINK_UP and LINK_DOWN tell of one link, SWITCH_INFORMATION of several.
Report(p) ==
  CASE p.type = "SWITCH_INFORMATION" -> p.data
    [] p.type \in {"LINK_UP", "LINK_DOWN"} ->
         [l \in {p.data.link} |->
            [state |-> IF p.type = "LINK_UP" THEN "UP" ELSE "DOWN", version |-> p.data.version]]
    [] OTHER -> [l \in {} |-> [state |-> "DOWN", version |-> 0]]

\* Bug: old news is accepted.
NewerAny(c, r) == {l \in DOMAIN r : r[l].version # known[c][l]}

Newer(c, r) == {l \in DOMAIN r : r[l].version > known[c][l]}

\* Controller::add_link and remove_link for every piece of news.
NewKnown(c, r) == [l \in Links |-> IF l \in Newer(c, r) THEN r[l].version ELSE known[c][l]]
\* Bug: remove_link does not erase.
NewExistingKeeps(c, r) == existing[c] \cup {l \in Newer(c, r) : r[l].state = "UP"}

NewExisting(c, r) ==
  (existing[c] \ Newer(c, r)) \cup {l \in Newer(c, r) : r[l].state = "UP"}

\* Controller::compute_paths runs when add_link or remove_link changed the
\* existing links, after any news in a SWITCH_INFORMATION and after every
\* SWITCH_TABLE_RESP.
Recomputes(c, p) ==
  \/ p.type \in {"LINK_UP", "LINK_DOWN"} /\ NewExisting(c, Report(p)) # existing[c]
  \/ p.type = "SWITCH_INFORMATION" /\ Newer(c, Report(p)) # {}
  \/ p.type = "SWITCH_TABLE_RESP"

\* Controller::apply_patch: one CHANGE_RULES for each switch that gets new or
\* different rules, with the deletions for that switch.
Patched(old, new) == {r.sw : r \in Diff(old, new)}

Patch(c, old, new) ==
  LET dests == SetToSeq(Patched(old, new))
  IN [k \in DOMAIN dests |->
        Packet(k, "CHANGE_RULES", c, dests[k],
               [rules |-> At(Diff(old, new), dests[k]), del |-> Removed(old, new, dests[k])])]

\* Bug: the entry is not replaced.
BelievedStale(c, p) == flowDb[c]

\* The flow database that compute_paths starts from: handle_routing_resp first
\* replaces its entry for the answering switch.
Believed(c, p) ==
  IF p.type = "SWITCH_TABLE_RESP"
  THEN {r \in flowDb[c] : r.sw # p.src} \cup p.data ELSE flowDb[c]

\* Controller::receive of a packet the controller has not seen yet.
ControllerProcess(c, p, ch) ==
  /\ Cardinality(FreeIds) >= Cardinality(Switches)
  /\ known' = [known EXCEPT ![c] = NewKnown(c, Report(p))]
  /\ existing' = [existing EXCEPT ![c] = NewExisting(c, Report(p))]
  /\ IF Recomputes(c, p)
     THEN \E new \in {NewTable(existing'[c])} : \E patch \in {Patch(c, Believed(c, p), new)} :
            /\ flowDb' = [flowDb EXCEPT ![c] = new]
            /\ chan' = Flood(ch, Up(hist), c, patch, NoLink)
     ELSE /\ flowDb' = flowDb
          /\ chan' = ch
  /\ Remember(c, {p.id})
  /\ UNCHANGED table

\* Controller::receive of a packet that is filtered or meant for someone else.
ControllerIgnore(c, p, ch) ==
  /\ chan' = ch
  /\ Remember(c, {p.id})
  /\ UNCHANGED <<table, known, existing, flowDb>>

ControllerReceive(c, p, ch) ==
  IF p.id \notin filter[c] /\ p.dst \in {c, ALL}
  THEN ControllerProcess(c, p, ch)
  ELSE ControllerIgnore(c, p, ch)

-----------------------------------------------------------------------------
(* The network                                                             *)

\* All links were set up silently, the routes computed and installed
\* (main.cc:121-122).
Init ==
  /\ hist = [l \in Links |-> <<"UP">>]
  /\ chan = [k \in Chans |-> <<>>]
  /\ filter = [n \in Receivers |-> {}]
  /\ table = [s \in Switches |-> At(NewTable(Links), s)]
  /\ known = [c \in Controllers |-> [l \in Links |-> 1]]
  /\ existing = [c \in Controllers |-> Links]
  /\ flowDb = [c \in Controllers |-> NewTable(Links)]
  /\ losses = 0

\* Link::set_up and set_down.  Each switch at an end of the link notices a
\* change of state and floods a notification over its links that are up; an
\* overlapping failure or recovery only raises the version.
SetLink(l, s) ==
  /\ l \in Failable /\ Version(l) < MaxVersion
  /\ Cardinality(Travelling(chan)) <= MaxBusy
  /\ Cardinality(FreeIds) >= 2
  /\ hist' = [hist EXCEPT ![l] = Append(@, s)]
  /\ LET ends == SetToSeq(Ends[l] \cap Switches)
         note(k) == Notification(k, ends[k], l, s, Version(l) + 1)
         tell(ch, k) == IF k > Len(ends) \/ Last(hist[l]) = s THEN ch
                        ELSE Flood(ch, Up(hist'), ends[k], <<note(k)>>, NoLink)
     IN chan' = tell(tell(chan, 1), 2)
  /\ UNCHANGED <<filter, table, known, existing, flowDb, losses>>

\* The oldest packet of a direction is received, or discarded when the link is
\* down at that time (Link::send, the scheduled callback).
Deliver(k) ==
  /\ chan[k] # <<>>
  /\ LET p == Head(chan[k])
         ch == [chan EXCEPT ![k] = Tail(@)]
     IN IF k[1] \in Up(hist)
        THEN IF k[2] \in Switches THEN SwitchReceive(k[2], k[1], p, ch)
                                  ELSE ControllerReceive(k[2], p, ch)
        ELSE /\ chan' = ch
             /\ Remember(k[2], {})
             /\ UNCHANGED <<table, known, existing, flowDb>>
  /\ UNCHANGED <<hist, losses>>

\* A packet is lost: dropped by the link's drop distribution or refused by a full
\* queue; or dropped by a controller, which then filters other copies of it too.
Lose(k) ==
  /\ losses < MaxLoss
  /\ chan[k] # <<>>
  /\ losses' = losses + 1
  /\ chan' = [chan EXCEPT ![k] = Tail(@)]
  /\ \/ Remember(k[2], {})
     \/ k[2] \in Controllers /\ k[1] \in Up(hist) /\ Remember(k[2], {Head(chan[k]).id})
  /\ UNCHANGED <<hist, table, known, existing, flowDb>>

\* No packet of these types to or from c travels: the timers of a controller are
\* longer than a round trip.
Answered(c, types) ==
  \A k \in Chans : \A i \in DOMAIN chan[k] :
    ~(chan[k][i].type \in types /\ c \in {chan[k][i].src, chan[k][i].dst})

\* Controller::send_switch_info_request
SendSwitchInfoRequest(c) ==
  /\ "switch_info" \in Timers
  /\ Answered(c, {"SWITCH_INFORMATION_REQ", "SWITCH_INFORMATION"})
  /\ FreeIds # {}
  /\ chan' = Flood(chan, Up(hist), c, <<Packet(1, "SWITCH_INFORMATION_REQ", c, ALL, <<>>)>>, NoLink)
  /\ UNCHANGED <<hist, filter, table, known, existing, flowDb, losses>>

\* Controller::send_routing_request: one request per switch.
SendRoutingRequest(c) ==
  /\ "routing" \in Timers
  /\ Answered(c, {"SWITCH_TABLE_REQ", "SWITCH_TABLE_RESP"})
  /\ Cardinality(FreeIds) >= Cardinality(Switches)
  /\ LET dests == SetToSeq(Switches)
         requests == [k \in DOMAIN dests |->
                        Packet(k, "SWITCH_TABLE_REQ", c, dests[k], At(flowDb[c], dests[k]))]
     IN chan' = Flood(chan, Up(hist), c, requests, NoLink)
  /\ UNCHANGED <<hist, filter, table, known, existing, flowDb, losses>>

Next ==
  \/ \E l \in Links, s \in {"UP", "DOWN"} : SetLink(l, s)
  \/ \E k \in Chans : Deliver(k)
  \/ \E k \in Chans : Lose(k)
  \/ \E c \in Controllers : SendSwitchInfoRequest(c)
  \/ \E c \in Controllers : SendRoutingRequest(c)

Spec == Init /\ [][Next]_vars

\* Events keep being executed and the timers are rearmed every time they fire.
Fairness ==
  /\ \A k \in Chans : WF_vars(Deliver(k))
  /\ \A c \in Controllers : WF_vars(SendSwitchInfoRequest(c)) /\ WF_vars(SendRoutingRequest(c))

FairSpec == Spec /\ Fairness
=============================================================================
