---------------------------- MODULE Coordinator -----------------------------
(***************************************************************************)
(* Controllers that share a coordinator (coord_controller.cc).  A packet   *)
(* that reaches one of them goes to the coordinator, which hands it to all *)
(* of them after 2 * _rtt, unless a packet with a higher identifier was    *)
(* there before it.                                                        *)
(*                                                                         *)
(* The network between the switches and the controllers is only what       *)
(* flooding amounts to: a packet that was sent may reach any controller,   *)
(* any number of times, at any time, or none (ControlPlane has the details)*)
(* What a controller is handed it may still drop (Discard).                *)
(* Packets for switches are left out: the coordinator compares them with   *)
(* one another only and the controllers ignore them.                       *)
(*                                                                         *)
(* Times are relative to now, as in Link: Tick lets time pass.             *)
(***************************************************************************)
EXTENDS Routing

CONSTANTS Rtt,         \* _rtt
          Failable,    \* bound: the links that may change state
          MaxVersion,  \* bound: a link's version grows up to MaxVersion
          MaxPid,      \* bound: identifiers go up to MaxPid
          MaxDrops     \* bound: packets that controllers may drop in a behaviour

ASSUME CoordinatorAssumption ==
  /\ Rtt \in Nat \ {0} /\ Failable \subseteq Links
  /\ MaxVersion \in Nat \ {0} /\ MaxPid \in Nat /\ MaxDrops \in Nat

VARIABLES hist,      \* hist[l][v]: the state link l took with version v
          sent,      \* packets sent so far; Packet::pid is their number
          lastSeen,  \* _lastSeen
          ahead,     \* _lastTime, relative to now and not below zero
          agenda,    \* calls of send_to_controller that are scheduled
          outbox,    \* calls of receive_coordinator that are scheduled
          filter,    \* _filter of the controllers
          known,     \* _linkVersion of the controllers
          existing,  \* _existingLinks of the controllers
          missed,    \* history: identifiers of the packets that each controller dropped
          log,       \* history: identifiers accepted, a set for each instant
          fresh      \* history: time has passed since the last one was accepted

vars == <<hist, sent, lastSeen, ahead, agenda, outbox, filter, known, existing, missed, log, fresh>>

ALL == "ALL"    \* Packet::WILDCARD

Ids == 0..MaxPid

\* Bug: the identifier is read before it is incremented for the last packet.
pidLate == IF sent = {} THEN 0 ELSE Cardinality(sent) - 1

pid == Cardinality(sent)

\* The state of links ls now, as a packet tells it.
Truth(h, ls) == [l \in ls |-> [state |-> Last(h[l]), version |-> Len(h[l])]]

-----------------------------------------------------------------------------
\* set_all_links_up_silent and Coordinator::Coordinator
Init ==
  /\ hist = [l \in Links |-> <<"UP">>]
  /\ sent = {}
  /\ lastSeen = [d \in Controllers \cup {ALL} |-> 0]
  /\ ahead = 0 /\ agenda = {} /\ outbox = {}
  /\ filter = [c \in Controllers |-> {}]
  /\ known = [c \in Controllers |-> [l \in Links |-> 1]]
  /\ existing = [c \in Controllers |-> Links]
  /\ missed = [c \in Controllers |-> {}]
  /\ log = <<>> /\ fresh = TRUE

coordinator == <<lastSeen, ahead, agenda, outbox, log, fresh>>
controllers == <<filter, known, existing, missed>>

\* Link::set_up and set_down: each switch at the link tells everyone.
SetLink(l, s) ==
  /\ l \in Failable /\ Len(hist[l]) < MaxVersion
  /\ hist' = [hist EXCEPT ![l] = Append(@, s)]
  /\ LET ends == IF s = Last(hist[l]) THEN <<>> ELSE SetToSeq(Ends[l] \cap Switches)
     IN /\ pid + Len(ends) <= MaxPid + 1
        /\ sent' = sent \cup
             {[id |-> pid + i - 1, src |-> ends[i], dst |-> ALL, asks |-> FALSE,
               news |-> Truth(hist', {l})] : i \in DOMAIN ends}
  /\ UNCHANGED <<coordinator, controllers>>

\* Controller::send_switch_info_request
SendSwitchInfoRequest(c) ==
  /\ pid <= MaxPid
  /\ sent' = sent \cup {[id |-> pid, src |-> c, dst |-> ALL, asks |-> TRUE,
                         news |-> Truth(hist, {})]}
  /\ UNCHANGED <<hist, coordinator, controllers>>

\* Switch s answers a request, each time a copy of it arrives.
Answer(s, req) ==
  /\ req.asks /\ pid <= MaxPid
  /\ sent' = sent \cup {[id |-> pid, src |-> s, dst |-> req.src, asks |-> FALSE,
                         news |-> Truth(hist, LinksOf(s))]}
  /\ UNCHANGED <<hist, coordinator, controllers>>

-----------------------------------------------------------------------------
\* Bug: the time of the last packet is never forgotten.
SpacedKeeps(a) == a

\* "if (_lastTime > _context->now()) _lastTime = 0.0": a time still to come is
\* forgotten, so it never delays the next packet.
Spaced(a) == IF a > 0 THEN 0 ELSE a

\* std::max(now + 2 * _rtt, _lastTime + 2 * _rtt), relative to now.
Due == Spaced(ahead) + 2 * Rtt

\* Bug: a packet that was overtaken or is there already is accepted.
NewerNot(p) == TRUE

Newer(p) == lastSeen[p.dst] < p.id

\* CoordinationController::receive and Coordinator::receive
Receive(p) ==
  /\ Newer(p)
  /\ lastSeen' = [lastSeen EXCEPT ![p.dst] = p.id]
  /\ ahead' = Due
  /\ agenda' = agenda \cup {[pkt |-> p, due |-> Due]}
  /\ log' = IF fresh THEN Append(log, {p.id}) ELSE [log EXCEPT ![Len(log)] = @ \cup {p.id}]
  /\ fresh' = FALSE
  /\ UNCHANGED <<hist, sent, outbox, controllers>>

\* Bug: a controller is not handed packets for another one.
AudienceOf(p) == IF p.dst = ALL THEN Controllers ELSE {p.dst}

Audience(p) == Controllers

\* Coordinator::send_to_controller: one event for each controller.
SendToController(e) ==
  /\ e.due = 0
  /\ agenda' = agenda \ {e}
  /\ outbox' = outbox \cup {<<c, e.pkt>> : c \in Audience(e.pkt)}
  /\ UNCHANGED <<hist, sent, lastSeen, ahead, controllers, log, fresh>>

\* Bug: old news is accepted.
LearnsAny(c, p) ==
  IF p.dst \in {c, ALL} THEN {l \in DOMAIN p.news : p.news[l].version # known[c][l]} ELSE {}

\* The links a controller learns of from a packet.
Learns(c, p) ==
  IF p.dst \in {c, ALL} THEN {l \in DOMAIN p.news : p.news[l].version > known[c][l]} ELSE {}

\* Controller c takes over the news of a packet that _drop lets pass.
Process(c, p) ==
  /\ known' = [known EXCEPT ![c] =
                 [l \in Links |-> IF l \in Learns(c, p) THEN p.news[l].version ELSE @[l]]]
  /\ existing' = [existing EXCEPT ![c] =
                    (@ \ Learns(c, p)) \cup {l \in Learns(c, p) : p.news[l].state = "UP"}]
  /\ UNCHANGED missed

\* _drop->next() is false: the packet is in the filter and is never processed.  Each
\* controller has a distribution of its own.
Discard(c, p) ==
  /\ Cardinality({x \in Controllers \X Ids : x[2] \in missed[x[1]]}) < MaxDrops
  /\ missed' = [missed EXCEPT ![c] = @ \cup {p.id}]
  /\ UNCHANGED <<known, existing>>

\* CoordinationController::receive_coordinator, Controller::receive
Handle(c, p) ==
  /\ <<c, p>> \in outbox
  /\ outbox' = outbox \ {<<c, p>>}
  /\ filter' = [filter EXCEPT ![c] = @ \cup {p.id}]
  /\ IF p.id \in filter[c] THEN UNCHANGED <<known, existing, missed>>
     ELSE Process(c, p) \/ Discard(c, p)
  /\ UNCHANGED <<hist, sent, lastSeen, ahead, agenda, log, fresh>>

\* Bug: time passes although a controller has not been called yet.
CalmEarly == \A e \in agenda : e.due > 0

\* Context::next: nothing is due now.
Calm == outbox = {} /\ \A e \in agenda : e.due > 0

Tick ==
  /\ Calm
  /\ ahead > 0 \/ agenda # {}
  /\ ahead' = IF ahead > 0 THEN ahead - 1 ELSE 0
  /\ agenda' = {[e EXCEPT !.due = @ - 1] : e \in agenda}
  /\ fresh' = TRUE
  /\ UNCHANGED <<hist, sent, lastSeen, outbox, controllers, log>>

Next ==
  \/ \E l \in Links, s \in {"UP", "DOWN"} : SetLink(l, s)
  \/ \E c \in Controllers : SendSwitchInfoRequest(c)
  \/ \E s \in Switches, req \in sent : Answer(s, req)
  \/ \E p \in sent : Receive(p)
  \/ \E e \in agenda : SendToController(e)
  \/ \E call \in outbox : Handle(call[1], call[2])
  \/ Tick

Spec == Init /\ [][Next]_vars

\* Events are executed as long as there are any.
Fairness ==
  /\ WF_vars(\E e \in agenda : SendToController(e))
  /\ WF_vars(\E call \in outbox : Handle(call[1], call[2]))
  /\ SF_vars(Tick)

FairSpec == Spec /\ Fairness
=============================================================================
