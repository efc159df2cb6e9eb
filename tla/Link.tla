-------------------------------- MODULE Link --------------------------------
(***************************************************************************)
(* One link of the simulated network (link.cc, link.h) together with the   *)
(* part of the event queue that carries its packets (context.cc).          *)
(*                                                                         *)
(* Time is kept relative to the clock: flight[d][i].due is what is left    *)
(* until the delivery event scheduled for packet i runs, nextFree[d] is    *)
(* max(_nextSchedulable, now) - now.  Tick lets one unit of time pass, and *)
(* only when no event is due: Context::next always runs the earliest one.  *)
(*                                                                         *)
(* Direction "A" carries what endpoint a sends, "B" what b sends.          *)
(***************************************************************************)
EXTENDS Integers, Sequences, SequencesExt

CONSTANTS Packets,     \* packet payloads
          QueueLimit,  \* the 50 of link.cc:51 and link.cc:69
          TxTimes,     \* size / bandwidth of a packet
          Latencies,   \* samples of the latency distribution, may be negative
          MaxVersion   \* bound: the link changes state at most so often

ASSUME LinkAssumption ==
  /\ QueueLimit \in Nat
  /\ TxTimes \subseteq Nat \ {0}
  /\ Latencies \subseteq Int
  /\ MaxVersion \in Nat

Dirs == {"A", "B"}

VARIABLES state,     \* _state
          version,   \* _version
          queue,     \* _aQueue and _bQueue
          nextFree,  \* _nextSchedulableA/B, relative to now
          flight     \* delivery events in the order they were scheduled

vars == <<state, version, queue, nextFree, flight>>

\* A delivery event: its packet and the time left.
Event == [pkt : Packets, due : Nat]

\* Link::Link
Init ==
  /\ state = "DOWN"
  /\ version = 0
  /\ queue = [d \in Dirs |-> 0]
  /\ nextFree = [d \in Dirs |-> 0]
  /\ flight = [d \in Dirs |-> <<>>]

-----------------------------------------------------------------------------
\* Bug: the time is not clamped.
NotBeforeUnclamped(t) == t

NotBefore(t) == IF t < 0 THEN 0 ELSE t

\* Bug: latency is paid by every packet, as in the line commented out at link.cc:48.
EndTimeWithLatency(d, tx, lat) == nextFree[d] + tx + lat

\* Latency is paid only by a packet that finds the direction idle.
EndTime(d, tx, lat) == nextFree[d] + tx + (IF queue[d] = 0 THEN lat ELSE 0)

\* Link::send once the link is up and the drop distribution lets the packet
\* pass (a drop changes nothing).  scheduleAbsolute runs an event whose time
\* is already past at the current time.
Send(d, p, tx, lat) ==
  /\ state = "UP"
  /\ queue[d] <= QueueLimit
  /\ LET end == NotBefore(EndTime(d, tx, lat))
     IN /\ nextFree' = [nextFree EXCEPT ![d] = end]
        /\ flight' = [flight EXCEPT ![d] = Append(@, [pkt |-> p, due |-> end])]
  /\ queue' = [queue EXCEPT ![d] = @ + 1]
  /\ UNCHANGED <<state, version>>

\* Bug: the queue is never left, or only by packets that are received.
LeavesQueueNever(d) == FALSE
LeavesQueueIfUp(d) == state = "UP"

\* The callback that send() scheduled.  Direction A leaves the queue whatever
\* the link's state, direction B only when the link is up.
LeavesQueue(d) == d = "A" \/ state = "UP"

Deliver(d, i) ==
  /\ flight[d][i].due = 0
  /\ flight' = [flight EXCEPT ![d] = RemoveAt(@, i)]
  /\ queue' = [queue EXCEPT ![d] = IF LeavesQueue(d) THEN @ - 1 ELSE @]
  /\ UNCHANGED <<state, version, nextFree>>

\* Bug: a failing link clears its counters but not its events.
SetStateClears(s) ==
  /\ version < MaxVersion
  /\ state' = s
  /\ version' = version + 1
  /\ queue' = [d \in Dirs |-> 0]
  /\ UNCHANGED <<nextFree, flight>>

\* set_up and silent_set_up, set_down and silent_set_down: the version grows
\* even when the state stays the same (failures of a trace may overlap).
SetState(s) ==
  /\ version < MaxVersion
  /\ state' = s
  /\ version' = version + 1
  /\ UNCHANGED <<queue, nextFree, flight>>

SetUp   == SetState("UP")
SetDown == SetState("DOWN")

\* One repetition of the converge experiment: Context::reset drops all events,
\* Link::reset clears the counters, set_all_links_up_silent brings the link up.
Converge ==
  /\ version < MaxVersion
  /\ flight' = [d \in Dirs |-> <<>>]
  /\ queue' = [d \in Dirs |-> 0]
  /\ nextFree' = [d \in Dirs |-> 0]
  /\ state' = "UP"
  /\ version' = version + 1

\* Time passes until the next event is due.
Tick ==
  /\ \A d \in Dirs : \A i \in DOMAIN flight[d] : flight[d][i].due > 0
  /\ \E d \in Dirs : nextFree[d] > 0
  /\ flight' = [d \in Dirs |->
                  [i \in DOMAIN flight[d] |-> [flight[d][i] EXCEPT !.due = @ - 1]]]
  /\ nextFree' = [d \in Dirs |-> NotBefore(nextFree[d] - 1)]
  /\ UNCHANGED <<state, version, queue>>

Next ==
  \/ \E d \in Dirs, p \in Packets, tx \in TxTimes, lat \in Latencies : Send(d, p, tx, lat)
  \/ \E d \in Dirs : \E i \in DOMAIN flight[d] : Deliver(d, i)
  \/ SetUp
  \/ SetDown
  \/ Converge
  \/ Tick

Spec == Init /\ [][Next]_vars

\* Context::next keeps popping events for as long as the simulation runs, and the
\* clock goes on: no infinite number of events is scheduled for one instant.
Fairness ==
  /\ SF_vars(Tick)
  /\ \A d \in Dirs : WF_vars(\E i \in DOMAIN flight[d] : Deliver(d, i))

FairSpec == Spec /\ Fairness
=============================================================================
