----------------------------- MODULE GossipLog -----------------------------
(***************************************************************************)
(* The controllers' logs of one link (class Log) and the gossip that fills *)
(* their gaps.  A log keeps the state of the link for every version, so the*)
(* links are independent of each other and the model has one.              *)
(*                                                                         *)
(* Messages travel by flooding: each receiver handles a message once       *)
(* (Controller::_filter), in any order, or never.                          *)
(***************************************************************************)
EXTENDS Naturals, Sequences, SequencesExt, FiniteSets

CONSTANTS Controllers,
          InitialSize,   \* INITIAL_SIZE
          HighWater,     \* HWM
          GrowBy,        \* GROW
          MaxVersion,    \* bound: how often the link changes
          MaxLoss,       \* bound: messages that are lost
          LateNews       \* may news of a change come after gossip about it?

ASSUME GossipAssumption ==
  /\ {InitialSize, HighWater, GrowBy, MaxVersion} \subseteq Nat \ {0}
  /\ InitialSize > 1 /\ MaxLoss \in Nat /\ LateNews \in BOOLEAN

VARIABLES truth,    \* truth[v]: the state the link took with version v
          heard,    \* Controller::_linkVersion
          log,      \* _log and _commit; entry i + 1 is that of version i
          marked,   \* _marked: the versions below it are known
          size,     \* _sizes
          max,      \* _max
          msgs,     \* gossip requests and responses travelling
          running,  \* no access out of range has ended the program
          learnt,   \* history: the versions a controller was told of
          losses    \* messages lost so far

vars == <<truth, heard, log, marked, size, max, msgs, running, learnt, losses>>

State == {"UP", "DOWN"}
Entry == [known : BOOLEAN, state : State]
Known(s) == [known |-> TRUE, state |-> s]
Blank == [known |-> FALSE, state |-> "DOWN"]     \* Link::State() and false

Blanks(n) == [i \in 1..n |-> Blank]
Length(c) == Len(log[c])
At(c, v) == log[c][v + 1]                        \* _log.at(v) and _commit.at(v)
KnownAt(c, v) == v < Length(c) /\ At(c, v).known

\* Bug: room is reserved but the entries are not made.
OpenedEmpty == <<Known("DOWN")>>

\* Log::open_log_link
Opened == <<Known("DOWN")>> \o Blanks(InitialSize)

\* Bug: an event is added at the end, or one place too early.
InsertLast(s, v, e) == Append(s, e)
InsertEarly(s, v, e) == InsertAt(s, v, e)

\* The emplace of add_link_event: the entries from v on move up by one.
Insert(s, v, e) == InsertAt(s, v + 1, e)

\* Every link was opened with open_log_link and its first event, the silent
\* set up, was added (Controller::add_link, simulation.cc:228).
Init ==
  /\ truth = <<"UP">>
  /\ heard = [c \in Controllers |-> 1]
  /\ log = [c \in Controllers |-> Insert(Opened, 1, Known("UP"))]
  /\ marked = [c \in Controllers |-> 1]
  /\ size = [c \in Controllers |-> InitialSize]
  /\ max = [c \in Controllers |-> 1]
  /\ msgs = {}
  /\ running = TRUE
  /\ learnt = [c \in Controllers |-> {1}]
  /\ losses = 0

-----------------------------------------------------------------------------
\* The link changes; the state may stay the same when failures overlap.
Change(s) ==
  /\ running /\ Len(truth) < MaxVersion
  /\ truth' = Append(truth, s)
  /\ UNCHANGED <<heard, log, marked, size, max, msgs, running, learnt, losses>>

\* One round of the loop of add_link_event, when version v does not fit size n.
NextSize(v, n) == IF n < HighWater THEN n * 2 ELSE v + GrowBy

\* The size at the end of the loop.
LastSize(v) ==
  LET grow[n \in Nat \ {0}] == IF v < n THEN n ELSE grow[NextSize(v, n)]
  IN grow

\* std::vector::resize, which cuts a longer vector.
Resize(s, n) == [i \in 1..n |-> IF i <= Len(s) THEN s[i] ELSE Blank]

\* The loop resizes to larger and larger sizes: only the first of them can cut.
Resized(s, v, n) == Resize(Resize(s, NextSize(v, n)), LastSize(v)[n])

\* Log::add_link_event, when news of version v reaches controller c.
Learn(c, v) ==
  /\ running /\ v > heard[c]
  /\ LateNews \/ v > max[c]
  /\ LET grows == v >= size[c]
     IN /\ log' = [log EXCEPT ![c] = Insert(IF grows THEN Resized(@, v, size[c]) ELSE @, v, Known(truth[v]))]
        /\ size' = [size EXCEPT ![c] = IF grows THEN LastSize(v)[@] ELSE @]
  /\ max' = [max EXCEPT ![c] = IF @ < v THEN v ELSE @]
  /\ heard' = [heard EXCEPT ![c] = v]
  /\ learnt' = [learnt EXCEPT ![c] = @ \cup {v}]
  /\ UNCHANGED <<truth, marked, msgs, running, losses>>

-----------------------------------------------------------------------------
\* Log::compute_link_gap as a set of versions: those below the maximum that are
\* not known.  The search for a known version may run over the end.
Gaps(c) == {v \in marked[c]..max[c] - 1 : ~KnownAt(c, v)}

\* Bug: everything up to the maximum is marked.
MarkAll(c) == max[c]

FirstUnknown(c) ==
  CHOOSE v \in marked[c]..Length(c) : ~KnownAt(c, v) /\ \A u \in marked[c]..v - 1 : KnownAt(c, u)
SearchEnds(c) == max[c] < Length(c) /\ \E v \in max[c] - 1..Length(c) - 1 : ~KnownAt(c, v)

Halt ==
  /\ running' = FALSE
  /\ UNCHANGED <<truth, heard, log, marked, size, max, msgs, learnt, losses>>

\* No request of c or answer to one travels: gossip is sent seldom.
Answered(c) ==
  \A m \in msgs : ~(m.type = "GOSSIP" /\ m.src = c) /\ ~(m.type = "GOSSIP_REP" /\ m.dst = c)

\* Controller::send_gossip_request; the flood may come back to c itself.
SendGossip(c) ==
  /\ running /\ Answered(c)
  /\ IF marked[c] < max[c] /\ ~SearchEnds(c) THEN Halt
     ELSE /\ marked' = [marked EXCEPT ![c] = IF @ < max[c] THEN FirstUnknown(c) ELSE @]
          /\ msgs' = msgs \cup {[type |-> "GOSSIP", src |-> c, dst |-> d, max |-> max[c], gaps |-> Gaps(c)] : d \in Controllers}
          /\ UNCHANGED <<truth, heard, log, size, max, running, learnt, losses>>

\* Bug: gaps are not answered.
WantedNew(c, m) == {v \in m.max..max[c] : m.max < max[c]}

\* Log::compute_response: what controller c knows from the request's maximum on,
\* if its own is larger, and in the request's gaps, below its own maximum.
Wanted(c, m) ==
  {v \in m.max..max[c] : m.max < max[c]} \cup {v \in m.gaps : v < max[c]}
Response(c, m) == {[version |-> v, state |-> At(c, v).state] : v \in {w \in Wanted(c, m) : KnownAt(c, w)}}

\* Controller::handle_gossip
HandleGossip(c, m) ==
  /\ running /\ m.type = "GOSSIP" /\ m.dst = c
  /\ IF \E v \in Wanted(c, m) : v >= Length(c) THEN Halt
     ELSE /\ msgs' = (msgs \ {m}) \cup
                       {r \in {[type |-> "GOSSIP_REP", src |-> c, dst |-> m.src, entries |-> Response(c, m)]} : r.entries # {}}
          /\ UNCHANGED <<truth, heard, log, marked, size, max, running, learnt, losses>>

\* Bug: entries are merged at the place after their own.
MergedLate(c, entries) ==
  [i \in DOMAIN log[c] |->
     IF ~log[c][i].known /\ \E e \in entries : e.version + 2 = i
     THEN Known((CHOOSE e \in entries : e.version + 2 = i).state) ELSE log[c][i]]

\* Log::merge_logs: entries fill blanks and never overwrite.
Merged(c, entries) ==
  [i \in DOMAIN log[c] |->
     IF ~log[c][i].known /\ \E e \in entries : e.version + 1 = i
     THEN Known((CHOOSE e \in entries : e.version + 1 = i).state) ELSE log[c][i]]

\* Bug: the maximum counts the entries.
NewMaxCounts(c, new) == max[c] + Cardinality(new)

NewMax(c, new) == CHOOSE n \in new \cup {max[c]} : \A v \in new \cup {max[c]} : v <= n

\* Controller::handle_gossip_rep
HandleGossipRep(c, m) ==
  /\ running /\ m.type = "GOSSIP_REP" /\ m.dst = c
  /\ LET told == {e.version : e \in m.entries}
         new == {v \in told : ~KnownAt(c, v)}
     IN IF \E v \in told : v >= Length(c) THEN Halt
        ELSE /\ log' = [log EXCEPT ![c] = Merged(c, m.entries)]
             /\ max' = [max EXCEPT ![c] = NewMax(c, new)]
             /\ learnt' = [learnt EXCEPT ![c] = @ \cup told]
             /\ msgs' = msgs \ {m}
             /\ UNCHANGED <<truth, heard, marked, size, running, losses>>

Lose(m) ==
  /\ running /\ losses < MaxLoss
  /\ losses' = losses + 1
  /\ msgs' = msgs \ {m}
  /\ UNCHANGED <<truth, heard, log, marked, size, max, running, learnt>>

Next ==
  \/ \E s \in State : Change(s)
  \/ \E c \in Controllers, v \in DOMAIN truth : Learn(c, v)
  \/ \E c \in Controllers : SendGossip(c)
  \/ \E c \in Controllers, m \in msgs : HandleGossip(c, m)
  \/ \E c \in Controllers, m \in msgs : HandleGossipRep(c, m)
  \/ \E m \in msgs : Lose(m)

Spec == Init /\ [][Next]_vars

\* The gossip timers are rearmed each time they fire, and messages that are not
\* lost arrive.
Fairness ==
  \A c \in Controllers :
    /\ WF_vars(SendGossip(c))
    /\ \A d \in Controllers :
         /\ WF_vars(\E m \in msgs : m.src = d /\ HandleGossip(c, m))
         /\ WF_vars(\E m \in msgs : m.src = d /\ HandleGossipRep(c, m))

FairSpec == Spec /\ Fairness
=============================================================================
