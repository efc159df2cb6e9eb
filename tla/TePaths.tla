------------------------------ MODULE TePaths -------------------------------
(***************************************************************************)
(* TeController::compute_paths (te_controller.cc): a loop over pairs of    *)
(* hosts that counts the signatures on each direction of a link, closes a  *)
(* direction that reaches its limit, and then asks for the shortest path   *)
(* again while it is still installing the hops of the previous one.        *)
(*                                                                         *)
(* Start and Finish are the beginning and the end of a computation, Begin  *)
(* takes the next pair of hosts, Hop is one pass of the loop over k.       *)
(***************************************************************************)
EXTENDS Routing

CONSTANTS MaxLoad,     \* _maxLoad
          Vertices,    \* _ivertices: the switches in the order of the loops
          HostOrders,  \* orders the lists of _hostAtSwitch may have
          Views,       \* the links the controller may believe to be up
          MaxRuns      \* bound: computations in a behaviour

ASSUME TeAssumption ==
  /\ MaxLoad \in Nat \ {0} /\ MaxRuns \in Nat
  /\ Vertices \in Seq(Switches) /\ \A s \in Switches : \E i \in DOMAIN Vertices : Vertices[i] = s
  /\ \A o \in HostOrders : o \in Seq(Endpoints) /\ \A h \in Endpoints : \E i \in DOMAIN o : o[i] = h
  /\ Views \subseteq SUBSET Links

VARIABLES running,  \* a computation is under way
          runs,     \* computations so far
          order,    \* the order of the hosts in this computation
          left,     \* signatures still to do
          cur,      \* psig, the signature being done
          path,     \* path, from which the hops are read
          k,        \* k, from 1 on
          edges,    \* workingCopy: the directions of links still open
          load,     \* linkUtilization
          table,    \* new_table
          db,       \* _flowDb
          diffs,    \* diffs
          removed,  \* diffs_negative
          old,      \* history: _flowDb when the computation began
          mixed     \* history: signatures whose path was computed again

vars == <<running, runs, order, left, cur, path, k, edges, load, table, db, diffs, removed, old, mixed>>

NoSig == <<>>

\* Directions of the links between switches.
Edges(up) == {e \in Switches \X Switches : \E l \in up : Ends[l] = {e[1], e[2]} /\ e[1] # e[2]}

\* igraph_get_shortest_path on a directed graph: some shortest path, or an empty one.
Paths(es, s, t, n) ==
  {p \in [1..n -> Switches] : p[1] = s /\ p[n] = t /\ \A i \in 1..n - 1 : <<p[i], p[i + 1]>> \in es}

Routes(es, s, t) ==
  LET found == {n \in 1..Cardinality(Switches) : Paths(es, s, t, n) # {}}
  IN IF found = {} THEN {<<>>}
     ELSE UNION {Paths(es, s, t, n) : n \in {m \in found : \A j \in found : m <= j}}

\* Bug: the path is computed once for all destinations of a switch.
SwitchPairSource(sig) == <<SwitchOf(sig[1])>>

SwitchPair(sig) == <<SwitchOf(sig[1]), SwitchOf(sig[2])>>

\* The nested loops run over switches, then over the hosts of the two switches.
IndexIn(seq, x) == CHOOSE i \in DOMAIN seq : seq[i] = x
LoopIndex(sig) ==
  LET n == Cardinality(Nodes) + 1
  IN ((IndexIn(Vertices, SwitchOf(sig[1])) * n + IndexIn(Vertices, SwitchOf(sig[2]))) * n
       + IndexIn(order, sig[1])) * n + IndexIn(order, sig[2])

-----------------------------------------------------------------------------
\* Signatures between hosts whose links are up: those of _hostAtSwitch.
Attached(up) == {sig \in Sigs : {AccessLink(sig[1]), AccessLink(sig[2])} \subseteq up}

Init ==
  /\ running = FALSE /\ runs = 0 /\ order = <<>>
  /\ left = {} /\ cur = NoSig /\ path = <<>> /\ k = 1
  /\ edges = {} /\ load = [e \in Edges(Links) |-> 0]
  /\ table = {} /\ db = {} /\ diffs = {} /\ removed = {} /\ old = {} /\ mixed = {}

\* Lines 16-40, for the links that add_link and remove_link made known.
Start(up, o) ==
  /\ ~running /\ runs < MaxRuns
  /\ running' = TRUE /\ runs' = runs + 1 /\ order' = o
  /\ left' = Attached(up) /\ cur' = NoSig /\ path' = <<>> /\ k' = 1
  /\ edges' = Edges(up) /\ load' = [e \in Edges(Links) |-> 0]
  /\ table' = {} /\ diffs' = {} /\ removed' = {} /\ old' = db /\ mixed' = {}
  /\ UNCHANGED db

\* Lines 42-65: the path is computed once for a pair of switches and used, with
\* all that happens to it, for every pair of their hosts.
Begin(sig) ==
  /\ running /\ k > Len(path)
  /\ sig \in left /\ \A q \in left : LoopIndex(sig) <= LoopIndex(q)
  /\ left' = left \ {sig} /\ cur' = sig /\ k' = 1
  /\ IF cur # NoSig /\ SwitchPair(cur) = SwitchPair(sig)
     THEN path' = path
     ELSE path' \in Routes(edges, SwitchOf(sig[1]), SwitchOf(sig[2]))
  /\ UNCHANGED <<running, runs, order, edges, load, table, db, diffs, removed, old, mixed>>

\* A rule replaces the one with the same switch and signature.
SameKey(r, q) == r.sw = q.sw /\ r.sig = q.sig

\* Bug: the other rule is kept.
PutAdds(rules, r) == {r} \cup rules

Put(rules, r) == {r} \cup {q \in rules : ~SameKey(q, r)}

\* Bug: only a missing rule is told, not a different one.
ToldMissing(r) == ~\E q \in db : SameKey(q, r)

Told(r) == r \notin db

\* Bug: a direction closes one signature too late.
FullLate(n) == n > MaxLoad
Full(n) == n >= MaxLoad

\* Bug: the path is only computed again when there was no way left.
RecomputedKeeps(es) == {path}

\* Bug: the new path goes on from the switch that was reached.
RecomputedHere(es) ==
  {SubSeq(path, 1, k - 1) \o p : p \in Routes(es, path[k], SwitchOf(cur[2]))}

Recomputed(es) == Routes(es, SwitchOf(cur[1]), SwitchOf(cur[2]))

\* Lines 67-109 for one k, and 120-133 for two hosts of one switch.  Once a path
\* was computed again, recomputed stays set: asking again at the next hop, with no
\* edge deleted in between, gives the same path.
Hop ==
  /\ running /\ k <= Len(path)
  /\ LET inner == k < Len(path)
         e == <<path[k], path[k + 1]>>
         closed == inner /\ Full(load[e] + 1)
         r == [sw |-> path[k], sig |-> cur,
               link |-> IF inner THEN LinkBetween(path[k], path[k + 1]) ELSE AccessLink(cur[2])]
     IN /\ load' = IF inner THEN [load EXCEPT ![e] = @ + 1] ELSE load
        /\ edges' = IF closed THEN edges \ {e} ELSE edges
        /\ table' = Put(table, r)
        /\ db' = IF r \notin db THEN Put(db, r) ELSE db
        /\ diffs' = IF Told(r) THEN Put(diffs, r) ELSE diffs
        /\ IF closed THEN path' \in Recomputed(edges') /\ mixed' = mixed \cup {cur}
                     ELSE path' = path /\ mixed' = mixed
        /\ k' = k + 1
  /\ UNCHANGED <<running, runs, order, left, cur, removed, old>>

\* Lines 142-154: what is in _flowDb and not in new_table is to be deleted.
Finish ==
  /\ running /\ k > Len(path) /\ left = {}
  /\ running' = FALSE
  /\ removed' = {q \in db : ~\E r \in table : SameKey(r, q)}
  /\ db' = table
  /\ UNCHANGED <<runs, order, left, cur, path, k, edges, load, table, diffs, old, mixed>>

Next ==
  \/ \E up \in Views, o \in HostOrders : Start(up, o)
  \/ \E sig \in left : Begin(sig)
  \/ Hop
  \/ Finish

Spec == Init /\ [][Next]_vars
=============================================================================
