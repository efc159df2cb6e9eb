--------------------------- MODULE RoutingLemmas ----------------------------
(***************************************************************************)
(* Facts about topologies and routes that several of the proof modules     *)
(* use.                                                                    *)
(***************************************************************************)
EXTENDS Routing, ListLemmas

\* The switches can be counted.
LEMMA SwitchesFinite == Cardinality(Switches) \in Nat
<1>1. Switches \in SUBSET Nodes /\ IsFiniteSet(Nodes)
  BY TopologyAssumption DEF Nodes
<1>2. IsFiniteSet(Switches)
  BY <1>1, FS_Subset
<1> QED
  BY <1>2, FS_CardinalityType

\* The access link of an end host is its only link.
LEMMA AccessLinkType ==
  ASSUME NEW h \in Endpoints
  PROVE  /\ AccessLink(h) \in Links /\ h \in Ends[AccessLink(h)]
         /\ \A l \in Links : h \in Ends[l] => l = AccessLink(h)
<1>1. Cardinality({l \in Links : h \in Ends[l]}) = 1
  BY TopologyAssumption
<1>2. IsFiniteSet({l \in Links : h \in Ends[l]})
  BY TopologyAssumption, FS_Subset
<1>3. PICK k : {l \in Links : h \in Ends[l]} = {k}
  BY <1>1, <1>2, FS_Singleton
<1> QED
  BY <1>3 DEF AccessLink

\* A link has a switch at one end at least, so one end host at most.
LEMMA OneEndHost ==
  ASSUME NEW l \in Links
  PROVE  /\ Ends[l] \subseteq Nodes
         /\ \A m, n \in Ends[l] : m \notin Switches /\ n \notin Switches => m = n
         /\ ~ Ends[l] \subseteq Switches => \E h \in Ends[l] : h \in Endpoints
<1>1. Ends[l] \in SUBSET Nodes /\ Cardinality(Ends[l]) = 2 /\ Ends[l] \cap Switches # {}
  BY TopologyAssumption
<1>2. IsFiniteSet(Ends[l])
  BY <1>1, TopologyAssumption, FS_Subset
<1>3. PICK s \in Ends[l] : s \in Switches
  BY <1>1
<1>4. IsFiniteSet(Ends[l] \ {s}) /\ Cardinality(Ends[l] \ {s}) = 1
  BY <1>1, <1>2, FS_RemoveElement
<1>5. PICK m : Ends[l] \ {s} = {m}
  BY <1>4, FS_Singleton
<1> QED
  BY <1>1, <1>3, <1>5 DEF Nodes

\* A link of up connects the k-th switch of a walk to the next.
Linked(up, p, k) == \E l \in up : Ends[l] = {p[k], p[k + 1]}

\* A walk over switches that visits none twice.
SimpleWalk(up, p) ==
  /\ Len(p) \in Nat \ {0} /\ DOMAIN p = 1..Len(p)
  /\ \A k \in DOMAIN p : p[k] \in Switches
  /\ \A k \in 1..Len(p) - 1 : Linked(up, p, k)
  /\ \A i, j \in DOMAIN p : p[i] = p[j] => i = j

\* A shortest walk visits no switch twice: leaving out what lies between the two
\* visits would make it shorter.
LEMMA ShortestSimple ==
  ASSUME NEW up \in SUBSET Links, NEW s, NEW t, NEW p \in Shortest(up, s, t)
  PROVE  SimpleWalk(up, p)
<1>1. PICK n \in 1..Cardinality(Switches) : p \in Walks(up, s, t, n)
                                           /\ \A j \in 1..n - 1 : Walks(up, s, t, j) = {}
  BY DEF Shortest
<1>2. /\ n \in Nat \ {0} /\ p \in [1..n -> Switches] /\ p[1] = s /\ p[n] = t
      /\ \A k \in 1..n - 1 : Linked(up, p, k)
  <2>1. n \in Nat \ {0}
    BY SwitchesFinite
  <2>2. /\ p \in [1..n -> Switches] /\ p[1] = s /\ p[n] = t
        /\ \A k \in 1..n - 1 : \E l \in up : Ends[l] = {p[k], p[k + 1]}
    BY <1>1, Zenon DEF Walks
  <2> QED
    BY <2>1, <2>2, Zenon DEF Linked
<1>3. Len(p) = n
  BY <1>2, SeqDef, LenProperties
<1>4. ASSUME NEW i \in 1..n, NEW j \in 1..n, i < j, p[i] = p[j]
      PROVE  FALSE
  <2> DEFINE d == j - i
             q == [k \in 1..n - d |-> IF k <= i THEN p[k] ELSE p[k + d]]
  <2>1. d \in 1..n - 1 /\ n - d \in 1..n - 1 /\ i \in 1..n - d
    BY <1>2, <1>4
  <2>2. \A k \in 1..n - d : q[k] = IF k <= i THEN p[k] ELSE p[k + d]
    OBVIOUS
  <2>3. \A k \in 1..n - d : k \in 1..n /\ (k > i => k + d \in 1..n)
    BY <1>2, <2>1
  <2>4. q \in [1..n - d -> Switches]
    BY <1>2, <2>3
  <2>5. q[1] = s
    BY <1>2, <2>1, <2>2
  <2>6. q[n - d] = t
    <3>1. CASE j = n
      <4>1. n - d = i
        BY <1>2, <3>1
      <4> QED
        BY <1>2, <1>4, <2>1, <2>2, <3>1, <4>1
    <3>2. CASE j # n
      <4>1. n - d > i /\ (n - d) + d = n
        BY <1>2, <1>4, <3>2
      <4> QED
        BY <1>2, <2>1, <2>2, <4>1
    <3> QED
      BY <3>1, <3>2
  <2>7. ASSUME NEW k \in 1..(n - d) - 1
        PROVE  Linked(up, q, k)
    <3>0. k \in 1..n - d /\ k + 1 \in 1..n - d
      BY <2>1, <2>7
    <3>1. CASE k < i
      <4>1. q[k] = p[k] /\ q[k + 1] = p[k + 1] /\ k \in 1..n - 1
        BY <2>1, <2>2, <3>0, <3>1
      <4> QED
        BY <1>2, <4>1 DEF Linked
    <3>2. CASE k = i
      <4>1. q[k] = p[j] /\ q[k + 1] = p[j + 1] /\ j \in 1..n - 1
        <5>1. (k + 1) + d = j + 1 /\ j < n /\ ~ (k + 1 <= i) /\ k <= i
          BY <1>2, <2>1, <2>7, <3>2
        <5> QED
          BY <1>2, <1>4, <2>2, <3>0, <3>2, <5>1
      <4> QED
        BY <1>2, <4>1 DEF Linked
    <3>3. CASE k > i
      <4>1. q[k] = p[k + d] /\ q[k + 1] = p[(k + d) + 1] /\ k + d \in 1..n - 1
        <5>1. (k + 1) + d = (k + d) + 1 /\ ~ (k <= i) /\ ~ (k + 1 <= i) /\ k + d \in 1..n - 1
          BY <1>2, <2>1, <2>7, <3>3
        <5> QED
          BY <2>2, <3>0, <5>1
      <4> QED
        BY <1>2, <4>1 DEF Linked
    <3>4. k < i \/ k = i \/ k > i
      BY <2>1, <2>7
    <3> QED
      BY <3>1, <3>2, <3>3, <3>4
  <2> HIDE DEF q
  <2>8. q \in Walks(up, s, t, n - d)
    BY <2>4, <2>5, <2>6, <2>7, Zenon DEF Walks, Linked
  <2> QED
    BY <1>1, <2>1, <2>8
<1>5. \A i, j \in 1..n : p[i] = p[j] => i = j
  BY <1>2, <1>4
<1> QED
  BY <1>2, <1>3, <1>5 DEF SimpleWalk

\* The path of a signature visits no switch twice, and there is one at most.
LEMMA PathType ==
  ASSUME NEW up \in SUBSET Links, NEW sig \in Sigs, NEW p \in PathOf(up, sig)
  PROVE  /\ SimpleWalk(up, p)
         /\ \A q \in PathOf(up, sig) : q = p
<1> DEFINE s == SwitchOf(sig[1])
           t == SwitchOf(sig[2])
<1>1. PathOf(up, sig) \subseteq ShortestPath(up, s, t)
  BY DEF PathOf
<1> HIDE DEF s, t
<1>2. Connected(up, s, t) /\ ShortestPath(up, s, t) = {CHOOSE q \in Shortest(up, s, t) : TRUE}
  BY <1>1 DEF ShortestPath
<1>3. p \in Shortest(up, s, t)
  BY <1>1, <1>2 DEF Connected
<1>4. SimpleWalk(up, p)
  BY <1>3, ShortestSimple
<1> QED
  BY <1>1, <1>2, <1>4

\* The rules of one signature: at most one for a switch.
LEMMA RulesOfType ==
  ASSUME NEW up \in SUBSET Links, NEW sig \in Sigs
  PROVE  /\ RulesOf(up, sig) \subseteq Rule
         /\ \A r \in RulesOf(up, sig) : r.sig = sig
         /\ \A r, q \in RulesOf(up, sig) : r.sw = q.sw => r = q
<1> DEFINE link(p, k) == IF k < Len(p) THEN LinkBetween(p[k], p[k + 1]) ELSE AccessLink(sig[2])
           rule(p, k) == [sw |-> p[k], sig |-> sig, link |-> link(p, k)]
<1>1. RulesOf(up, sig) = UNION {{rule(p, k) : k \in DOMAIN p} : p \in PathOf(up, sig)}
  BY DEF RulesOf
<1>2. ASSUME NEW p \in PathOf(up, sig), NEW k \in DOMAIN p
      PROVE  p[k] \in Switches /\ link(p, k) \in Links
  <2>2. /\ Len(p) \in Nat \ {0} /\ k \in 1..Len(p) /\ p[k] \in Switches
        /\ \A i \in 1..Len(p) - 1 : Linked(up, p, i)
    BY <1>2, PathType DEF SimpleWalk
  <2>3. CASE k < Len(p)
    <3>0. k \in 1..Len(p) - 1
      BY <2>2, <2>3
    <3>1. PICK l \in Links : Ends[l] = {p[k], p[k + 1]}
      BY <2>2, <3>0 DEF Linked
    <3> QED
      BY <1>2, <2>2, <2>3, <3>1 DEF LinkBetween
  <2>4. CASE ~ (k < Len(p))
    BY <1>2, <2>2, <2>4, AccessLinkType DEF Sigs
  <2> QED
    BY <2>3, <2>4
<1>3. ASSUME NEW p \in PathOf(up, sig), NEW i \in DOMAIN p, NEW j \in DOMAIN p, p[i] = p[j]
      PROVE  i = j
  BY <1>3, PathType DEF SimpleWalk
<1> HIDE DEF link
<1>4. RulesOf(up, sig) \subseteq Rule /\ \A r \in RulesOf(up, sig) : r.sig = sig
  BY <1>1, <1>2 DEF Rule
<1>5. ASSUME NEW r \in RulesOf(up, sig), NEW q \in RulesOf(up, sig), r.sw = q.sw
      PROVE  r = q
  <2>1. PICK p \in PathOf(up, sig) : \E k \in DOMAIN p : r = rule(p, k)
    BY <1>1
  <2>2. PICK o \in PathOf(up, sig) : \E k \in DOMAIN o : q = rule(o, k)
    BY <1>1
  <2>3. o = p
    BY PathType
  <2>4. PICK i, j \in DOMAIN p : r = rule(p, i) /\ q = rule(p, j)
    BY <2>1, <2>2, <2>3
  <2> QED
    BY <1>3, <1>5, <2>4
<1> QED
  BY <1>4, <1>5

\* What compute_paths computes is a table.
LEMMA NewTableIsTable ==
  ASSUME NEW up \in SUBSET Links
  PROVE  IsTable(NewTable(up))
<1>1. NewTable(up) \subseteq Rule
  BY RulesOfType DEF NewTable
<1>2. ASSUME NEW r \in NewTable(up), NEW q \in NewTable(up), r.sw = q.sw, r.sig = q.sig
      PROVE  r = q
  <2>1. PICK sig \in Sigs : r \in RulesOf(up, sig)
    BY DEF NewTable
  <2>2. PICK sog \in Sigs : q \in RulesOf(up, sog)
    BY DEF NewTable
  <2>3. r.sig = sig /\ q.sig = sog
    BY <2>1, <2>2, RulesOfType
  <2> QED
    BY <1>2, <2>1, <2>2, <2>3, RulesOfType
<1> QED
  BY <1>1, <1>2 DEF IsTable

\* A part of a table is a table.
LEMMA PartIsTable ==
  ASSUME NEW rules, IsTable(rules), NEW part \in SUBSET rules
  PROVE  IsTable(part)
BY DEF IsTable

-----------------------------------------------------------------------------
\* Walks and connected parts of the network.

\* No link of up leads from a switch in A to one that is not.
Closed(up, A) == \A l \in up : \A x, y \in Switches : Ends[l] = {x, y} /\ x \in A => y \in A

\* A walk does not leave a connected part of the network.
LEMMA WalkStays ==
  ASSUME NEW up, NEW A, Closed(up, A), NEW n \in Nat, NEW p \in [1..n -> Switches],
         NEW i \in 1..n, NEW j \in 1..n, i <= j, \A k \in i..j - 1 : Linked(up, p, k)
  PROVE  p[i] \in A <=> p[j] \in A
<1> DEFINE T == {k \in Nat : k \in i..j /\ ~ (p[k] \in A <=> p[i] \in A)}
<1>1. SUFFICES ASSUME T # {} PROVE FALSE
  <2>1. j \in T \/ (p[j] \in A <=> p[i] \in A)
    OBVIOUS
  <2> QED
    BY <1>1, <2>1
<1>2. PICK m \in T : \A k \in T : m <= k
  <2>1. T \in SUBSET Nat
    OBVIOUS
  <2> HIDE DEF T
  <2> QED
    BY <1>1, <2>1, LeastNumber
<1>3. m - 1 \in i..j - 1 /\ m - 1 \notin T /\ m - 1 \in Nat /\ m \in 1..n /\ m - 1 \in 1..n
  BY <1>2
<1>4. PICK l \in up : Ends[l] = {p[m - 1], p[m]}
  <2>1. (m - 1) + 1 = m
    BY <1>3
  <2> QED
    BY <1>3, <2>1 DEF Linked
<1>5. p[m - 1] \in Switches /\ p[m] \in Switches /\ Ends[l] = {p[m], p[m - 1]}
  BY <1>3, <1>4
<1>6. p[m - 1] \in A <=> p[m] \in A
  BY <1>4, <1>5 DEF Closed
<1> QED
  BY <1>2, <1>3, <1>6

\* A walk, with the facts above in mind.
LEMMA WalkType ==
  ASSUME NEW up, NEW s, NEW t, NEW n \in Nat, NEW p \in Walks(up, s, t, n)
  PROVE  p \in [1..n -> Switches] /\ p[1] = s /\ p[n] = t /\ \A k \in 1..n - 1 : Linked(up, p, k)
BY Zenon DEF Walks, Linked

\* The shortest walks all have the length of the first.
LEMMA ShortestAt ==
  ASSUME NEW up, NEW s, NEW t, NEW n \in 1..Cardinality(Switches), Walks(up, s, t, n) # {},
         \A j \in 1..n - 1 : Walks(up, s, t, j) = {}
  PROVE  Shortest(up, s, t) = Walks(up, s, t, n)
<1> DEFINE Ns == {m \in 1..Cardinality(Switches) : \A j \in 1..m - 1 : Walks(up, s, t, j) = {}}
<1>1. \A m \in Ns : m = n \/ Walks(up, s, t, m) = {}
  <2>1. SUFFICES ASSUME NEW m \in Ns, m # n PROVE Walks(up, s, t, m) = {}
    OBVIOUS
  <2>2. m \in 1..n - 1 \/ n \in 1..m - 1
    BY <2>1, SwitchesFinite
  <2> QED
    BY <2>2
<1>2. n \in Ns /\ Shortest(up, s, t) = UNION {Walks(up, s, t, m) : m \in Ns}
  BY DEF Shortest
<1> HIDE DEF Ns
<1> QED
  BY <1>1, <1>2

\* Two connected switches have a shortest distance.
LEMMA DistanceFound ==
  ASSUME NEW up, NEW s, NEW t, NEW n \in 1..Cardinality(Switches), Walks(up, s, t, n) # {}
  PROVE  \E m \in 1..Cardinality(Switches) :
           m <= n /\ Walks(up, s, t, m) # {} /\ \A j \in 1..m - 1 : Walks(up, s, t, j) = {}
<1> DEFINE T == {m \in Nat : m \in 1..n /\ Walks(up, s, t, m) # {}}
<1>1. n \in T /\ T \in SUBSET Nat
  BY SwitchesFinite
<1>2. PICK m \in T : \A j \in T : m <= j
  <2> HIDE DEF T
  <2> QED
    BY <1>1, LeastNumber
<1>3. m \in 1..n /\ Walks(up, s, t, m) # {} /\ m \in 1..Cardinality(Switches) /\ m <= n
  BY <1>2, SwitchesFinite
<1>4. ASSUME NEW j \in 1..m - 1 PROVE Walks(up, s, t, j) = {}
  <2>1. j \in Nat /\ j \in 1..n /\ ~ (m <= j)
    BY <1>3, SwitchesFinite
  <2> QED
    BY <1>2, <2>1
<1> QED
  BY <1>3, <1>4

LEMMA ConnectedWalk ==
  ASSUME NEW up, NEW s, NEW t, Connected(up, s, t)
  PROVE  \E n \in 1..Cardinality(Switches) :
           /\ Walks(up, s, t, n) # {} /\ \A j \in 1..n - 1 : Walks(up, s, t, j) = {}
           /\ Shortest(up, s, t) = Walks(up, s, t, n)
<1>1. PICK n \in 1..Cardinality(Switches) :
        Walks(up, s, t, n) # {} /\ \A j \in 1..n - 1 : Walks(up, s, t, j) = {}
  BY DEF Connected, Shortest
<1> QED
  BY <1>1, ShortestAt

\* In a whole network every switch stays connected to an end of a link that fails.
LEMMA NearEnd ==
  ASSUME WholeNetwork, NEW l \in Links, NEW x \in Switches
  PROVE  \E e \in Ends[l] \cap Switches : \A A : Closed(Links \ {l}, A) => (x \in A <=> e \in A)
<1>1. PICK f \in Ends[l] : f \in Switches
  BY TopologyAssumption
<1>2. PICK n \in 1..Cardinality(Switches) : Walks(Links, x, f, n) # {}
  BY <1>1, ConnectedWalk DEF WholeNetwork
<1>3. PICK p : p \in Walks(Links, x, f, n)
  BY <1>2
<1>4. /\ n \in Nat /\ p \in [1..n -> Switches] /\ p[1] = x /\ p[n] = f
      /\ \A k \in 1..n - 1 : Linked(Links, p, k)
  BY <1>3, SwitchesFinite, WalkType
<1> DEFINE T == {k \in Nat : k \in 1..n /\ p[k] \in Ends[l]}
<1>5. n \in T /\ T \in SUBSET Nat
  BY <1>1, <1>2, <1>4
<1>6. PICK m \in T : \A k \in T : m <= k
  <2> HIDE DEF T
  <2> QED
    BY <1>5, LeastNumber
<1>7. m \in 1..n /\ p[m] \in Ends[l] \cap Switches /\ 1 \in 1..n /\ 1 <= m
  BY <1>4, <1>6
<1>8. \A k \in 1..m - 1 : Linked(Links \ {l}, p, k)
  <2>1. SUFFICES ASSUME NEW k \in 1..m - 1 PROVE Linked(Links \ {l}, p, k)
    OBVIOUS
  <2>2. k \in 1..n - 1 /\ k \in Nat /\ k \in 1..n /\ ~ (m <= k)
    BY <1>4, <1>7
  <2>3. p[k] \notin Ends[l]
    BY <1>6, <2>2
  <2>4. PICK j \in Links : Ends[j] = {p[k], p[k + 1]}
    BY <1>4, <2>2 DEF Linked
  <2>5. j # l
    BY <2>3, <2>4
  <2> QED
    BY <2>4, <2>5 DEF Linked
<1>9. ASSUME NEW A, Closed(Links \ {l}, A) PROVE x \in A <=> p[m] \in A
  BY <1>4, <1>7, <1>8, <1>9, WalkStays
<1> QED
  BY <1>7, <1>9

\* When the failure of link l changes a rule, other links connect its ends: all
\* shortest walks that do not use l are as they were, and one that uses it can be
\* walked without it up to its first end and from its other end on.
LEMMA Rerouted ==
  ASSUME NEW l \in Links, NEW r \in NewTable(Links \ {l}), r \notin NewTable(Links)
  PROVE  \E x, y \in Switches :
           Ends[l] = {x, y} /\ \A A : Closed(Links \ {l}, A) => (x \in A <=> y \in A)
<1> DEFINE rest == Links \ {l}
<1>1. PICK sig \in Sigs : r \in RulesOf(rest, sig) /\ r \notin RulesOf(Links, sig)
  BY DEF NewTable
<1> DEFINE s == SwitchOf(sig[1])
           t == SwitchOf(sig[2])
<1>2. PathOf(rest, sig) # PathOf(Links, sig) /\ PathOf(rest, sig) # {}
  BY <1>1 DEF RulesOf
<1>3. {AccessLink(sig[1]), AccessLink(sig[2])} \subseteq rest /\ rest \subseteq Links
  BY <1>2 DEF PathOf
<1>4. ShortestPath(rest, s, t) # ShortestPath(Links, s, t) /\ Connected(rest, s, t)
  BY <1>2, <1>3 DEF PathOf, ShortestPath
<1>5. Shortest(rest, s, t) # Shortest(Links, s, t)
  BY <1>4 DEF ShortestPath, Connected
<1> HIDE DEF s, t
<1>6. PICK n \in 1..Cardinality(Switches) : Walks(rest, s, t, n) # {}
  BY <1>4, ConnectedWalk
<1>7. \A j \in Nat : Walks(rest, s, t, j) \subseteq Walks(Links, s, t, j)
  BY <1>3 DEF Walks
<1>8. PICK m \in 1..Cardinality(Switches) :
        Walks(Links, s, t, m) # {} /\ \A j \in 1..m - 1 : Walks(Links, s, t, j) = {}
  <2>1. n \in Nat
    BY SwitchesFinite
  <2>2. Walks(Links, s, t, n) # {}
    BY <1>6, <1>7, <2>1
  <2> QED
    BY <2>2, DistanceFound
<1>9. m \in Nat \ {0} /\ Shortest(Links, s, t) = Walks(Links, s, t, m)
  BY <1>8, ShortestAt, SwitchesFinite
<1>10. PICK q \in Walks(Links, s, t, m) : q \notin Walks(rest, s, t, m)
  <2>1. SUFFICES ASSUME Walks(Links, s, t, m) \subseteq Walks(rest, s, t, m) PROVE FALSE
    OBVIOUS
  <2>2. Walks(rest, s, t, m) = Walks(Links, s, t, m)
    BY <1>7, <1>9, <2>1
  <2>3. \A j \in 1..m - 1 : Walks(rest, s, t, j) = {}
    BY <1>7, <1>8, <1>9
  <2>4. Shortest(rest, s, t) = Walks(rest, s, t, m)
    <3>1. m \in 1..Cardinality(Switches) /\ Walks(rest, s, t, m) # {}
      BY <1>8, <2>2
    <3> QED
      BY <2>3, <3>1, ShortestAt
  <2> QED
    BY <1>5, <1>9, <2>2, <2>4
<1>11. q \in [1..m -> Switches] /\ q[1] = s /\ q[m] = t /\ \A k \in 1..m - 1 : Linked(Links, q, k)
  BY <1>9, WalkType
<1>12. PICK k \in 1..m - 1 : ~ Linked(rest, q, k)
  BY <1>10, <1>11, Zenon DEF Walks, Linked
<1>13. Ends[l] = {q[k], q[k + 1]}
  BY <1>11, <1>12 DEF Linked
<1>14. \A i, j \in 1..m : q[i] = q[j] => i = j
  <2>1. SimpleWalk(Links, q)
    BY <1>9, ShortestSimple
  <2> QED
    BY <1>11, <2>1 DEF SimpleWalk
<1>15. ASSUME NEW i \in 1..m - 1, i # k PROVE Linked(rest, q, i)
  <2>1. PICK j \in Links : Ends[j] = {q[i], q[i + 1]}
    BY <1>11 DEF Linked
  <2>2. j # l
    <3>1. i \in 1..m /\ i + 1 \in 1..m /\ k \in 1..m /\ k + 1 \in 1..m
      BY <1>9
    <3>2. SUFFICES ASSUME {q[i], q[i + 1]} = {q[k], q[k + 1]} PROVE FALSE
      BY <1>13, <2>1
    <3>3. q[i] = q[k + 1] /\ q[i + 1] = q[k]
      BY <1>14, <1>15, <3>1, <3>2
    <3>4. i = k + 1 /\ i + 1 = k
      BY <1>14, <3>1, <3>3
    <3> QED
      BY <3>1, <3>4
  <2> QED
    BY <2>1, <2>2 DEF Linked
<1>16. /\ k \in 1..m /\ k + 1 \in 1..m /\ 1 \in 1..m /\ m \in 1..m /\ 1 <= k /\ k + 1 <= m
       /\ \A i \in 1..k - 1 : i \in 1..m - 1 /\ i # k
       /\ \A i \in (k + 1)..m - 1 : i \in 1..m - 1 /\ i # k
  BY <1>9
<1>17. ASSUME NEW A, Closed(rest, A) PROVE q[k] \in A <=> q[k + 1] \in A
  <2>1. q[1] \in A <=> q[k] \in A
    BY <1>9, <1>11, <1>15, <1>16, <1>17, WalkStays
  <2>2. q[k + 1] \in A <=> q[m] \in A
    BY <1>9, <1>11, <1>15, <1>16, <1>17, WalkStays
  <2>3. s \in A <=> t \in A
    <3>1. PICK p : p \in Walks(rest, s, t, n)
      BY <1>6
    <3>2. n \in Nat \ {0}
      BY SwitchesFinite
    <3>3. p \in [1..n -> Switches] /\ p[1] = s /\ p[n] = t /\ \A i \in 1..n - 1 : Linked(rest, p, i)
      BY <3>1, <3>2, WalkType
    <3>4. 1 \in 1..n /\ n \in 1..n /\ 1 <= n
      BY <3>2
    <3>5. p[1] \in A <=> p[n] \in A
      BY <1>17, <3>2, <3>3, <3>4, WalkStays
    <3> QED
      BY <3>3, <3>5
  <2> QED
    BY <1>11, <2>1, <2>2, <2>3
<1>18. q[k] \in Switches /\ q[k + 1] \in Switches
  BY <1>11, <1>16
<1> QED
  BY <1>13, <1>17, <1>18
=============================================================================
