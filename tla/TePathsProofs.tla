--------------------------- MODULE TePathsProofs ----------------------------
(***************************************************************************)
(* Proofs about the paths with admission control, for every topology,      *)
(* every limit, every order of the hosts and every shortest path that      *)
(* igraph may return: a hop that is closed exists, no direction of a link  *)
(* is given to more signatures than the limit, the differences that are    *)
(* returned turn the old tables into the new ones, hops of paths that are  *)
(* computed again never meet, and the other paths arrive.                  *)
(***************************************************************************)
EXTENDS TePathsProps, RoutingLemmas

\* The rules of o, where the rules of n replace those with the same key.
Over(o, n) == n \cup {q \in o : ~\E r \in n : SameKey(r, q)}

\* The rules that give direction e of a link to a signature.
Given(rules, e) == {r \in rules : r.sw = e[1] /\ r.link = LinkBetween(e[1], e[2])}

\* Every hop of the path is open, those already taken in an earlier pass included.
AllOpen == \A i \in DOMAIN path : i < Len(path) => <<path[i], path[i + 1]>> \in edges

\* linkUtilization is never below the number of rules, because a rule is only
\* put for an edge that is counted; an open edge is below the limit.
LoadCounts ==
  \A e \in Edges(Links) :
    /\ Cardinality(Given(table, e)) <= load[e] /\ load[e] <= MaxLoad
    /\ e \in edges => load[e] < MaxLoad

\* _flowDb while it is overwritten: the old rules under the new ones, and just as
\* well under those that were told.
DbMerged == running => db = Over(old, table) /\ db = Over(old, diffs)

\* The inductive invariant.
IInv ==
  /\ TypeOK /\ IsFiniteSet(table) /\ (path # <<>> => cur \in Sigs)
  /\ AllOpen /\ LoadCounts /\ DbMerged /\ DiffFixes

-----------------------------------------------------------------------------
\* Links and paths.

LEMMA LinkBetweenType ==
  ASSUME NEW e \in Edges(Links)
  PROVE  /\ LinkBetween(e[1], e[2]) \in Links
         /\ Ends[LinkBetween(e[1], e[2])] = {e[1], e[2]}
         /\ e[1] \in Switches /\ e[2] \in Switches /\ e[1] # e[2] /\ e = <<e[1], e[2]>>
BY DEF Edges, LinkBetween

\* Two directions with the same link and the same first switch are the same.
LEMMA SameDirection ==
  ASSUME NEW e \in Edges(Links), NEW f \in Edges(Links), e[1] = f[1],
         LinkBetween(e[1], e[2]) = LinkBetween(f[1], f[2])
  PROVE  e = f
<1>1. {e[1], e[2]} = {f[1], f[2]}
  BY LinkBetweenType
<1>2. e[2] = f[2]
  BY <1>1, LinkBetweenType
<1> QED
  BY <1>2, LinkBetweenType

\* The access link of an end host is no link between switches.
LEMMA AccessIsNoDirection ==
  ASSUME NEW e \in Edges(Links), NEW h \in Endpoints
  PROVE  AccessLink(h) # LinkBetween(e[1], e[2])
BY LinkBetweenType, AccessLinkType, TopologyAssumption

\* A shortest path uses open edges only.
LEMMA RoutesOpen ==
  ASSUME NEW es, NEW s, NEW t, NEW p \in Routes(es, s, t)
  PROVE  /\ p \in Seq(Switches)
         /\ \A i \in DOMAIN p : i < Len(p) => <<p[i], p[i + 1]>> \in es
<1>1. CASE p = <<>>
  BY <1>1, EmptySeq
<1>2. CASE p # <<>>
  <2>1. PICK n \in 1..Cardinality(Switches) : p \in Paths(es, s, t, n)
    BY <1>2 DEF Routes
  <2>2. n \in Nat
    BY <2>1, SwitchesFinite
  <2>3. p \in [1..n -> Switches] /\ \A i \in 1..n - 1 : <<p[i], p[i + 1]>> \in es
    BY <2>1 DEF Paths
  <2>4. p \in Seq(Switches)
    BY <2>2, <2>3, SeqDef
  <2>5. Len(p) = n /\ DOMAIN p = 1..n
    BY <2>2, <2>3, <2>4, LenProperties
  <2> QED
    BY <2>2, <2>3, <2>4, <2>5
<1> QED
  BY <1>1, <1>2

-----------------------------------------------------------------------------
\* Tables.

LEMMA PutType ==
  ASSUME NEW rules, IsTable(rules), NEW r \in Rule
  PROVE  IsTable(Put(rules, r))
BY DEF IsTable, Put, SameKey

\* A rule that is there already replaces itself.
LEMMA PutAgain ==
  ASSUME NEW rules, IsTable(rules), NEW r \in rules
  PROVE  Put(rules, r) = rules
BY DEF IsTable, Put, SameKey

LEMMA OverPut ==
  ASSUME NEW o, NEW n, NEW r
  PROVE  Over(o, Put(n, r)) = Put(Over(o, n), r)
<1>1. ASSUME NEW q PROVE q \in Over(o, Put(n, r)) => q \in Put(Over(o, n), r)
  BY DEF Over, Put, SameKey
<1>2. ASSUME NEW q PROVE q \in Put(Over(o, n), r) => q \in Over(o, Put(n, r))
  BY DEF Over, Put, SameKey
<1> QED
  BY <1>1, <1>2

\* A rule for another direction adds nothing to this one, and any rule one at most.
LEMMA GivenPut ==
  ASSUME NEW rules, IsFiniteSet(rules), NEW r, NEW e
  PROVE  /\ IsFiniteSet(Put(rules, r))
         /\ Cardinality(Given(rules, e)) \in Nat /\ Cardinality(Given(Put(rules, r), e)) \in Nat
         /\ Cardinality(Given(Put(rules, r), e)) <= Cardinality(Given(rules, e)) + 1
         /\ ~(r.sw = e[1] /\ r.link = LinkBetween(e[1], e[2])) =>
              Cardinality(Given(Put(rules, r), e)) <= Cardinality(Given(rules, e))
<1>1. IsFiniteSet(Given(rules, e)) /\ Cardinality(Given(rules, e)) \in Nat
  BY FS_Subset, FS_CardinalityType DEF Given
<1>2. /\ IsFiniteSet(Given(rules, e) \cup {r})
      /\ Cardinality(Given(rules, e) \cup {r}) \in Nat
      /\ Cardinality(Given(rules, e) \cup {r}) <= Cardinality(Given(rules, e)) + 1
  <2> DEFINE T == Given(rules, e)
  <2>1. IsFiniteSet(T) /\ Cardinality(T) \in Nat
    BY <1>1
  <2> HIDE DEF T
  <2>2. /\ IsFiniteSet(T \cup {r})
        /\ Cardinality(T \cup {r}) = IF r \in T THEN Cardinality(T) ELSE Cardinality(T) + 1
    BY <2>1, FS_AddElement
  <2>3. /\ IsFiniteSet(T \cup {r}) /\ Cardinality(T \cup {r}) \in Nat
        /\ Cardinality(T \cup {r}) <= Cardinality(T) + 1
    BY <2>1, <2>2
  <2> QED
    BY <2>3 DEF T
<1>3. Given(Put(rules, r), e) \in SUBSET (Given(rules, e) \cup {r})
  BY DEF Given, Put
<1>4. IsFiniteSet(Given(Put(rules, r), e)) /\ Cardinality(Given(Put(rules, r), e)) \in Nat
  BY <1>2, <1>3, FS_Subset, FS_CardinalityType
<1>5. Cardinality(Given(Put(rules, r), e)) <= Cardinality(Given(rules, e) \cup {r})
  BY <1>2, <1>3, FS_Subset
<1>6. IsFiniteSet(Put(rules, r))
  <2>1. IsFiniteSet(rules \cup {r})
    BY FS_AddElement
  <2>2. Put(rules, r) \in SUBSET (rules \cup {r})
    BY DEF Put
  <2> QED
    BY <2>1, <2>2, FS_Subset
<1>7. ASSUME ~(r.sw = e[1] /\ r.link = LinkBetween(e[1], e[2]))
      PROVE  Cardinality(Given(Put(rules, r), e)) <= Cardinality(Given(rules, e))
  <2>1. Given(Put(rules, r), e) \in SUBSET Given(rules, e)
    BY <1>7 DEF Given, Put
  <2> QED
    BY <1>1, <2>1, FS_Subset
<1> QED
  BY <1>1, <1>2, <1>4, <1>5, <1>6, <1>7

-----------------------------------------------------------------------------
\* The steps.

LEMMA EmptyTable == IsTable({})
BY DEF IsTable

LEMMA InitIInv == Init => IInv
<1>1. SUFFICES ASSUME Init PROVE IInv
  OBVIOUS
<1>2. <<>> \in Seq(Switches) /\ DOMAIN <<>> = {}
  BY EmptySeq
<1>3. TypeOK
  <2>1. IsTable(table) /\ IsTable(db) /\ IsTable(diffs) /\ IsTable(removed) /\ IsTable(old)
    BY <1>1, EmptyTable DEF Init
  <2>2. load \in [Edges(Links) -> Nat]
    BY <1>1 DEF Init
  <2>3. path \in Seq(Switches) /\ runs \in 0..MaxRuns /\ k \in Nat \ {0} /\ cur = NoSig
    BY <1>1, <1>2, TeAssumption DEF Init
  <2>4. left \subseteq Sigs /\ mixed \subseteq Sigs /\ edges \subseteq Edges(Links) /\ running \in BOOLEAN
    BY <1>1 DEF Init
  <2> QED
    BY <2>1, <2>2, <2>3, <2>4 DEF TypeOK
<1>4. \A e \in Edges(Links) : Cardinality(Given({}, e)) = 0
  BY FS_EmptySet DEF Given
<1>5. LoadCounts
  BY <1>1, <1>4, TeAssumption DEF Init, LoadCounts
<1>6. DiffFixes
  BY <1>1 DEF Init, DiffFixes, Fixed
<1> QED
  BY <1>1, <1>2, <1>3, <1>5, <1>6, FS_EmptySet DEF Init, IInv, AllOpen, DbMerged

LEMMA StartKeepsIInv ==
  ASSUME IInv, NEW up \in Views, NEW o \in HostOrders, Start(up, o)
  PROVE  IInv'
<1>1. <<>> \in Seq(Switches) /\ DOMAIN <<>> = {}
  BY EmptySeq
<1>2. up \subseteq Links /\ runs + 1 \in 0..MaxRuns
  BY TeAssumption DEF IInv, TypeOK, Start
<1>3. Edges(up) \subseteq Edges(Links)
  BY <1>2 DEF Edges
<1>4. TypeOK'
  <2>1. IsTable(table)' /\ IsTable(db)' /\ IsTable(diffs)' /\ IsTable(removed)' /\ IsTable(old)'
    BY EmptyTable DEF IInv, TypeOK, Start, IsTable
  <2>2. Attached(up) \subseteq Sigs
    BY DEF Attached
  <2> QED
    BY <1>1, <1>2, <1>3, <2>1, <2>2 DEF Start, TypeOK
<1>5. \A e \in Edges(Links) : Cardinality(Given({}, e)) = 0
  BY FS_EmptySet DEF Given
<1>6. LoadCounts'
  BY <1>5, TeAssumption DEF Start, LoadCounts, Given
<1>7. DbMerged' /\ DiffFixes'
  BY DEF Start, DbMerged, DiffFixes, Over
<1> QED
  BY <1>1, <1>4, <1>6, <1>7, FS_EmptySet DEF Start, IInv, AllOpen

LEMMA BeginKeepsIInv ==
  ASSUME IInv, NEW sig \in left, Begin(sig)
  PROVE  IInv'
<1>1. sig \in Sigs
  BY DEF IInv, TypeOK
<1>2. path' \in Seq(Switches) /\ AllOpen'
  <2>1. CASE path' = path
    BY <2>1 DEF Begin, IInv, TypeOK, AllOpen
  <2>2. CASE path' \in Routes(edges, SwitchOf(sig[1]), SwitchOf(sig[2]))
    BY <2>2, RoutesOpen DEF Begin, AllOpen
  <2> QED
    BY <2>1, <2>2 DEF Begin
<1>3. TypeOK'
  <2>1. left' \subseteq Sigs /\ cur' \in Sigs /\ k' = 1
    BY <1>1 DEF Begin, IInv, TypeOK
  <2>2. IsTable(table)' /\ IsTable(db)' /\ IsTable(diffs)' /\ IsTable(removed)' /\ IsTable(old)'
    BY DEF IInv, TypeOK, Begin, IsTable
  <2> QED
    BY <1>2, <2>1, <2>2 DEF Begin, IInv, TypeOK
<1>4. LoadCounts' /\ DbMerged' /\ DiffFixes'
  BY DEF Begin, IInv, LoadCounts, Given, DbMerged, DiffFixes, Fixed
<1> QED
  BY <1>1, <1>2, <1>3, <1>4 DEF Begin, IInv

LEMMA HopKeepsIInv == IInv /\ Hop => IInv'
<1>1. SUFFICES ASSUME IInv, Hop PROVE IInv'
  OBVIOUS
<1> DEFINE inner == k < Len(path)
           e == <<path[k], path[k + 1]>>
           closed == inner /\ Full(load[e] + 1)
           r == [sw |-> path[k], sig |-> cur,
                 link |-> IF inner THEN LinkBetween(path[k], path[k + 1]) ELSE AccessLink(cur[2])]
<1>2. /\ running /\ k <= Len(path)
      /\ load' = IF inner THEN [load EXCEPT ![e] = load[e] + 1] ELSE load
      /\ edges' = IF closed THEN edges \ {e} ELSE edges
      /\ table' = Put(table, r)
      /\ db' = IF r \notin db THEN Put(db, r) ELSE db
      /\ diffs' = IF Told(r) THEN Put(diffs, r) ELSE diffs
      /\ IF closed THEN path' \in Recomputed(edges') /\ mixed' = mixed \cup {cur}
                   ELSE path' = path /\ mixed' = mixed
      /\ k' = k + 1
      /\ UNCHANGED <<running, runs, order, left, cur, removed, old>>
  BY <1>1 DEF Hop
<1>3. /\ path \in Seq(Switches) /\ k \in Nat \ {0} /\ Len(path) \in Nat
      /\ k \in DOMAIN path /\ path[k] \in Switches /\ path # <<>>
  BY <1>1, <1>2, LenProperties, ElementOfSeq, EmptySeq DEF IInv, TypeOK
<1>4. cur \in Sigs /\ cur[2] \in Endpoints
  BY <1>1, <1>3 DEF IInv, Sigs
<1>5. inner => e \in edges /\ e \in Edges(Links)
  BY <1>1, <1>3 DEF IInv, AllOpen, TypeOK
<1>6. r \in Rule
  <2>1. inner => LinkBetween(path[k], path[k + 1]) \in Links
    BY <1>5, LinkBetweenType
  <2>2. AccessLink(cur[2]) \in Links
    BY <1>4, AccessLinkType
  <2> QED
    BY <1>3, <1>4, <2>1, <2>2 DEF Rule
<1>7. MaxLoad \in Nat /\ load \in [Edges(Links) -> Nat] /\ edges \subseteq Edges(Links)
  BY <1>1, TeAssumption DEF IInv, TypeOK
<1>8. \A f \in Edges(Links) : load'[f] = IF inner /\ f = e THEN load[f] + 1 ELSE load[f]
  <2>1. CASE inner
    BY <1>2, <1>7, <2>1
  <2>2. CASE ~inner
    BY <1>2, <2>2
  <2> QED
    BY <2>1, <2>2
<1>9. load' \in [Edges(Links) -> Nat] /\ edges' \subseteq edges /\ (closed => e \notin edges')
  <2>1. edges' \subseteq edges /\ (closed => e \notin edges')
    BY <1>2
  <2>2. CASE inner
    <3>1. e \in Edges(Links) /\ load' = [load EXCEPT ![e] = load[e] + 1]
      BY <1>2, <1>5, <2>2
    <3>2. load[e] + 1 \in Nat
      BY <1>7, <3>1
    <3> HIDE DEF e
    <3> QED
      BY <1>7, <2>1, <3>1, <3>2
  <2>3. CASE ~inner
    BY <1>2, <1>7, <2>1, <2>3
  <2> QED
    BY <2>2, <2>3
<1>10. path' \in Seq(Switches) /\ AllOpen'
  <2>1. CASE closed
    BY <1>2, <2>1, RoutesOpen DEF Recomputed, AllOpen
  <2>2. CASE ~closed
    BY <1>1, <1>2, <1>3, <2>2 DEF IInv, AllOpen
  <2> QED
    BY <2>1, <2>2
<1>11. IsTable(table) /\ IsTable(db) /\ IsTable(diffs) /\ IsTable(removed) /\ IsTable(old)
  BY <1>1 DEF IInv, TypeOK
<1>12. IsFiniteSet(table)
  BY <1>1 DEF IInv
<1> HIDE DEF r
<1>13. TypeOK'
  <2>1. IsTable(table)' /\ IsTable(db)' /\ IsTable(diffs)' /\ IsTable(removed)' /\ IsTable(old)'
    BY <1>2, <1>6, <1>11, PutType
  <2>2. mixed' \subseteq Sigs /\ k' \in Nat \ {0}
    BY <1>1, <1>2, <1>3, <1>4 DEF IInv, TypeOK
  <2> QED
    BY <1>1, <1>2, <1>7, <1>9, <1>10, <2>1, <2>2 DEF IInv, TypeOK
<1>14. LoadCounts'
  <2>1. SUFFICES ASSUME NEW f \in Edges(Links)
                 PROVE  /\ Cardinality(Given(Put(table, r), f)) <= load'[f] /\ load'[f] <= MaxLoad
                        /\ f \in edges' => load'[f] < MaxLoad
    BY <1>2 DEF LoadCounts, Given
  <2>2. /\ Cardinality(Given(table, f)) <= load[f] /\ load[f] <= MaxLoad
        /\ f \in edges => load[f] < MaxLoad
    BY <1>1 DEF IInv, LoadCounts
  <2>3. /\ Cardinality(Given(table, f)) \in Nat /\ Cardinality(Given(Put(table, r), f)) \in Nat
        /\ Cardinality(Given(Put(table, r), f)) <= Cardinality(Given(table, f)) + 1
        /\ ~(r.sw = f[1] /\ r.link = LinkBetween(f[1], f[2])) =>
             Cardinality(Given(Put(table, r), f)) <= Cardinality(Given(table, f))
    BY <1>12, GivenPut
  <2>4. CASE inner /\ f = e
    <3>1. load'[f] = load[f] + 1 /\ load[f] \in Nat /\ f \in edges /\ load[f] < MaxLoad
      BY <1>5, <1>7, <1>8, <2>2, <2>4
    <3>2. f \in edges' => ~(load[f] + 1 >= MaxLoad)
      BY <1>9, <2>4 DEF Full
    <3> QED
      BY <1>7, <2>2, <2>3, <3>1, <3>2
  <2>5. CASE ~(inner /\ f = e)
    <3>1. ~(r.sw = f[1] /\ r.link = LinkBetween(f[1], f[2]))
      <4>1. CASE inner
        <5>1. r.sw = e[1] /\ r.link = LinkBetween(e[1], e[2])
          BY <4>1 DEF r
        <5>2. e \in Edges(Links) /\ f # e
          BY <1>5, <2>5, <4>1
        <5> HIDE DEF e
        <5> QED
          BY <5>1, <5>2, SameDirection
      <4>2. CASE ~inner
        BY <1>4, <4>2, AccessIsNoDirection DEF r
      <4> QED
        BY <4>1, <4>2
    <3>2. load'[f] = load[f] /\ load[f] \in Nat
      BY <1>7, <1>8, <2>5
    <3> QED
      BY <1>7, <1>9, <2>2, <2>3, <3>1, <3>2
  <2> QED
    BY <2>4, <2>5
<1>15. db' = Put(db, r)
  BY <1>2, <1>11, PutAgain
<1>16. DbMerged' /\ DiffFixes'
  <2>1. db = Over(old, table) /\ db = Over(old, diffs)
    BY <1>1, <1>2 DEF IInv, DbMerged
  <2>2. db' = Over(old, Put(table, r))
    <3>1. Over(old, Put(table, r)) = Put(Over(old, table), r)
      BY OverPut
    <3> QED
      BY <1>15, <2>1, <3>1
  <2>3. db' = Over(old, diffs')
    <3>1. CASE Told(r)
      <4>1. Over(old, Put(diffs, r)) = Put(Over(old, diffs), r)
        BY OverPut
      <4> QED
        BY <1>2, <1>15, <2>1, <3>1, <4>1
    <3>2. CASE ~Told(r)
      BY <1>2, <2>1, <3>2 DEF Told
    <3> QED
      BY <3>1, <3>2
  <2> QED
    BY <1>2, <2>2, <2>3 DEF DbMerged, DiffFixes
<1>17. IsFiniteSet(table')
  BY <1>2, <1>12, GivenPut
<1> QED
  BY <1>2, <1>4, <1>10, <1>13, <1>14, <1>16, <1>17 DEF IInv

LEMMA FinishKeepsIInv == IInv /\ Finish => IInv'
<1>1. SUFFICES ASSUME IInv, Finish PROVE IInv'
  OBVIOUS
<1>2. db = Over(old, table) /\ db = Over(old, diffs) /\ IsTable(table) /\ IsTable(db)
  BY <1>1 DEF IInv, TypeOK, DbMerged, Finish
<1>3. removed' = {q \in db : ~\E r \in table : SameKey(r, q)}
  BY <1>1 DEF Finish
<1>4. TypeOK'
  <2>1. IsTable(removed')
    BY <1>2, <1>3 DEF IsTable
  <2>2. IsTable(table)' /\ IsTable(db)' /\ IsTable(diffs)' /\ IsTable(removed)' /\ IsTable(old)'
    BY <1>1, <2>1 DEF IInv, TypeOK, Finish, IsTable
  <2> QED
    BY <1>1, <2>2 DEF IInv, TypeOK, Finish
<1>5. Fixed' = {q \in db : ~\E r \in removed' : SameKey(r, q)}
  BY <1>1, <1>2 DEF Fixed, Finish, Over
<1>6. \A q \in table : q \in db /\ ~\E r \in removed' : SameKey(r, q)
  BY <1>2, <1>3 DEF Over, SameKey
<1>7. ASSUME NEW q \in db, ~\E r \in removed' : SameKey(r, q)
      PROVE  q \in table
  <2>1. SameKey(q, q)
    BY DEF SameKey
  <2>2. PICK r \in table : SameKey(r, q)
    BY <1>3, <1>7, <2>1
  <2>3. r \in db
    BY <1>2 DEF Over
  <2>4. r = q
    BY <1>2, <2>2, <2>3 DEF IsTable, SameKey
  <2> QED
    BY <2>4
<1>8. DiffFixes'
  BY <1>1, <1>5, <1>6, <1>7 DEF DiffFixes, Finish
<1>9. LoadCounts' /\ AllOpen' /\ DbMerged'
  BY <1>1 DEF IInv, LoadCounts, Given, AllOpen, DbMerged, Finish
<1> QED
  BY <1>1, <1>4, <1>8, <1>9 DEF IInv, Finish

LEMMA NextKeepsIInv == IInv /\ [Next]_vars => IInv'
<1>1. SUFFICES ASSUME IInv, [Next]_vars PROVE IInv'
  OBVIOUS
<1>2. ASSUME NEW up \in Views, NEW o \in HostOrders, Start(up, o) PROVE IInv'
  BY <1>1, <1>2, StartKeepsIInv
<1>3. ASSUME NEW sig \in left, Begin(sig) PROVE IInv'
  BY <1>1, <1>3, BeginKeepsIInv
<1>4. CASE Hop
  BY <1>1, <1>4, HopKeepsIInv
<1>5. CASE Finish
  BY <1>1, <1>5, FinishKeepsIInv
<1>6. CASE UNCHANGED vars
  BY <1>1, <1>6 DEF vars, IInv, TypeOK, IsTable, AllOpen, LoadCounts, Given, DbMerged,
                    DiffFixes, Fixed
<1> QED
  BY <1>1, <1>2, <1>3, <1>4, <1>5, <1>6 DEF Next

\* The inductive invariant holds in every state: what compute_paths keeps true
\* after each pass of the loop over k (te_controller.cc:67-109).
THEOREM InvariantHolds == Spec => []IInv
BY InitIInv, NextKeepsIInv, PTL DEF Spec

\* All tables of compute_paths stay tables: one rule for a switch and a signature.
THEOREM TypeCorrect == Spec => []TypeOK
<1>1. IInv => TypeOK
  BY DEF IInv
<1> QED
  BY <1>1, InvariantHolds, PTL

\* "assert(eid != -1)" (te_controller.cc:90) never fails: the edge that a hop
\* would close is there, whatever was deleted since the path was computed.
THEOREM PathStaysOpen == Spec => []PathOpen
<1>1. IInv => PathOpen
  BY DEF IInv, AllOpen, PathOpen
<1> QED
  BY <1>1, InvariantHolds, PTL

\* No direction of a link is given to more than MaxLoad signatures
\* (te_controller.cc:86-93).
THEOREM LimitIsKept == Spec => []LimitKept
<1>1. IInv => LimitKept
  <2>1. SUFFICES ASSUME IInv, NEW e \in Edges(Links)
                 PROVE  Cardinality(Given(table, e)) <= MaxLoad
    BY DEF LimitKept, Given
  <2>2. IsFiniteSet(Given(table, e))
    BY <2>1, FS_Subset DEF IInv, Given
  <2>3. Cardinality(Given(table, e)) \in Nat /\ load[e] \in Nat /\ MaxLoad \in Nat
    BY <2>1, <2>2, FS_CardinalityType, TeAssumption DEF IInv, TypeOK
  <2> QED
    BY <2>1, <2>3 DEF IInv, LoadCounts
<1> QED
  BY <1>1, InvariantHolds, PTL

\* The differences that are returned turn the old tables into the new ones
\* (te_controller.cc:96-101, 142-155).
THEOREM DifferencesFix == Spec => []DiffFixes
<1>1. IInv => DiffFixes
  BY DEF IInv
<1> QED
  BY <1>1, InvariantHolds, PTL

-----------------------------------------------------------------------------
\* Walks over the open edges, and the shortest ones.

Walk(es, n, p) ==
  p \in [1..n -> Switches] /\ \A i \in 1..n - 1 : <<p[i], p[i + 1]>> \in es

LEMMA PathsAreWalks ==
  ASSUME NEW es, NEW s, NEW t, NEW n, NEW p
  PROVE  p \in Paths(es, s, t, n) <=> Walk(es, n, p) /\ p[1] = s /\ p[n] = t
BY Zenon DEF Paths, Walk

\* A route that is not empty is a walk, and there is none with fewer switches.
LEMMA RouteIsWalk ==
  ASSUME NEW es, NEW s, NEW t, NEW p \in Routes(es, s, t), p # <<>>
  PROVE  /\ Len(p) \in 1..Cardinality(Switches) /\ Len(p) \in Nat \ {0} /\ DOMAIN p = 1..Len(p)
         /\ Walk(es, Len(p), p) /\ p[1] = s /\ p[Len(p)] = t
         /\ \A j \in 1..Len(p) - 1 : Paths(es, s, t, j) = {}
<1> DEFINE found == {n \in 1..Cardinality(Switches) : Paths(es, s, t, n) # {}}
<1>1. PICK n \in {m \in found : \A j \in found : m <= j} : p \in Paths(es, s, t, n)
  BY DEF Routes
<1>2. n \in 1..Cardinality(Switches) /\ n \in Nat \ {0}
  BY <1>1, SwitchesFinite
<1>3. \A j \in 1..n - 1 : Paths(es, s, t, j) = {}
  <2>1. SUFFICES ASSUME NEW j \in 1..n - 1, Paths(es, s, t, j) # {} PROVE FALSE
    OBVIOUS
  <2>2. j \in found /\ ~ (n <= j)
    BY <1>2, <2>1, SwitchesFinite
  <2> QED
    BY <1>1, <2>2
<1>4. Walk(es, n, p) /\ p[1] = s /\ p[n] = t
  BY <1>1, PathsAreWalks
<1>5. Len(p) = n /\ DOMAIN p = 1..n
  BY <1>2, <1>4, SeqDef, LenProperties DEF Walk
<1> QED
  BY <1>2, <1>3, <1>4, <1>5

\* The beginning of a walk is a walk.
LEMMA WalkBegins ==
  ASSUME NEW es, NEW n \in Nat \ {0}, NEW p, Walk(es, n, p), NEW m \in 1..n
  PROVE  Paths(es, p[1], p[m], m) # {}
<1> DEFINE q == [i \in 1..m |-> p[i]]
<1>1. q \in [1..m -> Switches] /\ q[1] = p[1] /\ q[m] = p[m]
  BY DEF Walk
<1>2. \A i \in 1..m - 1 : <<q[i], q[i + 1]>> \in es
  BY DEF Walk
<1> HIDE DEF q
<1>3. q \in Paths(es, p[1], p[m], m)
  BY <1>1, <1>2, PathsAreWalks DEF Walk
<1> QED
  BY <1>3

\* No walk reaches the k-th switch of a shortest one with fewer than k switches:
\* going on along the shortest one would make it shorter.
LEMMA NoShortCut ==
  ASSUME NEW es, NEW s, NEW t, NEW p \in Routes(es, s, t), p # <<>>,
         NEW m \in 1..Len(p), NEW j \in 1..m - 1
  PROVE  Paths(es, s, p[m], j) = {}
<1>1. SUFFICES ASSUME NEW w \in Paths(es, s, p[m], j) PROVE FALSE
  OBVIOUS
<1> DEFINE n == Len(p)
           d == m - j
           q == [i \in 1..n - d |-> IF i <= j THEN w[i] ELSE p[i + d]]
<1>2. /\ n \in Nat \ {0} /\ Walk(es, n, p) /\ p[1] = s /\ p[n] = t
      /\ \A i \in 1..n - 1 : Paths(es, s, t, i) = {}
  BY RouteIsWalk
<1>3. Walk(es, j, w) /\ w[1] = s /\ w[j] = p[m]
  BY <1>1, PathsAreWalks
<1> HIDE DEF n
<1>4. /\ m \in 1..n /\ d \in 1..n - 1 /\ n - d \in 1..n - 1 /\ j \in 1..n - d /\ j + d = m
  BY <1>2 DEF n
<1>5. \A i \in 1..n - d : q[i] = IF i <= j THEN w[i] ELSE p[i + d]
  OBVIOUS
<1>6. q \in [1..n - d -> Switches]
  <2>1. \A i \in 1..n - d : (i <= j => i \in 1..j) /\ (~ (i <= j) => i + d \in 1..n)
    BY <1>2, <1>4
  <2> QED
    BY <1>2, <1>3, <2>1 DEF Walk
<1>7. q[1] = s
  BY <1>3, <1>4, <1>5
<1>8. q[n - d] = t
  <2>1. CASE j = n - d
    BY <1>2, <1>3, <1>4, <1>5, <2>1
  <2>2. CASE j # n - d
    <3>1. ~ (n - d <= j) /\ (n - d) + d = n
      BY <1>2, <1>4, <2>2
    <3> QED
      BY <1>2, <1>4, <1>5, <3>1
  <2> QED
    BY <2>1, <2>2
<1>9. ASSUME NEW i \in 1..(n - d) - 1
      PROVE  <<q[i], q[i + 1]>> \in es
  <2>0. i \in 1..n - d /\ i + 1 \in 1..n - d
    BY <1>4
  <2>1. CASE i < j
    <3>1. q[i] = w[i] /\ q[i + 1] = w[i + 1] /\ i \in 1..j - 1
      BY <1>4, <1>5, <2>0, <2>1
    <3> QED
      BY <1>3, <3>1 DEF Walk
  <2>2. CASE i = j
    <3>1. (i + 1) + d = m + 1 /\ ~ (i + 1 <= j) /\ i <= j /\ m \in 1..n - 1
      BY <1>2, <1>4, <2>2
    <3>2. q[i] = p[m] /\ q[i + 1] = p[m + 1]
      BY <1>3, <1>5, <2>0, <2>2, <3>1
    <3> QED
      BY <1>2, <3>1, <3>2 DEF Walk
  <2>3. CASE i > j
    <3>1. (i + 1) + d = (i + d) + 1 /\ ~ (i <= j) /\ ~ (i + 1 <= j) /\ i + d \in 1..n - 1
      BY <1>2, <1>4, <2>3
    <3>2. q[i] = p[i + d] /\ q[i + 1] = p[(i + d) + 1]
      BY <1>5, <2>0, <3>1
    <3> QED
      BY <1>2, <3>1, <3>2 DEF Walk
  <2> QED
    BY <1>4, <2>1, <2>2, <2>3
<1> HIDE DEF q, d
<1>10. Walk(es, n - d, q)
  BY <1>6, <1>9 DEF Walk
<1>11. q \in Paths(es, s, t, n - d)
  BY <1>7, <1>8, <1>10, PathsAreWalks
<1> QED
  BY <1>2, <1>4, <1>11

\* A switch that was reached with at most m switches still is when the edge from
\* the m-th to the next switch of a shortest path is closed.
LEMMA ClosingKeepsWalks ==
  ASSUME NEW es, NEW s, NEW t, NEW p \in Routes(es, s, t), p # <<>>,
         NEW m \in 1..Len(p), NEW x, NEW j \in 1..m, Paths(es, s, x, j) # {}
  PROVE  Paths(es \ {<<p[m], p[m + 1]>>}, s, x, j) # {}
<1>1. PICK w : w \in Paths(es, s, x, j)
  OBVIOUS
<1>2. Walk(es, j, w) /\ w[1] = s /\ w[j] = x
  BY <1>1, PathsAreWalks
<1>3. ASSUME NEW i \in 1..j - 1, <<w[i], w[i + 1]>> = <<p[m], p[m + 1]>>
      PROVE  FALSE
  <2>1. m \in Nat /\ j \in Nat \ {0} /\ i \in 1..j /\ i \in 1..m - 1
    BY RouteIsWalk
  <2>2. Paths(es, w[1], w[i], i) # {}
    BY <1>2, <2>1, WalkBegins
  <2>3. w[i] = p[m]
    BY <1>3
  <2> QED
    BY <1>2, <2>1, <2>2, <2>3, NoShortCut
<1>4. Walk(es \ {<<p[m], p[m + 1]>>}, j, w)
  BY <1>2, <1>3 DEF Walk
<1> QED
  BY <1>2, <1>4, PathsAreWalks

-----------------------------------------------------------------------------
\* Where the hops of a signature are.

RuleAt(i) ==
  [sw |-> path[i], sig |-> cur,
   link |-> IF i < Len(path) THEN LinkBetween(path[i], path[i + 1]) ELSE AccessLink(cur[2])]

\* The path is a shortest one over the edges that are open now.
PathIsRoute ==
  path # <<>> => path \in Routes(edges, SwitchOf(cur[1]), SwitchOf(cur[2])) /\ cur \notin left

\* The rules that the signature has are on switches nearer to the source than the
\* next hop, and they stay there when an edge is closed.
RulesBehind ==
  \A r \in table :
    /\ r.sig \notin left
    /\ r.sig = cur => \E i \in 1..k - 1 : Paths(edges, SwitchOf(cur[1]), r.sw, i) # {}

\* The hops done are those of the path, unless it was computed again.
HopsDone == cur \notin mixed => k <= Len(path) + 1 /\ \A i \in 1..k - 1 : RuleAt(i) \in table

\* The signatures done before arrive.
DoneArrive == \A sig \in Sigs \ (left \cup mixed \cup {cur}) : Admitted(sig) => Arrives(sig)

\* The inductive invariant about the hops.
HopsInv ==
  /\ running => PathIsRoute /\ RulesBehind /\ HopsDone /\ DoneArrive
  /\ UnmixedArrive

\* No rule of the signature is on the switch of the next hop.
LEMMA NextHopIsNew ==
  ASSUME IInv, running, PathIsRoute, RulesBehind, k <= Len(path)
  PROVE  /\ path # <<>> /\ k \in 1..Len(path)
         /\ \A r \in table : ~ (r.sw = path[k] /\ r.sig = cur)
<1>1. /\ path \in Seq(Switches) /\ k \in Nat \ {0} /\ Len(path) \in Nat
      /\ path # <<>> /\ k \in 1..Len(path)
  BY LenProperties, EmptySeq DEF IInv, TypeOK
<1>2. path \in Routes(edges, SwitchOf(cur[1]), SwitchOf(cur[2]))
  BY <1>1 DEF PathIsRoute
<1>3. \A j \in 1..k - 1 : Paths(edges, SwitchOf(cur[1]), path[k], j) = {}
  BY <1>1, <1>2, NoShortCut
<1> QED
  BY <1>1, <1>3 DEF RulesBehind

\* A path whose hops are all in the table leads to the destination.
LEMMA WholePathArrives ==
  ASSUME IInv, PathIsRoute, path # <<>>, \A i \in 1..Len(path) : RuleAt(i) \in table
  PROVE  Arrives(cur)
<1> DEFINE n == Len(path)
<1>1. /\ n \in 1..Cardinality(Switches) /\ n \in Nat \ {0} /\ DOMAIN path = 1..n
      /\ Walk(edges, n, path) /\ path[1] = SwitchOf(cur[1]) /\ path[n] = SwitchOf(cur[2])
  BY RouteIsWalk DEF PathIsRoute
<1>2. edges \subseteq Edges(Links)
  BY DEF IInv, TypeOK
<1> HIDE DEF n
<1>3. ASSUME NEW i \in 1..n - 1 PROVE Hands(cur, path[i], path[i + 1])
  <2>1. i \in 1..n /\ i < n
    BY <1>1
  <2>2. <<path[i], path[i + 1]>> \in Edges(Links)
    BY <1>1, <1>2 DEF Walk
  <2>3. Ends[LinkBetween(path[i], path[i + 1])] = {path[i], path[i + 1]}
    BY <2>2, LinkBetweenType
  <2>4. RuleAt(i) \in table
    BY <2>1 DEF n
  <2>5. /\ RuleAt(i).sw = path[i] /\ RuleAt(i).sig = cur
        /\ RuleAt(i).link = LinkBetween(path[i], path[i + 1])
    BY <2>1 DEF RuleAt, n
  <2> QED
    BY <2>3, <2>4, <2>5 DEF Hands
<1>4. [sw |-> path[n], sig |-> cur, link |-> AccessLink(cur[2])] \in table
  <2>1. n \in 1..n /\ ~ (n < n)
    BY <1>1
  <2>2. RuleAt(n) \in table
    BY <2>1 DEF n
  <2> QED
    BY <2>1, <2>2 DEF RuleAt, n
<1>5. path \in [1..n -> Switches] /\ path[1] = SwitchOf(cur[1]) /\ path[n] = SwitchOf(cur[2])
  BY <1>1 DEF Walk
<1>6. \E p \in [1..n -> Switches] :
        /\ p[1] = SwitchOf(cur[1]) /\ p[n] = SwitchOf(cur[2])
        /\ \A i \in 1..n - 1 : Hands(cur, p[i], p[i + 1])
        /\ [sw |-> p[n], sig |-> cur, link |-> AccessLink(cur[2])] \in table
  BY <1>3, <1>4, <1>5, Zenon
<1> QED
  BY <1>1, <1>6, Zenon DEF Arrives

\* When the hops of a path are done, its signature is done.
LEMMA CurrentArrives ==
  ASSUME IInv, running, PathIsRoute, RulesBehind, HopsDone, ~ (k <= Len(path)),
         cur \notin mixed, Admitted(cur)
  PROVE  Arrives(cur)
<1>1. path \in Seq(Switches) /\ k \in Nat \ {0} /\ Len(path) \in Nat
  BY LenProperties DEF IInv, TypeOK
<1>2. k = Len(path) + 1 /\ \A i \in 1..Len(path) : RuleAt(i) \in table
  <2>1. k <= Len(path) + 1 /\ \A i \in 1..k - 1 : RuleAt(i) \in table
    BY DEF HopsDone
  <2>2. k = Len(path) + 1 /\ k - 1 = Len(path)
    BY <1>1, <2>1
  <2> QED
    BY <2>1, <2>2
<1>3. 1..k - 1 # {}
  BY DEF RulesBehind, Admitted
<1>4. path # <<>>
  <2>1. Len(path) # 0
    BY <1>1, <1>2, <1>3
  <2> QED
    BY <1>1, <2>1, EmptySeq
<1> QED
  BY <1>2, <1>4, WholePathArrives

\* A signature that arrives still does when rules are added.
LEMMA MoreRulesArrive ==
  ASSUME NEW sig, Arrives(sig), table \subseteq table'
  PROVE  Arrives(sig)'
<1>0. PICK n \in 1..Cardinality(Switches) : \E p \in [1..n -> Switches] :
        /\ p[1] = SwitchOf(sig[1]) /\ p[n] = SwitchOf(sig[2])
        /\ \A i \in 1..n - 1 : Hands(sig, p[i], p[i + 1])
        /\ [sw |-> p[n], sig |-> sig, link |-> AccessLink(sig[2])] \in table
  BY Zenon DEF Arrives
<1>1. PICK p \in [1..n -> Switches] :
        /\ p[1] = SwitchOf(sig[1]) /\ p[n] = SwitchOf(sig[2])
        /\ \A i \in 1..n - 1 : Hands(sig, p[i], p[i + 1])
        /\ [sw |-> p[n], sig |-> sig, link |-> AccessLink(sig[2])] \in table
  BY <1>0, Zenon
<1>2. ASSUME NEW s, NEW t, Hands(sig, s, t) PROVE Hands(sig, s, t)'
  BY <1>2 DEF Hands
<1>3. \A i \in 1..n - 1 : Hands(sig, p[i], p[i + 1])'
  BY <1>1, <1>2
<1>4. [sw |-> p[n], sig |-> sig, link |-> AccessLink(sig[2])] \in table'
  BY <1>1
<1> QED
  BY <1>1, <1>3, <1>4, Zenon DEF Arrives

\* With the same rules the same signatures arrive.
LEMMA SameRulesArrive ==
  ASSUME NEW sig, table' = table
  PROVE  (Arrives(sig)' <=> Arrives(sig)) /\ (Admitted(sig)' <=> Admitted(sig))
<1>1. Arrives(sig)' <=> Arrives(sig)
  BY DEF Arrives, Hands
<1> QED
  BY <1>1 DEF Admitted

LEMMA InitHopsInv == Init => HopsInv
BY DEF Init, HopsInv, UnmixedArrive, Admitted

LEMMA StartKeepsHopsInv ==
  ASSUME IInv, NEW up \in Views, NEW o \in HostOrders, Start(up, o)
  PROVE  HopsInv'
<1>1. running' /\ path' = <<>> /\ k' = 1 /\ table' = {}
  BY DEF Start
<1>2. PathIsRoute' /\ RulesBehind' /\ DoneArrive' /\ UnmixedArrive'
  BY <1>1 DEF PathIsRoute, RulesBehind, DoneArrive, UnmixedArrive, Admitted
<1>3. HopsDone'
  <2>1. Len(path') \in Nat /\ 1..k' - 1 = {}
    BY <1>1, EmptySeq, LenProperties
  <2> QED
    BY <1>1, <2>1 DEF HopsDone
<1> QED
  BY <1>2, <1>3 DEF HopsInv

LEMMA BeginKeepsHopsInv ==
  ASSUME IInv, IInv', HopsInv, NEW sig \in left, Begin(sig)
  PROVE  HopsInv'
<1>1. /\ running /\ running' /\ ~ (k <= Len(path))
      /\ left' = left \ {sig} /\ cur' = sig /\ k' = 1
      /\ IF cur # NoSig /\ SwitchPair(cur) = SwitchPair(sig)
         THEN path' = path
         ELSE path' \in Routes(edges, SwitchOf(sig[1]), SwitchOf(sig[2]))
      /\ edges' = edges /\ table' = table /\ mixed' = mixed
  <2>1. path \in Seq(Switches) /\ k \in Nat /\ Len(path) \in Nat
    BY LenProperties DEF IInv, TypeOK
  <2> QED
    BY <2>1 DEF Begin
<1>2. PathIsRoute /\ RulesBehind /\ HopsDone /\ DoneArrive
  BY <1>1 DEF HopsInv
<1>3. PathIsRoute'
  <2>1. CASE cur # NoSig /\ SwitchPair(cur) = SwitchPair(sig)
    <3>1. SwitchOf(cur[1]) = SwitchOf(sig[1]) /\ SwitchOf(cur[2]) = SwitchOf(sig[2])
      BY <2>1 DEF SwitchPair
    <3> QED
      BY <1>1, <1>2, <2>1, <3>1 DEF PathIsRoute
  <2>2. CASE ~ (cur # NoSig /\ SwitchPair(cur) = SwitchPair(sig))
    BY <1>1, <2>2 DEF PathIsRoute
  <2> QED
    BY <2>1, <2>2
<1>4. RulesBehind'
  BY <1>1, <1>2 DEF RulesBehind
<1>5. HopsDone'
  <2>1. Len(path') \in Nat /\ 1..k' - 1 = {}
    BY <1>1, LenProperties DEF IInv, TypeOK
  <2> QED
    BY <1>1, <2>1 DEF HopsDone
<1>6. DoneArrive'
  <2>1. SUFFICES ASSUME NEW q \in Sigs \ ((left \ {sig}) \cup mixed \cup {sig}), Admitted(q)
                 PROVE  Arrives(q)
    BY <1>1, SameRulesArrive DEF DoneArrive
  <2>2. CASE q = cur
    BY <1>1, <1>2, <2>1, <2>2, CurrentArrives
  <2>3. CASE q # cur
    BY <1>2, <2>1, <2>3 DEF DoneArrive
  <2> QED
    BY <2>2, <2>3
<1> QED
  BY <1>1, <1>3, <1>4, <1>5, <1>6 DEF HopsInv, UnmixedArrive

LEMMA HopKeepsHopsInv ==
  ASSUME IInv, IInv', HopsInv, Hop
  PROVE  HopsInv' /\ table \subseteq table'
<1> DEFINE e == <<path[k], path[k + 1]>>
           closed == k < Len(path) /\ Full(load[e] + 1)
           s == SwitchOf(cur[1])
           t == SwitchOf(cur[2])
<1>1. /\ running /\ running' /\ k <= Len(path)
      /\ edges' = IF closed THEN edges \ {e} ELSE edges
      /\ table' = Put(table, RuleAt(k))
      /\ IF closed THEN path' \in Recomputed(edges') /\ mixed' = mixed \cup {cur}
                   ELSE path' = path /\ mixed' = mixed
      /\ k' = k + 1 /\ left' = left /\ cur' = cur
  BY DEF Hop, RuleAt
<1>2. PathIsRoute /\ RulesBehind /\ HopsDone /\ DoneArrive
  BY <1>1 DEF HopsInv
<1>3. /\ path # <<>> /\ k \in 1..Len(path) /\ k \in Nat \ {0} /\ Len(path) \in Nat
      /\ \A r \in table : ~ (r.sw = path[k] /\ r.sig = cur)
  BY <1>1, <1>2, NextHopIsNew, LenProperties DEF IInv, TypeOK
<1>4. path \in Routes(edges, s, t) /\ cur \notin left
  BY <1>2, <1>3 DEF PathIsRoute
<1>5. table' = table \cup {RuleAt(k)} /\ RuleAt(k).sw = path[k] /\ RuleAt(k).sig = cur
  BY <1>1, <1>3 DEF Put, SameKey, RuleAt
<1> HIDE DEF e
<1>6. PathIsRoute'
  <2>1. CASE closed
    BY <1>1, <1>4, <2>1 DEF PathIsRoute, Recomputed
  <2>2. CASE ~closed
    BY <1>1, <1>4, <2>2 DEF PathIsRoute
  <2> QED
    BY <2>1, <2>2
<1>7. ASSUME NEW x, NEW j \in 1..k, Paths(edges, s, x, j) # {}
      PROVE  Paths(edges', s, x, j) # {}
  <2>1. CASE closed
    BY <1>1, <1>3, <1>4, <1>7, <2>1, ClosingKeepsWalks DEF e
  <2>2. CASE ~closed
    BY <1>1, <1>7, <2>2
  <2> QED
    BY <2>1, <2>2
<1> HIDE DEF closed, s, t
<1>8. RulesBehind'
  <2>1. SUFFICES ASSUME NEW r \in table'
                 PROVE  /\ r.sig \notin left
                        /\ r.sig = cur => \E i \in 1..k : Paths(edges', s, r.sw, i) # {}
    <3>1. k' - 1 = k
      BY <1>1, <1>3
    <3> QED
      BY <1>1, <3>1 DEF RulesBehind, s
  <2>2. CASE r \in table
    <3>1. r.sig \notin left /\ (r.sig = cur => \E i \in 1..k - 1 : Paths(edges, s, r.sw, i) # {})
      BY <1>2, <2>2 DEF RulesBehind, s
    <3>2. \A i \in 1..k - 1 : i \in 1..k
      BY <1>3
    <3> QED
      BY <1>7, <3>1, <3>2
  <2>3. CASE r = RuleAt(k)
    <3>1. Walk(edges, Len(path), path) /\ path[1] = s /\ Len(path) \in Nat \ {0}
      BY <1>3, <1>4, RouteIsWalk
    <3>2. Paths(edges, s, path[k], k) # {}
      BY <1>3, <3>1, WalkBegins
    <3>3. k \in 1..k
      BY <1>3
    <3> QED
      BY <1>4, <1>5, <1>7, <2>3, <3>2, <3>3
  <2> QED
    BY <1>5, <2>1, <2>2, <2>3
<1>9. HopsDone'
  <2>1. SUFFICES ASSUME cur \notin mixed', ~closed
                 PROVE  k + 1 <= Len(path) + 1 /\ \A i \in 1..k : RuleAt(i) \in table'
    <3>1. closed => cur \in mixed'
      BY <1>1
    <3>2. ~closed => path' = path
      BY <1>1
    <3>3. (k + 1) - 1 = k
      BY <1>3
    <3> QED
      BY <1>1, <3>1, <3>2, <3>3 DEF HopsDone, RuleAt
  <2>2. \A i \in 1..k - 1 : RuleAt(i) \in table
    BY <1>1, <1>2, <2>1 DEF HopsDone
  <2>3. \A i \in 1..k : i = k \/ i \in 1..k - 1
    BY <1>3
  <2> QED
    BY <1>3, <1>5, <2>2, <2>3
<1>10. DoneArrive'
  <2>1. SUFFICES ASSUME NEW q \in Sigs \ (left \cup mixed \cup {cur}), Admitted(q)'
                 PROVE  Arrives(q)'
    <3>1. mixed \subseteq mixed'
      BY <1>1
    <3> QED
      BY <1>1, <3>1 DEF DoneArrive
  <2>2. Admitted(q)
    BY <1>5, <2>1 DEF Admitted
  <2>3. Arrives(q)
    BY <1>2, <2>1, <2>2 DEF DoneArrive
  <2> QED
    BY <1>5, <2>3, MoreRulesArrive
<1> QED
  BY <1>1, <1>5, <1>6, <1>8, <1>9, <1>10 DEF HopsInv, UnmixedArrive

LEMMA FinishKeepsHopsInv == IInv /\ HopsInv /\ Finish => HopsInv'
<1>1. SUFFICES ASSUME IInv, HopsInv, Finish PROVE HopsInv'
  OBVIOUS
<1>2. running /\ ~running' /\ ~ (k <= Len(path)) /\ left = {} /\ table' = table /\ mixed' = mixed
  <2>1. path \in Seq(Switches) /\ k \in Nat /\ Len(path) \in Nat
    BY <1>1, LenProperties DEF IInv, TypeOK
  <2> QED
    BY <1>1, <2>1 DEF Finish
<1>3. ASSUME NEW q \in Sigs \ mixed, Admitted(q) PROVE Arrives(q)
  <2>1. CASE q = cur
    BY <1>1, <1>2, <1>3, <2>1, CurrentArrives DEF HopsInv
  <2>2. CASE q # cur
    BY <1>1, <1>2, <1>3, <2>2 DEF HopsInv, DoneArrive
  <2> QED
    BY <2>1, <2>2
<1>4. UnmixedArrive'
  BY <1>2, <1>3 DEF UnmixedArrive, Admitted, Arrives, Hands
<1> QED
  BY <1>2, <1>4 DEF HopsInv

LEMMA NextKeepsHopsInv == IInv /\ IInv' /\ HopsInv /\ [Next]_vars => HopsInv'
<1>1. SUFFICES ASSUME IInv, IInv', HopsInv, [Next]_vars PROVE HopsInv'
  OBVIOUS
<1>2. ASSUME NEW up \in Views, NEW o \in HostOrders, Start(up, o) PROVE HopsInv'
  BY <1>1, <1>2, StartKeepsHopsInv
<1>3. ASSUME NEW sig \in left, Begin(sig) PROVE HopsInv'
  BY <1>1, <1>3, BeginKeepsHopsInv
<1>4. CASE Hop
  BY <1>1, <1>4, HopKeepsHopsInv
<1>5. CASE Finish
  BY <1>1, <1>5, FinishKeepsHopsInv
<1>6. CASE UNCHANGED vars
  <2>1. /\ running' = running /\ left' = left /\ mixed' = mixed /\ cur' = cur /\ table' = table
        /\ path' = path /\ k' = k /\ edges' = edges
    BY <1>6 DEF vars
  <2>2. DoneArrive' <=> DoneArrive
    BY <2>1, SameRulesArrive DEF DoneArrive
  <2>3. UnmixedArrive' <=> UnmixedArrive
    BY <2>1, SameRulesArrive DEF UnmixedArrive
  <2>4. PathIsRoute' <=> PathIsRoute
    BY <2>1 DEF PathIsRoute
  <2>5. RulesBehind' <=> RulesBehind
    BY <2>1 DEF RulesBehind
  <2>6. HopsDone' <=> HopsDone
    BY <2>1 DEF HopsDone, RuleAt
  <2> QED
    BY <1>1, <2>1, <2>2, <2>3, <2>4, <2>5, <2>6 DEF HopsInv
<1> QED
  BY <1>1, <1>2, <1>3, <1>4, <1>5, <1>6 DEF Next

LEMMA HopsInvHolds == Spec => []HopsInv
<1>1. IInv /\ IInv' /\ HopsInv /\ [Next]_vars => HopsInv'
  BY NextKeepsHopsInv
<1> QED
  BY <1>1, InitHopsInv, InvariantHolds, PTL DEF Spec

\* No hop of a path that was computed again meets an earlier one: a switch never
\* gets a second rule for the signature (te_controller.cc:96-108).
THEOREM HopsNeverDoMeet == Spec => HopsNeverMeet
<1> DEFINE Apart == \A r \in table : running' => \A q \in table' : SameKey(r, q) => r = q
<1>1. ASSUME IInv, IInv', HopsInv, [Next]_vars PROVE Apart
  <2>1. SUFFICES ASSUME NEW r \in table, running', NEW q \in table', SameKey(r, q)
                 PROVE  r = q
    OBVIOUS
  <2>2. IsTable(table')
    BY <1>1 DEF IInv, TypeOK
  <2>3. CASE \E up \in Views, o \in HostOrders : Start(up, o)
    BY <2>1, <2>3 DEF Start
  <2>4. CASE \E sig \in left : Begin(sig)
    BY <2>1, <2>2, <2>4 DEF Begin, IsTable, SameKey
  <2>5. CASE Hop
    BY <1>1, <2>1, <2>2, <2>5, HopKeepsHopsInv DEF IsTable, SameKey
  <2>6. CASE Finish
    BY <2>1, <2>6 DEF Finish
  <2>7. CASE UNCHANGED vars
    BY <2>1, <2>2, <2>7 DEF vars, IsTable, SameKey
  <2> QED
    BY <1>1, <2>3, <2>4, <2>5, <2>6, <2>7 DEF Next
<1>2. IInv /\ IInv' /\ HopsInv /\ [Next]_vars => [Apart]_vars
  BY <1>1
<1> QED
  BY <1>2, InvariantHolds, HopsInvHolds, PTL DEF Spec, HopsNeverMeet

\* A signature whose path was not computed again arrives (te_controller.cc:67-109).
THEOREM UnmixedDoArrive == Spec => []UnmixedArrive
<1>1. HopsInv => UnmixedArrive
  BY DEF HopsInv
<1> QED
  BY <1>1, HopsInvHolds, PTL

=============================================================================
