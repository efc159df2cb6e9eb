-------------------------- MODULE GossipLogProofs ---------------------------
(***************************************************************************)
(* Proofs about the logs and gossip, for every number of controllers, of   *)
(* changes and of lost messages and for every order of delivery: as long   *)
(* as no news is late, a log only says what is true, loses nothing however *)
(* the vectors grow, and asks for all that is missing.  While a link       *)
(* changes less than INITIAL_SIZE times, no access is out of range and no  *)
(* mark passes what is missing, however late news is.                      *)
(***************************************************************************)
EXTENDS GossipLogProps, ListLemmas

\* What the theorems assume of the constants: no news comes after gossip about a
\* later version; a link does not change so often that vectors must grow.
InTime == ~LateNews
NoGrowth == MaxVersion < InitialSize

\* What the log of one controller says: log s, where t is the truth, h the version
\* heard, k the mark, m the maximum and l the versions learnt.
Facts(s, t, h, k, m, l) ==
  /\ s \in Seq(Entry) /\ m < Len(s)
  /\ m \in DOMAIN t /\ h \in 1..m /\ k \in 1..m + 1 /\ l \subseteq DOMAIN t
  /\ \A v \in 0..Len(s) - 1 :
       s[v + 1].known => v <= m /\ (v # 0 => v \in l /\ s[v + 1].state = t[v])
  /\ s[h + 1].known
  /\ \A v \in 1..k - 1 : s[v + 1].known

\* How long it is, where z is the size: each insertion since the vectors grew was of
\* another version, so that there are at most as many as the version heard last.
Fits(s, h, z) == z \in Nat /\ h < z /\ Len(s) \in z + 1..z + h + 1

\* Messages name versions that exist, and answers say what is true of them.
TrueMsg(t, msg) ==
  /\ msg.type \in {"GOSSIP", "GOSSIP_REP"} /\ msg.src \in Controllers /\ msg.dst \in Controllers
  /\ msg.type = "GOSSIP" => msg.max \in DOMAIN t /\ msg.gaps \subseteq DOMAIN t
  /\ msg.type = "GOSSIP_REP" => \A e \in msg.entries : e.version \in DOMAIN t /\ e.state = t[e.version]

\* The inductive invariant.
IInv ==
  /\ truth \in Seq(State) /\ Len(truth) \in 1..MaxVersion
  /\ log \in [Controllers -> Seq(Entry)]
  /\ heard \in [Controllers -> Nat] /\ marked \in [Controllers -> Nat] /\ max \in [Controllers -> Nat]
  /\ learnt \in [Controllers -> SUBSET Nat] /\ size \in [Controllers -> Nat]
  /\ running \in BOOLEAN /\ losses \in 0..MaxLoss
  /\ \A c \in Controllers :
       /\ Facts(log[c], truth, heard[c], marked[c], max[c], learnt[c])
       /\ Fits(log[c], heard[c], size[c])
  /\ \A msg \in msgs : TrueMsg(truth, msg)

-----------------------------------------------------------------------------
\* Logs as sequences.

LEMMA EntryType ==
  /\ Blank \in Entry /\ ~Blank.known
  /\ \A x \in State : Known(x) \in Entry /\ Known(x).known /\ Known(x).state = x
  /\ Known("DOWN") \in Entry /\ Known("UP") \in Entry
BY DEF Blank, Entry, Known, State

\* What emplace does: the entries before the place stay, the others move up.
LEMMA InsertType ==
  ASSUME NEW s \in Seq(Entry), NEW v \in 0..Len(s), NEW e \in Entry
  PROVE  /\ Insert(s, v, e) \in Seq(Entry) /\ Len(Insert(s, v, e)) = Len(s) + 1
         /\ \A i \in 1..Len(s) + 1 :
              Insert(s, v, e)[i] = IF i <= v THEN s[i] ELSE IF i = v + 1 THEN e ELSE s[i - 1]
<1> DEFINE n == Len(s)
           a == SubSeq(s, 1, v)
           b == SubSeq(s, v + 1, n)
<1>1. n \in Nat /\ v \in 0..n /\ \A i \in 1..n : s[i] \in Entry
  BY LenProperties, ElementOfSeq
<1>2. a \in Seq(Entry) /\ Len(a) = v /\ \A i \in 1..v : a[i] = s[i]
  <2>1. \A i \in 1..v : s[i] \in Entry
    BY <1>1
  <2>2. /\ a \in Seq(Entry) /\ Len(a) = IF 1 <= v THEN v - 1 + 1 ELSE 0
        /\ \A i \in 1..v - 1 + 1 : a[i] = s[1 + i - 1]
    BY <1>1, <2>1, SubSeqProperties
  <2> HIDE DEF a
  <2> QED
    BY <1>1, <2>2
<1>3. b \in Seq(Entry) /\ Len(b) = n - v /\ \A i \in 1..n - v : b[i] = s[v + i]
  <2>1. \A i \in v + 1..n : s[i] \in Entry
    BY <1>1
  <2>2. /\ b \in Seq(Entry) /\ Len(b) = IF v + 1 <= n THEN n - (v + 1) + 1 ELSE 0
        /\ \A i \in 1..n - (v + 1) + 1 : b[i] = s[(v + 1) + i - 1]
    BY <1>1, <2>1, SubSeqProperties
  <2> HIDE DEF b
  <2> QED
    BY <1>1, <2>2
<1>4. Insert(s, v, e) = a \o <<e>> \o b
  <2>1. (v + 1) - 1 = v
    BY <1>1
  <2> QED
    BY <2>1, Zenon DEF Insert, InsertAt
<1>5. <<e>> \in Seq(Entry) /\ Len(<<e>>) = 1 /\ <<e>>[1] = e
  OBVIOUS
<1> HIDE DEF a, b, n
<1>6. /\ a \o <<e>> \in Seq(Entry) /\ Len(a \o <<e>>) = v + 1
      /\ \A i \in 1..v + 1 : (a \o <<e>>)[i] = IF i <= v THEN a[i] ELSE e
  <2>1. /\ a \o <<e>> \in Seq(Entry) /\ Len(a \o <<e>>) = v + 1
        /\ \A i \in 1..v + 1 : (a \o <<e>>)[i] = IF i <= v THEN a[i] ELSE <<e>>[i - v]
    BY <1>2, <1>5, ConcatProperties
  <2>2. \A i \in 1..v + 1 : ~ (i <= v) => i - v = 1
    BY <1>1
  <2> QED
    BY <1>5, <2>1, <2>2
<1> DEFINE d == a \o <<e>>
<1>7. d \in Seq(Entry) /\ Len(d) = v + 1 /\ \A i \in 1..v + 1 : d[i] = IF i <= v THEN a[i] ELSE e
  BY <1>6
<1> HIDE DEF d
<1>8. /\ d \o b \in Seq(Entry) /\ Len(d \o b) = n + 1
      /\ \A i \in 1..n + 1 : (d \o b)[i] = IF i <= v + 1 THEN d[i] ELSE b[i - (v + 1)]
  <2>1. /\ d \o b \in Seq(Entry) /\ Len(d \o b) = Len(d) + Len(b)
        /\ \A i \in 1..Len(d) + Len(b) : (d \o b)[i] = IF i <= Len(d) THEN d[i] ELSE b[i - Len(d)]
    BY <1>3, <1>7, ConcatProperties
  <2>2. Len(d) + Len(b) = n + 1 /\ Len(d) = v + 1
    BY <1>1, <1>3, <1>7
  <2> QED
    BY <2>1, <2>2
<1>9. ASSUME NEW i \in 1..n + 1
      PROVE  (d \o b)[i] = IF i <= v THEN s[i] ELSE IF i = v + 1 THEN e ELSE s[i - 1]
  <2>1. CASE i <= v + 1
    BY <1>1, <1>2, <1>7, <1>8, <2>1
  <2>2. CASE ~ (i <= v + 1)
    <3>1. i - (v + 1) \in 1..n - v /\ v + (i - (v + 1)) = i - 1
      BY <1>1, <2>2
    <3> QED
      BY <1>1, <1>3, <1>8, <2>2, <3>1
  <2> QED
    BY <2>1, <2>2
<1> QED
  BY <1>4, <1>8, <1>9 DEF n, d

\* A log that was opened.
LEMMA OpenedType ==
  /\ Opened \in Seq(Entry) /\ Len(Opened) = InitialSize + 1
  /\ \A i \in 1..InitialSize + 1 : Opened[i].known => i = 1
<1> DEFINE b == Blanks(InitialSize)
<1>1. InitialSize \in Nat
  BY GossipAssumption
<1>2. b \in [1..InitialSize -> Entry] /\ \A i \in 1..InitialSize : b[i] = Blank
  BY EntryType DEF Blanks
<1> HIDE DEF b
<1>3. b \in Seq(Entry) /\ Len(b) = InitialSize
  BY <1>1, <1>2, SeqDef, LenProperties
<1>4. <<Known("DOWN")>> \in Seq(Entry) /\ Len(<<Known("DOWN")>>) = 1
  BY EntryType
<1> DEFINE a == <<Known("DOWN")>>
<1> HIDE DEF a
<1>5. /\ a \o b \in Seq(Entry) /\ Len(a \o b) = 1 + InitialSize
      /\ \A i \in 1..1 + InitialSize : (a \o b)[i] = IF i <= 1 THEN a[i] ELSE b[i - 1]
  BY <1>3, <1>4, ConcatProperties DEF a
<1>6. ASSUME NEW i \in 1..InitialSize + 1, i # 1 PROVE ~ (a \o b)[i].known
  <2>1. ~ (i <= 1) /\ i - 1 \in 1..InitialSize /\ i \in 1..1 + InitialSize
    BY <1>1, <1>6
  <2> QED
    BY <1>2, <1>5, <2>1, EntryType
<1> QED
  BY <1>1, <1>5, <1>6 DEF Opened, a, b

-----------------------------------------------------------------------------
\* What keeps a book in order.

\* What is known is known for good: the truth of a version does not change.
LEMMA TruthLasts ==
  ASSUME NEW t \in Seq(State), NEW x \in State
  PROVE  /\ Append(t, x) \in Seq(State) /\ Len(Append(t, x)) = Len(t) + 1
         /\ DOMAIN t \subseteq DOMAIN Append(t, x)
         /\ \A v \in DOMAIN t : Append(t, x)[v] = t[v]
BY AppendProperties, LenProperties

\* News of a version above the maximum.
LEMMA NewsKept ==
  ASSUME NEW t \in Seq(State), Len(t) \in 1..MaxVersion,
         NEW s, NEW h, NEW k, NEW m, NEW l, Facts(s, t, h, k, m, l),
         NEW v \in DOMAIN t, v > m, v <= Len(s)
  PROVE  /\ Facts(Insert(s, v, Known(t[v])), t, v, k, v, l \cup {v})
         /\ Len(Insert(s, v, Known(t[v]))) = Len(s) + 1
<1> DEFINE e == Known(t[v])
           r == Insert(s, v, e)
<1>1. DOMAIN t = 1..Len(t) /\ t[v] \in State /\ MaxVersion \in Nat /\ Len(t) \in Nat
  BY LenProperties, ElementOfSeq, GossipAssumption
<1>2. e \in Entry /\ e.known /\ e.state = t[v]
  BY <1>1, EntryType
<1>3. /\ s \in Seq(Entry) /\ Len(s) \in Nat /\ m < Len(s)
      /\ m \in 1..Len(t) /\ h \in 1..m /\ k \in 1..m + 1 /\ l \subseteq DOMAIN t
      /\ \A u \in 0..Len(s) - 1 :
           s[u + 1].known => u <= m /\ (u # 0 => u \in l /\ s[u + 1].state = t[u])
      /\ \A u \in 1..k - 1 : s[u + 1].known
  BY <1>1, LenProperties DEF Facts
<1>4. v \in 1..Len(t) /\ v \in 0..Len(s) /\ v \in Nat
  BY <1>1, <1>3
<1> HIDE DEF e
<1>5. /\ r \in Seq(Entry) /\ Len(r) = Len(s) + 1
      /\ \A i \in 1..Len(s) + 1 : r[i] = IF i <= v THEN s[i] ELSE IF i = v + 1 THEN e ELSE s[i - 1]
  <2>1. s \in Seq(Entry) /\ v \in 0..Len(s) /\ e \in Entry
    BY <1>2, <1>3, <1>4
  <2> QED
    BY ONLY <2>1, InsertType DEF r
<1> HIDE DEF r
<1>6. ASSUME NEW u \in 0..Len(r) - 1, r[u + 1].known
      PROVE  u <= v /\ (u # 0 => u \in l \cup {v} /\ r[u + 1].state = t[u])
  <2>0. u \in 0..Len(s)
    BY <1>3, <1>5
  <2>1. CASE u < v
    <3>1. u \in 0..Len(s) - 1 /\ u + 1 \in 1..Len(s) + 1 /\ u + 1 <= v
      BY <1>3, <1>4, <2>0, <2>1
    <3>2. r[u + 1] = s[u + 1]
      BY <1>5, <3>1
    <3> QED
      BY <1>3, <1>4, <1>6, <2>1, <3>1, <3>2
  <2>2. CASE u = v
    <3>0. u + 1 \in 1..Len(s) + 1 /\ ~ (u + 1 <= v) /\ u + 1 = v + 1
      BY <1>3, <1>4, <2>0, <2>2
    <3>1. r[u + 1] = e
      BY <1>5, <3>0
    <3> QED
      BY <1>2, <1>4, <2>2, <3>1
  <2>3. CASE u > v
    <3>1. u - 1 \in 0..Len(s) - 1 /\ ~ (u - 1 <= m) /\ (u + 1) - 1 = (u - 1) + 1
      BY <1>3, <1>4, <2>0, <2>3
    <3>2. u + 1 \in 1..Len(s) + 1 /\ ~ (u + 1 <= v) /\ u + 1 # v + 1
      BY <1>3, <1>4, <2>0, <2>3
    <3>3. r[u + 1] = s[(u - 1) + 1]
      BY <1>5, <3>1, <3>2
    <3> QED
      BY <1>3, <1>6, <3>1, <3>3
  <2> QED
    BY <1>3, <1>4, <1>5, <2>1, <2>2, <2>3
<1>7. r[v + 1].known
  <2>1. v + 1 \in 1..Len(s) + 1 /\ ~ (v + 1 <= v)
    BY <1>4
  <2> QED
    BY <1>2, <1>5, <2>1
<1>8. ASSUME NEW u \in 1..k - 1 PROVE r[u + 1].known
  <2>1. u + 1 <= v /\ u + 1 \in 1..Len(s) + 1
    BY <1>3, <1>4
  <2> QED
    BY <1>3, <1>5, <2>1
<1>9. v \in 1..v /\ k \in 1..v + 1 /\ v < Len(r)
  BY <1>1, <1>3, <1>4, <1>5
<1> QED
  BY <1>3, <1>5, <1>6, <1>7, <1>8, <1>9 DEF Facts, r, e

\* What Merged makes of a log.
Filled(s, es) ==
  [i \in DOMAIN s |->
     IF ~s[i].known /\ \E e \in es : e.version + 1 = i
     THEN Known((CHOOSE e \in es : e.version + 1 = i).state) ELSE s[i]]

Versions(es) == {e.version : e \in es}

\* Answers: they fill blanks, and the maximum follows.
LEMMA AnswersKept ==
  ASSUME NEW t \in Seq(State), Len(t) \in 1..MaxVersion,
         NEW s, NEW h, NEW k, NEW m, NEW l, Facts(s, t, h, k, m, l),
         NEW es, \A e \in es : e.version \in DOMAIN t /\ e.state = t[e.version],
         NEW n, n \in DOMAIN t, n >= m, n < Len(s),
         \A e \in es : ~s[e.version + 1].known => e.version <= n
  PROVE  /\ Facts(Filled(s, es), t, h, k, n, l \cup Versions(es))
         /\ Len(Filled(s, es)) = Len(s)
<1> DEFINE r == Filled(s, es)
<1>0. r = [i \in DOMAIN s |->
             IF ~s[i].known /\ \E e \in es : e.version + 1 = i
             THEN Known((CHOOSE e \in es : e.version + 1 = i).state) ELSE s[i]]
  BY DEF Filled
<1> HIDE DEF r
<1>1. DOMAIN t = 1..Len(t) /\ MaxVersion \in Nat /\ Len(t) \in Nat /\ \A v \in DOMAIN t : t[v] \in State
  BY LenProperties, ElementOfSeq, GossipAssumption
<1>2. /\ s \in Seq(Entry) /\ Len(s) \in Nat /\ m < Len(s) /\ DOMAIN s = 1..Len(s)
      /\ m \in 1..Len(t) /\ h \in 1..m /\ k \in 1..m + 1 /\ l \subseteq DOMAIN t
      /\ \A u \in 0..Len(s) - 1 :
           s[u + 1].known => u <= m /\ (u # 0 => u \in l /\ s[u + 1].state = t[u])
      /\ s[h + 1].known
      /\ \A u \in 1..k - 1 : s[u + 1].known
  BY <1>1, LenProperties DEF Facts
<1>3. \A i \in DOMAIN s : s[i] \in Entry
  BY <1>2, ElementOfSeq
<1>4. ASSUME NEW i \in DOMAIN s, ~s[i].known, \E e \in es : e.version + 1 = i
      PROVE  /\ r[i] \in Entry
             /\ \E e \in es : i = e.version + 1 /\ e.version \in DOMAIN t /\ r[i].state = t[e.version]
  <2>1. PICK e \in es : e.version + 1 = i /\ e = CHOOSE f \in es : f.version + 1 = i
    BY <1>4
  <2>2. r[i] = Known(e.state)
    BY <1>0, <1>4, <2>1
  <2>3. e.version \in DOMAIN t /\ e.state = t[e.version] /\ e.state \in State
    BY <1>1
  <2> QED
    BY <2>1, <2>2, <2>3, EntryType
<1>5. \A i \in DOMAIN s : s[i].known \/ ~ (\E e \in es : e.version + 1 = i) => r[i] = s[i]
  BY <1>0
<1>6. r \in Seq(Entry) /\ Len(r) = Len(s)
  <2>1. \A i \in DOMAIN s : r[i] \in Entry
    BY <1>3, <1>4, <1>5
  <2>2. r \in [1..Len(s) -> Entry]
    BY <1>0, <1>2, <2>1
  <2> QED
    BY <1>2, <2>2, SeqDef, LenProperties
<1>7. ASSUME NEW u \in 0..Len(r) - 1, r[u + 1].known
      PROVE  u <= n /\ (u # 0 => u \in l \cup Versions(es) /\ r[u + 1].state = t[u])
  <2>0. u \in 0..Len(s) - 1 /\ u + 1 \in DOMAIN s /\ u \in Nat
    BY <1>2, <1>6
  <2>1. CASE s[u + 1].known
    <3>1. u <= m /\ (u # 0 => u \in l /\ s[u + 1].state = t[u])
      BY <1>2, <2>0, <2>1
    <3>2. r[u + 1] = s[u + 1] /\ u <= n
      BY <1>1, <1>2, <1>5, <2>0, <2>1, <3>1
    <3> QED
      BY <3>1, <3>2
  <2>2. CASE ~s[u + 1].known
    <3>1. \E e \in es : e.version + 1 = u + 1
      BY <1>5, <1>7, <2>0, <2>2
    <3>2. PICK e \in es : u + 1 = e.version + 1 /\ e.version \in DOMAIN t /\ r[u + 1].state = t[e.version]
      BY <1>4, <2>0, <2>2, <3>1
    <3>3. e.version = u /\ u \in Versions(es)
      BY <1>1, <2>0, <3>2 DEF Versions
    <3> QED
      BY <2>2, <3>2, <3>3
  <2> QED
    BY <2>1, <2>2
<1>8. \A u \in 0..m : s[u + 1].known => r[u + 1].known
  <2>1. \A u \in 0..m : u + 1 \in DOMAIN s
    BY <1>1, <1>2
  <2> QED
    BY <1>5, <2>1
<1>9. r[h + 1].known /\ \A u \in 1..k - 1 : r[u + 1].known
  <2>1. h \in 0..m /\ \A u \in 1..k - 1 : u \in 0..m
    BY <1>1, <1>2
  <2> QED
    BY <1>2, <1>8, <2>1
<1>10. h \in 1..n /\ k \in 1..n + 1 /\ n < Len(r)
  BY <1>1, <1>2, <1>6
<1>11. l \cup Versions(es) \subseteq DOMAIN t
  BY <1>2 DEF Versions
<1> QED
  BY <1>6, <1>7, <1>9, <1>10, <1>11 DEF Facts, r

\* Nothing is known beyond the maximum.
LEMMA NothingBeyond ==
  ASSUME NEW t \in Seq(State), Len(t) \in 1..MaxVersion,
         NEW s, NEW h, NEW k, NEW m, NEW l, Facts(s, t, h, k, m, l)
  PROVE  /\ m \in 1..MaxVersion /\ h \in 1..m /\ k \in 1..m + 1
         /\ Len(s) \in Nat /\ MaxVersion \in Nat /\ m < Len(s)
         /\ ~ (m + 1 < Len(s) /\ s[(m + 1) + 1].known)
<1>1. /\ MaxVersion \in Nat /\ Len(t) \in Nat /\ Len(t) <= MaxVersion /\ Len(s) \in Nat
      /\ m \in 1..Len(t) /\ h \in 1..m /\ k \in 1..m + 1 /\ m < Len(s)
  BY LenProperties, GossipAssumption DEF Facts
<1>2. m + 1 < Len(s) => m + 1 \in 0..Len(s) - 1 /\ ~ (m + 1 <= m)
  BY <1>1
<1> QED
  BY <1>1, <1>2 DEF Facts

\* The largest version of a set.
LEMMA GreatestIn ==
  ASSUME NEW b \in Nat, NEW S \in SUBSET (1..b), S # {}
  PROVE  LET n == CHOOSE i \in S : \A v \in S : v <= i
         IN n \in S /\ \A v \in S : v <= n
<1> DEFINE T == {i \in Nat : \A v \in S : v <= i}
<1>1. b \in T /\ T \in SUBSET Nat
  OBVIOUS
<1>2. PICK i \in T : \A j \in T : i <= j
  <2>1. T \in SUBSET Nat /\ T # {}
    BY <1>1
  <2> HIDE DEF T
  <2> QED
    BY <2>1, LeastNumber
<1>3. i \in Nat /\ \A v \in S : v \in Nat /\ v >= 1 /\ v <= i
  BY <1>2
<1>4. i \in S
  <2>1. SUFFICES ASSUME i \notin S PROVE FALSE
    OBVIOUS
  <2>2. i # 0 /\ i - 1 \in Nat
    <3>1. PICK v \in S : v \in Nat /\ v >= 1 /\ v <= i
      BY <1>3
    <3> QED
      BY <1>3, <3>1
  <2>3. \A v \in S : v <= i - 1
    BY <1>3, <2>1
  <2> QED
    BY <1>2, <1>3, <2>2, <2>3
<1> QED
  BY <1>3, <1>4

\* The mark moves to the first version that is not known.
LEMMA MarkMoves ==
  ASSUME NEW t \in Seq(State), Len(t) \in 1..MaxVersion,
         NEW s, NEW h, NEW k, NEW m, NEW l, Facts(s, t, h, k, m, l),
         NEW f, f = CHOOSE v \in k..Len(s) : /\ ~ (v < Len(s) /\ s[v + 1].known)
                                             /\ \A u \in k..v - 1 : u < Len(s) /\ s[u + 1].known
  PROVE  Facts(s, t, h, f, m, l)
<1> DEFINE known(v) == v < Len(s) /\ s[v + 1].known
           T == {v \in Nat : v >= k /\ ~known(v)}
<1>1. /\ m \in Nat /\ k \in 1..m + 1 /\ Len(s) \in Nat
      /\ m < Len(s) /\ ~known(m + 1)
  BY NothingBeyond
<1>2. \A v \in 1..k - 1 : s[v + 1].known
  BY DEF Facts
<1> HIDE DEF known
<1>3. PICK v \in T : \A u \in T : v <= u
  <2>1. m + 1 \in T
    BY <1>1
  <2>2. T \in SUBSET Nat /\ T # {}
    BY <2>1
  <2> HIDE DEF T
  <2> QED
    BY <2>2, LeastNumber
<1>4. v \in k..Len(s) /\ ~known(v) /\ \A u \in k..v - 1 : known(u)
  <2>1. v \in Nat /\ v >= k /\ ~known(v) /\ v <= m + 1
    BY <1>1, <1>3
  <2>2. ASSUME NEW u \in k..v - 1 PROVE known(u)
    <3>1. u \in Nat /\ u >= k /\ ~ (v <= u)
      BY <1>1, <2>1
    <3> QED
      BY <1>3, <3>1
  <2> QED
    BY <1>1, <2>1, <2>2
<1>5. f \in k..Len(s) /\ ~known(f) /\ \A u \in k..f - 1 : known(u)
  <2>1. f = CHOOSE w \in k..Len(s) : ~known(w) /\ \A u \in k..w - 1 : known(u)
    BY DEF known
  <2> QED
    BY <1>4, <2>1
<1>6. f \in 1..m + 1
  <2>1. ~ (f > m + 1)
    <3>1. f > m + 1 => m + 1 \in k..f - 1
      BY <1>1, <1>5
    <3> QED
      BY <1>1, <1>5, <3>1
  <2> QED
    BY <1>1, <1>5, <2>1
<1>7. ASSUME NEW u \in 1..f - 1 PROVE s[u + 1].known
  <2>1. u \in 1..k - 1 \/ u \in k..f - 1
    BY <1>1, <1>6
  <2> QED
    BY <1>2, <1>5, <2>1 DEF known
<1> QED
  BY <1>6, <1>7 DEF Facts

-----------------------------------------------------------------------------
\* How vectors grow.

\* Each round of the loop makes the vectors longer.
LEMMA SizesGrow ==
  ASSUME NEW v \in Nat, NEW n \in Nat \ {0}, n <= v
  PROVE  NextSize(v, n) \in Nat /\ NextSize(v, n) > n
<1>1. GrowBy \in Nat \ {0}
  BY GossipAssumption
<1> QED
  BY <1>1 DEF NextSize

\* The loop ends, for every version and every size to begin with.
LEMMA LoopEnds ==
  ASSUME NEW v \in Nat
  PROVE  \E g : g = [n \in Nat \ {0} |-> IF v < n THEN n ELSE g[NextSize(v, n)]]
<1> DEFINE From(k) == {n \in Nat \ {0} : n > v - k}
           Ends(k) == \E g : g = [n \in From(k) |-> IF v < n THEN n ELSE g[NextSize(v, n)]]
           Bad == {k \in Nat : k <= v /\ ~Ends(k)}
<1>1. Ends(0)
  <2> DEFINE g == [n \in From(0) |-> n]
  <2>1. \A n \in From(0) : v < n
    OBVIOUS
  <2>2. g = [n \in From(0) |-> IF v < n THEN n ELSE g[NextSize(v, n)]]
    BY <2>1
  <2> HIDE DEF g
  <2> QED
    BY <2>2
<1>2. ASSUME NEW k \in Nat, k > 0, k <= v, Ends(k - 1) PROVE Ends(k)
  <2> DEFINE n0 == v - k + 1
             A == From(k - 1)
             B == From(k)
  <2>1. PICK f : f = [n \in A |-> IF v < n THEN n ELSE f[NextSize(v, n)]]
    BY <1>2
  <2>2. /\ n0 \in Nat \ {0} /\ n0 <= v
        /\ A \subseteq Nat \ {0} /\ B = A \cup {n0} /\ n0 \notin A
        /\ \A n \in Nat : n > n0 => n \in A
    BY <1>2
  <2> DEFINE g == [n \in B |-> IF n = n0 THEN f[NextSize(v, n)] ELSE f[n]]
  <2> HIDE DEF A, B, n0
  <2>3. ASSUME NEW n \in B PROVE g[n] = IF v < n THEN n ELSE g[NextSize(v, n)]
    <3>1. CASE n = n0
      <4>1. NextSize(v, n0) \in A /\ NextSize(v, n0) # n0
        BY <2>2, SizesGrow
      <4>2. g[n0] = f[NextSize(v, n0)] /\ g[NextSize(v, n0)] = f[NextSize(v, n0)] /\ ~ (v < n0)
        BY <2>2, <4>1
      <4> QED
        BY <3>1, <4>2
    <3>2. CASE n # n0
      <4>1. n \in A /\ g[n] = f[n] /\ n \in Nat \ {0}
        BY <2>2, <2>3, <3>2
      <4>2. f[n] = IF v < n THEN n ELSE f[NextSize(v, n)]
        BY <2>1, <4>1
      <4>3. CASE v < n
        BY <4>1, <4>2, <4>3
      <4>4. CASE ~ (v < n)
        <5>1. NextSize(v, n) \in Nat /\ NextSize(v, n) > n
          BY <4>1, <4>4, SizesGrow
        <5>2. n > n0
          BY <1>2, <4>1, <2>2 DEF A, From, n0
        <5>3. NextSize(v, n) \in A /\ NextSize(v, n) # n0
          BY <2>2, <4>1, <5>1, <5>2
        <5>4. g[NextSize(v, n)] = f[NextSize(v, n)]
          BY <2>2, <5>3
        <5> QED
          BY <4>1, <4>2, <5>4
      <4> QED
        BY <4>3, <4>4
    <3> QED
      BY <3>1, <3>2
  <2>4. g = [n \in B |-> g[n]]
    OBVIOUS
  <2> HIDE DEF g
  <2>5. g = [n \in B |-> IF v < n THEN n ELSE g[NextSize(v, n)]]
    BY <2>3, <2>4
  <2> QED
    BY <2>5 DEF B
<1> HIDE DEF Ends
<1>3. Bad = {}
  <2>1. SUFFICES ASSUME Bad # {} PROVE FALSE
    OBVIOUS
  <2>2. PICK k \in Bad : \A j \in Bad : k <= j
    <3>1. Bad \in SUBSET Nat
      OBVIOUS
    <3> HIDE DEF Bad
    <3> QED
      BY <2>1, <3>1, LeastNumber
  <2>3. k \in Nat /\ k > 0 /\ k <= v /\ k - 1 \in Nat /\ ~ (k - 1 \in Bad)
    BY <1>1, <2>2
  <2> QED
    BY <1>2, <2>2, <2>3
<1>4. From(v) = Nat \ {0}
  OBVIOUS
<1> QED
  BY <1>3, <1>4 DEF Ends

\* At the end of the loop the version fits, and all rounds were below that size.
LEMMA LastSizeFits ==
  ASSUME NEW v \in Nat
  PROVE  \A n \in Nat \ {0} :
           /\ LastSize(v)[n] \in Nat /\ LastSize(v)[n] > v /\ LastSize(v)[n] >= n
           /\ n <= v => LastSize(v)[n] >= NextSize(v, n)
<1> DEFINE g == LastSize(v)
           D == Nat \ {0}
           Good(n) == g[n] \in Nat /\ g[n] > v /\ g[n] >= n
           Bad == {d \in Nat : \E n \in D : n <= v /\ d = v - n /\ ~Good(n)}
<1>1. g = [n \in D |-> IF v < n THEN n ELSE g[NextSize(v, n)]]
  <2>1. g = CHOOSE f : f = [n \in D |-> IF v < n THEN n ELSE f[NextSize(v, n)]]
    BY DEF LastSize
  <2> HIDE DEF g
  <2> QED
    BY <2>1, LoopEnds
<1> HIDE DEF g
<1>2. \A n \in D : g[n] = IF v < n THEN n ELSE g[NextSize(v, n)]
  BY <1>1
<1>3. \A n \in D : v < n => Good(n)
  BY <1>2
<1>4. Bad = {}
  <2>1. SUFFICES ASSUME Bad # {} PROVE FALSE
    OBVIOUS
  <2>2. PICK d \in Bad : \A e \in Bad : d <= e
    <3>1. Bad \in SUBSET Nat
      OBVIOUS
    <3> HIDE DEF Bad
    <3> QED
      BY <2>1, <3>1, LeastNumber
  <2>3. PICK n \in D : n <= v /\ d = v - n /\ ~Good(n)
    BY <2>2
  <2>4. NextSize(v, n) \in Nat /\ NextSize(v, n) > n /\ NextSize(v, n) \in D
    BY <2>3, SizesGrow
  <2>5. Good(NextSize(v, n))
    <3>1. CASE v < NextSize(v, n)
      BY <1>3, <2>4, <3>1
    <3>2. CASE ~ (v < NextSize(v, n))
      <4>1. v - NextSize(v, n) \in Nat /\ v - NextSize(v, n) < d /\ NextSize(v, n) <= v
        BY <2>3, <2>4, <3>2
      <4>2. v - NextSize(v, n) \notin Bad
        BY <2>2, <4>1
      <4> HIDE DEF Good
      <4> QED
        BY <2>4, <4>1, <4>2
    <3> QED
      BY <3>1, <3>2
  <2>6. g[n] = g[NextSize(v, n)]
    BY <1>2, <2>3
  <2> QED
    BY <2>3, <2>4, <2>5, <2>6
<1>5. \A n \in D : Good(n)
  <2>1. SUFFICES ASSUME NEW n \in D, ~ (v < n) PROVE Good(n)
    BY <1>3
  <2>2. n <= v /\ v - n \in Nat
    BY <2>1
  <2> HIDE DEF Good
  <2> QED
    BY <1>4, <2>2
<1>6. \A n \in D : n <= v => g[n] >= NextSize(v, n)
  <2>1. SUFFICES ASSUME NEW n \in D, n <= v PROVE g[n] >= NextSize(v, n)
    OBVIOUS
  <2>2. NextSize(v, n) \in D
    BY <2>1, SizesGrow
  <2>3. g[n] = g[NextSize(v, n)]
    BY <1>2, <2>1
  <2> QED
    BY <1>5, <2>2, <2>3
<1> QED
  BY <1>5, <1>6 DEF g

\* What resize does.
LEMMA ResizeType ==
  ASSUME NEW s \in Seq(Entry), NEW n \in Nat
  PROVE  /\ Resize(s, n) \in Seq(Entry) /\ Len(Resize(s, n)) = n
         /\ \A i \in 1..n : Resize(s, n)[i] = IF i <= Len(s) THEN s[i] ELSE Blank
<1>1. Resize(s, n) = [i \in 1..n |-> IF i <= Len(s) THEN s[i] ELSE Blank]
  BY DEF Resize
<1>2. \A i \in 1..n : (IF i <= Len(s) THEN s[i] ELSE Blank) \in Entry
  <2>1. Len(s) \in Nat /\ \A i \in 1..Len(s) : s[i] \in Entry
    BY LenProperties, ElementOfSeq
  <2> QED
    BY <2>1, EntryType
<1>3. Resize(s, n) \in [1..n -> Entry]
  BY <1>1, <1>2
<1> QED
  BY <1>1, <1>3, SeqDef, LenProperties

\* Growing cuts off nothing that is known: a vector is less than twice its size
\* long, and a new version is above the maximum.
LEMMA GrowthKeeps ==
  ASSUME NEW t \in Seq(State), Len(t) \in 1..MaxVersion,
         NEW s, NEW h, NEW k, NEW m, NEW l, Facts(s, t, h, k, m, l),
         NEW z, Fits(s, h, z), NEW v \in DOMAIN t, v > m, v >= z
  PROVE  /\ Facts(Resized(s, v, z), t, h, k, m, l)
         /\ Len(Resized(s, v, z)) = LastSize(v)[z]
         /\ LastSize(v)[z] \in Nat /\ LastSize(v)[z] > v
<1> DEFINE a == NextSize(v, z)
           b == LastSize(v)[z]
           q == Resize(s, a)
           r == Resize(q, b)
<1>1. /\ DOMAIN t = 1..Len(t) /\ Len(t) \in Nat /\ s \in Seq(Entry) /\ Len(s) \in Nat /\ m < Len(s)
      /\ m \in 1..Len(t) /\ h \in 1..m /\ k \in 1..m + 1 /\ l \subseteq DOMAIN t
      /\ \A u \in 0..Len(s) - 1 :
           s[u + 1].known => u <= m /\ (u # 0 => u \in l /\ s[u + 1].state = t[u])
      /\ s[h + 1].known
      /\ \A u \in 1..k - 1 : s[u + 1].known
  BY LenProperties DEF Facts
<1>2. v \in Nat /\ z \in Nat \ {0} /\ z <= v /\ h < z /\ Len(s) <= z + h + 1
  BY <1>1 DEF Fits
<1>3. a \in Nat /\ b \in Nat /\ b > v /\ a <= b
  BY <1>2, SizesGrow, LastSizeFits
<1>4. m < a
  <2>1. GrowBy \in Nat \ {0}
    BY GossipAssumption
  <2>2. CASE z < HighWater
    <3>1. a = z * 2
      BY <2>2 DEF NextSize
    <3> QED
      BY <1>1, <1>2, <3>1
  <2>3. CASE ~ (z < HighWater)
    <3>1. a = v + GrowBy
      BY <2>3 DEF NextSize
    <3> QED
      BY <1>1, <1>2, <2>1, <3>1
  <2> QED
    BY <2>2, <2>3
<1> HIDE DEF a, b
<1>5. /\ q \in Seq(Entry) /\ Len(q) = a
      /\ \A i \in 1..a : q[i] = IF i <= Len(s) THEN s[i] ELSE Blank
  BY <1>1, <1>3, ResizeType
<1> HIDE DEF q
<1>6. /\ r \in Seq(Entry) /\ Len(r) = b
      /\ \A i \in 1..b : r[i] = IF i <= a THEN q[i] ELSE Blank
  BY <1>3, <1>5, ResizeType
<1> HIDE DEF r
<1>7. \A u \in 0..m : r[u + 1] = s[u + 1]
  <2>1. SUFFICES ASSUME NEW u \in 0..m PROVE r[u + 1] = s[u + 1]
    OBVIOUS
  <2>2. u + 1 \in 1..a /\ u + 1 \in 1..b /\ u + 1 <= Len(s)
    BY <1>1, <1>3, <1>4
  <2> QED
    BY <1>5, <1>6, <2>2
<1>8. ASSUME NEW u \in 0..Len(r) - 1, r[u + 1].known PROVE u \in 0..Len(s) - 1 /\ r[u + 1] = s[u + 1]
  <2>1. u + 1 \in 1..b
    BY <1>3, <1>6
  <2>2. u + 1 \in 1..a /\ r[u + 1] = q[u + 1]
    BY <1>3, <1>6, <1>8, <2>1, EntryType
  <2>3. u + 1 <= Len(s) /\ q[u + 1] = s[u + 1]
    BY <1>5, <1>8, <2>2, EntryType
  <2> QED
    BY <1>1, <1>3, <1>6, <2>2, <2>3
<1>9. m < Len(r)
  BY <1>1, <1>2, <1>3, <1>6
<1>10. r[h + 1].known /\ \A u \in 1..k - 1 : r[u + 1].known
  BY <1>1, <1>7
<1>11. Facts(r, t, h, k, m, l)
  BY <1>1, <1>6, <1>8, <1>9, <1>10 DEF Facts
<1>12. Resized(s, v, z) = r
  BY DEF Resized, a, b, q, r
<1> QED
  BY <1>3, <1>6, <1>11, <1>12 DEF b

-----------------------------------------------------------------------------
\* The steps.

\* What follows for one controller.
LEMMA ControllerFacts ==
  ASSUME IInv, NEW c \in Controllers
  PROVE  /\ Facts(log[c], truth, heard[c], marked[c], max[c], learnt[c])
         /\ Fits(log[c], heard[c], size[c])
         /\ truth \in Seq(State) /\ Len(truth) \in 1..MaxVersion /\ MaxVersion \in Nat
         /\ max[c] \in 1..MaxVersion /\ heard[c] \in 1..max[c] /\ marked[c] \in 1..max[c] + 1
         /\ Len(log[c]) \in Nat /\ max[c] < Len(log[c])
         /\ ~ (max[c] + 1 < Len(log[c]) /\ log[c][(max[c] + 1) + 1].known)
<1>1. /\ Facts(log[c], truth, heard[c], marked[c], max[c], learnt[c])
      /\ Fits(log[c], heard[c], size[c])
      /\ truth \in Seq(State) /\ Len(truth) \in 1..MaxVersion
  BY DEF IInv
<1> QED
  BY <1>1, NothingBeyond

LEMMA InitIInv ==
  ASSUME Init
  PROVE  IInv
<1>1. /\ InitialSize \in Nat /\ MaxVersion \in Nat \ {0} /\ MaxLoss \in Nat
      /\ 1 < InitialSize
  BY GossipAssumption
<1>2. "UP" \in State /\ <<"UP">> \in Seq(State) /\ Len(<<"UP">>) = 1 /\ DOMAIN <<"UP">> = 1..1
  BY DEF State
<1> DEFINE s == Insert(Opened, 1, Known("UP"))
<1>3. /\ s \in Seq(Entry) /\ Len(s) = InitialSize + 2
      /\ \A i \in 1..InitialSize + 2 :
           s[i] = IF i <= 1 THEN Opened[i] ELSE IF i = 2 THEN Known("UP") ELSE Opened[i - 1]
  <2>1. Opened \in Seq(Entry) /\ Len(Opened) = InitialSize + 1 /\ Known("UP") \in Entry
    BY OpenedType, EntryType
  <2>2. 1 \in 0..Len(Opened)
    BY <1>1, <2>1
  <2>3. ASSUME NEW o \in Seq(Entry), NEW e \in Entry, 1 \in 0..Len(o)
        PROVE  /\ Insert(o, 1, e) \in Seq(Entry) /\ Len(Insert(o, 1, e)) = Len(o) + 1
               /\ \A i \in 1..Len(o) + 1 :
                    Insert(o, 1, e)[i] = IF i <= 1 THEN o[i] ELSE IF i = 2 THEN e ELSE o[i - 1]
    <3>1. /\ Insert(o, 1, e) \in Seq(Entry) /\ Len(Insert(o, 1, e)) = Len(o) + 1
          /\ \A i \in 1..Len(o) + 1 :
               Insert(o, 1, e)[i] = IF i <= 1 THEN o[i] ELSE IF i = 1 + 1 THEN e ELSE o[i - 1]
      BY ONLY <2>3, InsertType
    <3> QED
      BY ONLY <3>1
  <2>4. Len(Opened) + 1 = InitialSize + 2
    BY <1>1, <2>1
  <2> QED
    BY <2>1, <2>2, <2>3, <2>4
<1> HIDE DEF s
<1>4. s[1 + 1].known /\ s[1 + 1].state = "UP"
  BY <1>1, <1>2, <1>3, EntryType
<1>5. ASSUME NEW v \in 0..Len(s) - 1, s[v + 1].known PROVE v <= 1
  <2>1. SUFFICES ASSUME v > 1 PROVE FALSE
    BY <1>1, <1>3
  <2>2. v + 1 \in 1..InitialSize + 2 /\ ~ (v + 1 <= 1) /\ v + 1 # 2 /\ (v + 1) - 1 \in 1..InitialSize + 1
        /\ (v + 1) - 1 # 1
    BY <1>1, <1>3, <2>1
  <2>3. s[v + 1] = Opened[(v + 1) - 1]
    BY <1>3, <2>2
  <2> QED
    BY <1>5, <2>2, <2>3, OpenedType
<1>6. Facts(s, <<"UP">>, 1, 1, 1, {1}) /\ Fits(s, 1, InitialSize)
  <2>1. 1 < Len(s) /\ Fits(s, 1, InitialSize)
    BY <1>1, <1>3 DEF Fits
  <2>2. \A v \in 0..Len(s) - 1 : v <= 1 => v = 0 \/ v = 1
    OBVIOUS
  <2>3. \A v \in 0..Len(s) - 1 :
          s[v + 1].known => v <= 1 /\ (v # 0 => v \in {1} /\ s[v + 1].state = <<"UP">>[v])
    BY <1>4, <1>5, <2>2
  <2>4. 1 \in 1..1 /\ 1 \in 1..1 + 1 /\ 1..1 - 1 = {}
    OBVIOUS
  <2> QED
    BY <1>2, <1>3, <1>4, <2>1, <2>3, <2>4 DEF Facts
<1>7. truth \in Seq(State) /\ Len(truth) \in 1..MaxVersion /\ losses \in 0..MaxLoss
  BY <1>1, <1>2 DEF Init
<1>8. \A c \in Controllers : /\ log[c] = s /\ heard[c] = 1 /\ marked[c] = 1 /\ max[c] = 1
                             /\ learnt[c] = {1} /\ size[c] = InitialSize
  BY DEF Init, s
<1>9. log \in [Controllers -> Seq(Entry)]
  BY <1>3 DEF Init, s
<1>10. /\ heard \in [Controllers -> Nat] /\ marked \in [Controllers -> Nat]
       /\ max \in [Controllers -> Nat] /\ learnt \in [Controllers -> SUBSET Nat]
       /\ size \in [Controllers -> Nat]
  BY <1>1 DEF Init
<1> QED
  BY <1>6, <1>7, <1>8, <1>9, <1>10 DEF Init, IInv

LEMMA ChangeKeepsIInv ==
  ASSUME IInv, NEW x \in State, Change(x)
  PROVE  IInv'
<1>1. /\ truth \in Seq(State) /\ Len(truth) \in 1..MaxVersion /\ MaxVersion \in Nat
      /\ Len(truth) < MaxVersion /\ truth' = Append(truth, x)
      /\ UNCHANGED <<heard, log, marked, size, max, msgs, running, learnt, losses>>
  BY GossipAssumption DEF IInv, Change
<1>2. /\ truth' \in Seq(State) /\ Len(truth') = Len(truth) + 1
      /\ DOMAIN truth \subseteq DOMAIN truth' /\ \A v \in DOMAIN truth : truth'[v] = truth[v]
  BY <1>1, TruthLasts
<1>3. Len(truth') \in 1..MaxVersion
  BY <1>1, <1>2
<1>4. ASSUME NEW c \in Controllers
      PROVE  Facts(log[c], truth', heard[c], marked[c], max[c], learnt[c])
  <2>1. Facts(log[c], truth, heard[c], marked[c], max[c], learnt[c])
    BY DEF IInv
  <2> QED
    BY <1>2, <2>1 DEF Facts
<1>5. ASSUME NEW msg \in msgs PROVE TrueMsg(truth', msg)
  <2>1. TrueMsg(truth, msg)
    BY DEF IInv
  <2> QED
    BY <1>2, <2>1 DEF TrueMsg
<1> QED
  BY <1>1, <1>2, <1>3, <1>4, <1>5 DEF IInv

LEMMA LearnKeepsIInv ==
  ASSUME InTime, IInv, NEW c \in Controllers, NEW v \in DOMAIN truth, Learn(c, v)
  PROVE  IInv'
<1> DEFINE g == IF v >= size[c] THEN Resized(log[c], v, size[c]) ELSE log[c]
           z == IF v >= size[c] THEN LastSize(v)[size[c]] ELSE size[c]
           r == Insert(g, v, Known(truth[v]))
<1>1. /\ Facts(log[c], truth, heard[c], marked[c], max[c], learnt[c]) /\ Fits(log[c], heard[c], size[c])
      /\ truth \in Seq(State) /\ Len(truth) \in 1..MaxVersion /\ MaxVersion \in Nat
      /\ max[c] \in 1..MaxVersion /\ heard[c] \in 1..max[c]
  BY ControllerFacts
<1>2. v \in 1..MaxVersion /\ v > max[c] /\ v > heard[c]
  BY <1>1, LenProperties DEF Learn, InTime
<1>3. /\ log' = [log EXCEPT ![c] = r] /\ size' = [size EXCEPT ![c] = z]
      /\ max' = [max EXCEPT ![c] = v] /\ heard' = [heard EXCEPT ![c] = v]
      /\ learnt' = [learnt EXCEPT ![c] = learnt[c] \cup {v}]
      /\ UNCHANGED <<truth, marked, msgs, running, losses>>
  <2>1. max[c] < v
    BY <1>1, <1>2
  <2> QED
    BY <2>1 DEF Learn
<1>4. /\ Facts(g, truth, heard[c], marked[c], max[c], learnt[c])
      /\ z \in Nat /\ v < z /\ Len(g) \in z..z + v
  <2>1. CASE v >= size[c]
    <3>1. /\ Facts(Resized(log[c], v, size[c]), truth, heard[c], marked[c], max[c], learnt[c])
          /\ Len(Resized(log[c], v, size[c])) = LastSize(v)[size[c]]
          /\ LastSize(v)[size[c]] \in Nat /\ LastSize(v)[size[c]] > v
      BY <1>1, <1>2, <2>1, GrowthKeeps
    <3>2. g = Resized(log[c], v, size[c]) /\ z = LastSize(v)[size[c]]
      BY <2>1
    <3> HIDE DEF g, z
    <3> QED
      BY <1>2, <3>1, <3>2
  <2>2. CASE ~ (v >= size[c])
    BY <1>1, <1>2, <2>2 DEF Fits
  <2> QED
    BY <2>1, <2>2
<1> HIDE DEF g, z
<1>5. /\ Facts(r, truth, v, marked[c], v, learnt[c] \cup {v})
      /\ Len(r) = Len(g) + 1
  <2>1. /\ truth \in Seq(State) /\ Len(truth) \in 1..MaxVersion
        /\ Facts(g, truth, heard[c], marked[c], max[c], learnt[c])
        /\ v \in DOMAIN truth /\ v > max[c] /\ v <= Len(g)
    BY <1>1, <1>2, <1>4
  <2> QED
    BY ONLY <2>1, NewsKept DEF r
<1> HIDE DEF r
<1>6. Fits(r, v, z)
  BY <1>2, <1>4, <1>5 DEF Fits
<1>7. r \in Seq(Entry)
  BY <1>5 DEF Facts
<1>8. /\ log' \in [Controllers -> Seq(Entry)] /\ heard' \in [Controllers -> Nat]
      /\ max' \in [Controllers -> Nat] /\ learnt' \in [Controllers -> SUBSET Nat]
      /\ size' \in [Controllers -> Nat]
  BY <1>2, <1>3, <1>4, <1>7 DEF IInv
<1>9. ASSUME NEW d \in Controllers
      PROVE  /\ Facts(log'[d], truth, heard'[d], marked[d], max'[d], learnt'[d])
             /\ Fits(log'[d], heard'[d], size'[d])
  <2>1. CASE d = c
    <3>1. /\ log'[d] = r /\ heard'[d] = v /\ max'[d] = v
          /\ learnt'[d] = learnt[c] \cup {v} /\ size'[d] = z
      BY <1>3, <2>1 DEF IInv
    <3> QED
      BY <1>5, <1>6, <2>1, <3>1
  <2>2. CASE d # c
    <3>1. /\ log'[d] = log[d] /\ heard'[d] = heard[d] /\ max'[d] = max[d]
          /\ learnt'[d] = learnt[d] /\ size'[d] = size[d]
      BY <1>3, <2>2 DEF IInv
    <3> QED
      BY <3>1 DEF IInv
  <2> QED
    BY <2>1, <2>2
<1> QED
  BY <1>3, <1>8, <1>9 DEF IInv

\* A program that has ended.
LEMMA HaltKeepsIInv ==
  ASSUME IInv, Halt
  PROVE  IInv'
BY DEF IInv, Halt

LEMMA SendGossipKeepsIInv ==
  ASSUME IInv, NEW c \in Controllers, SendGossip(c)
  PROVE  IInv'
<1>1. /\ Facts(log[c], truth, heard[c], marked[c], max[c], learnt[c])
      /\ truth \in Seq(State) /\ Len(truth) \in 1..MaxVersion
      /\ max[c] \in 1..MaxVersion /\ marked[c] \in 1..max[c] + 1 /\ MaxVersion \in Nat
  BY ControllerFacts
<1>2. SUFFICES ASSUME ~ (marked[c] < max[c] /\ ~SearchEnds(c)) PROVE IInv'
  BY HaltKeepsIInv DEF SendGossip
<1> DEFINE f == IF marked[c] < max[c] THEN FirstUnknown(c) ELSE marked[c]
<1>3. /\ marked' = [marked EXCEPT ![c] = f]
      /\ msgs' = msgs \cup {[type |-> "GOSSIP", src |-> c, dst |-> d, max |-> max[c], gaps |-> Gaps(c)] : d \in Controllers}
      /\ UNCHANGED <<truth, heard, log, size, max, running, learnt, losses>>
  BY <1>2 DEF SendGossip
<1>4. Facts(log[c], truth, heard[c], f, max[c], learnt[c])
  <2>1. CASE marked[c] < max[c]
    <3>1. f = CHOOSE v \in marked[c]..Len(log[c]) :
                /\ ~ (v < Len(log[c]) /\ log[c][v + 1].known)
                /\ \A u \in marked[c]..v - 1 : u < Len(log[c]) /\ log[c][u + 1].known
      BY <2>1 DEF FirstUnknown, KnownAt, Length, At
    <3> HIDE DEF f
    <3> QED
      BY <1>1, <3>1, MarkMoves
  <2>2. CASE ~ (marked[c] < max[c])
    BY <1>1, <2>2
  <2> QED
    BY <2>1, <2>2
<1> HIDE DEF f
<1>5. f \in Nat
  BY <1>1, <1>4 DEF Facts
<1>6. Gaps(c) \subseteq DOMAIN truth /\ max[c] \in DOMAIN truth
  <2>1. DOMAIN truth = 1..Len(truth) /\ max[c] \in DOMAIN truth
    BY <1>1, LenProperties DEF Facts
  <2>2. marked[c]..max[c] - 1 \subseteq 1..Len(truth)
    BY <1>1, <2>1
  <2> QED
    BY <2>1, <2>2 DEF Gaps
<1>7. \A msg \in msgs' : TrueMsg(truth, msg)
  BY <1>3, <1>6 DEF TrueMsg, IInv
<1>8. \A d \in Controllers : marked'[d] = IF d = c THEN f ELSE marked[d]
  BY <1>3 DEF IInv
<1>9. marked' \in [Controllers -> Nat]
  BY <1>3, <1>5 DEF IInv
<1> QED
  BY <1>3, <1>4, <1>7, <1>8, <1>9 DEF IInv

LEMMA HandleGossipKeepsIInv ==
  ASSUME IInv, NEW c \in Controllers, NEW msg \in msgs, HandleGossip(c, msg)
  PROVE  IInv'
<1>1. /\ Facts(log[c], truth, heard[c], marked[c], max[c], learnt[c])
      /\ truth \in Seq(State) /\ Len(truth) \in 1..MaxVersion
      /\ max[c] \in 1..MaxVersion /\ MaxVersion \in Nat
      /\ Len(log[c]) \in Nat /\ max[c] < Len(log[c])
  BY ControllerFacts
<1>2. TrueMsg(truth, msg) /\ msg.type = "GOSSIP" /\ DOMAIN truth = 1..Len(truth)
  BY <1>1, LenProperties DEF IInv, HandleGossip
<1>3. \A v \in Wanted(c, msg) : v \in 1..max[c] /\ v < Len(log[c])
  BY <1>1, <1>2 DEF Wanted, TrueMsg
<1>4. ~ (\E v \in Wanted(c, msg) : v >= Length(c))
  BY <1>1, <1>3 DEF Length
<1> DEFINE r == [type |-> "GOSSIP_REP", src |-> c, dst |-> msg.src, entries |-> Response(c, msg)]
<1>5. /\ msgs' \subseteq msgs \cup {r}
      /\ UNCHANGED <<truth, heard, log, marked, size, max, running, learnt, losses>>
  BY <1>4 DEF HandleGossip
<1>6. ASSUME NEW e \in Response(c, msg)
      PROVE  e.version \in DOMAIN truth /\ e.state = truth[e.version]
  <2>1. PICK v \in Wanted(c, msg) : KnownAt(c, v) /\ e = [version |-> v, state |-> At(c, v).state]
    BY DEF Response
  <2>2. v \in 0..Len(log[c]) - 1 /\ v # 0 /\ log[c][v + 1].known
    BY <1>1, <1>3, <2>1 DEF KnownAt, At
  <2>3. v \in learnt[c] /\ log[c][v + 1].state = truth[v] /\ learnt[c] \subseteq DOMAIN truth
    BY <1>1, <2>2 DEF Facts
  <2> QED
    BY <2>1, <2>3 DEF At
<1>7. TrueMsg(truth, r)
  BY <1>2, <1>6 DEF TrueMsg
<1> HIDE DEF r
<1>8. \A m \in msgs' : TrueMsg(truth, m)
  BY <1>5, <1>7 DEF IInv
<1> QED
  BY <1>5, <1>8 DEF IInv

LEMMA HandleGossipRepKeepsIInv ==
  ASSUME IInv, NEW c \in Controllers, NEW msg \in msgs, HandleGossipRep(c, msg)
  PROVE  IInv'
<1> DEFINE es == msg.entries
           told == {e.version : e \in es}
           new == {v \in told : ~KnownAt(c, v)}
           n == NewMax(c, new)
<1>1. /\ Facts(log[c], truth, heard[c], marked[c], max[c], learnt[c])
      /\ truth \in Seq(State) /\ Len(truth) \in 1..MaxVersion
      /\ max[c] \in 1..MaxVersion /\ MaxVersion \in Nat
      /\ Len(log[c]) \in Nat /\ max[c] < Len(log[c])
  BY ControllerFacts
<1>2. /\ \A e \in es : e.version \in DOMAIN truth /\ e.state = truth[e.version]
      /\ DOMAIN truth = 1..Len(truth) /\ max[c] \in DOMAIN truth
  BY <1>1, LenProperties DEF IInv, HandleGossipRep, TrueMsg, Facts
<1>3. SUFFICES ASSUME ~ (\E v \in told : v >= Length(c)) PROVE IInv'
  BY HaltKeepsIInv DEF HandleGossipRep
<1>4. \A v \in told : v \in 1..Len(truth) /\ v < Len(log[c])
  <2>1. \A v \in told : v \in 1..Len(truth) /\ ~ (v >= Len(log[c]))
    BY <1>2, <1>3 DEF Length
  <2> HIDE DEF told
  <2> QED
    BY <1>1, <2>1
<1>5. /\ log' = [log EXCEPT ![c] = Merged(c, es)] /\ max' = [max EXCEPT ![c] = n]
      /\ learnt' = [learnt EXCEPT ![c] = learnt[c] \cup told] /\ msgs' = msgs \ {msg}
      /\ UNCHANGED <<truth, heard, marked, size, running, losses>>
  BY <1>3 DEF HandleGossipRep
<1>6. n \in new \cup {max[c]} /\ \A v \in new \cup {max[c]} : v <= n
  <2>1. new \cup {max[c]} \subseteq 1..Len(truth) /\ Len(truth) \in Nat
    BY <1>1, <1>2, <1>4
  <2> HIDE DEF new
  <2> QED
    BY <2>1, GreatestIn DEF NewMax
<1>7. n \in DOMAIN truth /\ n >= max[c] /\ n < Len(log[c])
  BY <1>1, <1>2, <1>4, <1>6
<1>8. \A e \in es : ~log[c][e.version + 1].known => e.version <= n
  <2>1. \A e \in es : ~log[c][e.version + 1].known => e.version \in new
    BY DEF KnownAt, At
  <2> QED
    BY <1>6, <2>1
<1> HIDE DEF n
<1>9. /\ Facts(Merged(c, es), truth, heard[c], marked[c], n, learnt[c] \cup told)
      /\ Len(Merged(c, es)) = Len(log[c])
  <2>1. Merged(c, es) = Filled(log[c], es)
    BY DEF Merged, Filled
  <2> HIDE DEF es
  <2>2. PICK s, h, k, m, l :
          s = log[c] /\ h = heard[c] /\ k = marked[c] /\ m = max[c] /\ l = learnt[c]
    OBVIOUS
  <2>3. /\ truth \in Seq(State) /\ Len(truth) \in 1..MaxVersion
        /\ Facts(s, truth, h, k, m, l)
        /\ \A e \in es : e.version \in DOMAIN truth /\ e.state = truth[e.version]
        /\ n \in DOMAIN truth /\ n >= m /\ n < Len(s)
        /\ \A e \in es : ~s[e.version + 1].known => e.version <= n
    BY <1>1, <1>2, <1>7, <1>8, <2>2
  <2>4. Facts(Filled(s, es), truth, h, k, n, l \cup Versions(es)) /\ Len(Filled(s, es)) = Len(s)
    BY ONLY <2>3, AnswersKept
  <2> QED
    BY <2>1, <2>2, <2>4 DEF Versions
<1> HIDE DEF told, new, es
<1>10. Merged(c, es) \in Seq(Entry) /\ n \in Nat /\ learnt[c] \cup told \subseteq Nat
  BY <1>1, <1>2, <1>7, <1>9 DEF Facts
<1>11. /\ log' \in [Controllers -> Seq(Entry)] /\ max' \in [Controllers -> Nat]
       /\ learnt' \in [Controllers -> SUBSET Nat]
  BY <1>5, <1>10 DEF IInv
<1>12. ASSUME NEW d \in Controllers
       PROVE  /\ Facts(log'[d], truth, heard[d], marked[d], max'[d], learnt'[d])
              /\ Fits(log'[d], heard[d], size[d])
  <2>1. CASE d = c
    <3>1. log'[d] = Merged(c, es) /\ max'[d] = n /\ learnt'[d] = learnt[c] \cup told
      BY <1>5, <2>1 DEF IInv
    <3>2. Fits(log[c], heard[c], size[c])
      BY ControllerFacts
    <3> QED
      BY <1>9, <2>1, <3>1, <3>2 DEF Fits
  <2>2. CASE d # c
    <3>1. log'[d] = log[d] /\ max'[d] = max[d] /\ learnt'[d] = learnt[d]
      BY <1>5, <2>2 DEF IInv
    <3> QED
      BY <3>1 DEF IInv
  <2> QED
    BY <2>1, <2>2
<1> QED
  BY <1>5, <1>11, <1>12 DEF IInv

LEMMA LoseKeepsIInv ==
  ASSUME IInv, NEW msg \in msgs, Lose(msg)
  PROVE  IInv'
<1>1. losses' \in 0..MaxLoss
  BY GossipAssumption DEF IInv, Lose
<1> QED
  BY <1>1 DEF IInv, Lose

LEMMA NextKeepsIInv ==
  ASSUME InTime, IInv, [Next]_vars
  PROVE  IInv'
<1>1. ASSUME NEW x \in State, Change(x) PROVE IInv'
  BY <1>1, ChangeKeepsIInv
<1>2. ASSUME NEW c \in Controllers, NEW v \in DOMAIN truth, Learn(c, v) PROVE IInv'
  BY <1>2, LearnKeepsIInv
<1>3. ASSUME NEW c \in Controllers, SendGossip(c) PROVE IInv'
  BY <1>3, SendGossipKeepsIInv
<1>4. ASSUME NEW c \in Controllers, NEW msg \in msgs, HandleGossip(c, msg) PROVE IInv'
  BY <1>4, HandleGossipKeepsIInv
<1>5. ASSUME NEW c \in Controllers, NEW msg \in msgs, HandleGossipRep(c, msg) PROVE IInv'
  BY <1>5, HandleGossipRepKeepsIInv
<1>6. ASSUME NEW msg \in msgs, Lose(msg) PROVE IInv'
  BY <1>6, LoseKeepsIInv
<1>7. CASE UNCHANGED vars
  BY <1>7 DEF vars, IInv
<1> QED
  BY <1>1, <1>2, <1>3, <1>4, <1>5, <1>6, <1>7 DEF Next

\* The logs stay in order whatever is lost, in whatever order messages come, and
\* however often the link changes (class Log).
THEOREM LogsInOrder ==
  ASSUME InTime
  PROVE  Spec => []IInv
<1>1. Init => IInv
  BY InitIInv
<1>2. IInv /\ [Next]_vars => IInv'
  BY NextKeepsIInv
<1> QED
  BY <1>1, <1>2, PTL DEF Spec

\* A log says of a version what the link was, and only of versions the controller
\* was told of, although the vectors grow and entries move (controller.cc:476-497,
\* 565-577).
THEOREM LogIsTrue ==
  ASSUME InTime
  PROVE  Spec => []LogTruth
<1>1. IInv => LogTruth
  <2>1. SUFFICES ASSUME IInv, NEW c \in Controllers, NEW v \in 1..Length(c) - 1, KnownAt(c, v)
                 PROVE  v \in learnt[c] /\ At(c, v).state = truth[v]
    BY DEF LogTruth
  <2>2. v \in 0..Len(log[c]) - 1 /\ v # 0
    BY <2>1, ControllerFacts DEF Length
  <2> QED
    BY <2>1, <2>2 DEF IInv, Facts, KnownAt, At
<1> QED
  BY <1>1, LogsInOrder, PTL

\* Whatever a controller was never told of below its maximum is in the gaps it asks
\* for (controller.h:36), if no news is late.
THEOREM MissingAreGaps ==
  ASSUME InTime
  PROVE  Spec => []MissingIsGap
<1>1. IInv => MissingIsGap
  <2>1. SUFFICES ASSUME IInv, NEW c \in Controllers, NEW v \in 1..max[c] - 1, v \notin learnt[c]
                 PROVE  v \in Gaps(c)
    BY DEF MissingIsGap
  <2>2. Facts(log[c], truth, heard[c], marked[c], max[c], learnt[c])
    BY <2>1 DEF IInv
  <2>3. v \in 0..Len(log[c]) - 1 /\ v # 0 /\ max[c] \in Nat /\ marked[c] \in Nat
    BY <2>1, ControllerFacts
  <2>4. ~log[c][v + 1].known
    BY <2>1, <2>2, <2>3 DEF Facts
  <2>5. ~ (v < marked[c])
    BY <2>2, <2>3, <2>4 DEF Facts
  <2> QED
    BY <2>3, <2>4, <2>5 DEF Gaps, KnownAt, At
<1> QED
  BY <1>1, LogsInOrder, PTL

-----------------------------------------------------------------------------
\* News that is late moves entries up, and what a log says is no longer true of the
\* versions it names.  While the link changes less than INITIAL_SIZE times, logs still
\* keep what the code needs to go on.

\* What the log of one controller keeps, where t is the truth, h the version heard and
\* k the mark: its last entry stays empty.
Kept(s, t, h, k) ==
  /\ s \in Seq(Entry) /\ Len(s) >= InitialSize + 2 /\ ~s[Len(s)].known
  /\ h \in DOMAIN t /\ s[h + 1].known /\ s[h + 1].state = t[h]
  /\ k \in 1..Len(s)
  /\ \A v \in 1..k - 1 : s[v + 1].known

\* Messages name versions that exist, whatever they say of them.
SaneMsg(t, msg) ==
  /\ msg.type \in {"GOSSIP", "GOSSIP_REP"} /\ msg.src \in Controllers /\ msg.dst \in Controllers
  /\ msg.type = "GOSSIP" => msg.max \in DOMAIN t /\ msg.gaps \subseteq DOMAIN t
  /\ msg.type = "GOSSIP_REP" => \A e \in msg.entries : e.version \in DOMAIN t /\ e.state \in State

\* The inductive invariant when news may be late.
LateInv ==
  /\ truth \in Seq(State) /\ Len(truth) \in 1..MaxVersion
  /\ log \in [Controllers -> Seq(Entry)]
  /\ heard \in [Controllers -> Nat] /\ marked \in [Controllers -> Nat]
  /\ max \in [Controllers -> Nat] /\ learnt \in [Controllers -> SUBSET Nat]
  /\ size = [c \in Controllers |-> InitialSize]
  /\ running = TRUE /\ losses \in 0..MaxLoss
  /\ \A c \in Controllers :
       /\ Kept(log[c], truth, heard[c], marked[c])
       /\ max[c] \in DOMAIN truth /\ learnt[c] \subseteq DOMAIN truth
  /\ \A msg \in msgs : SaneMsg(truth, msg)

\* News of any version.
LEMMA LateNewsKept ==
  ASSUME NoGrowth, NEW t \in Seq(State), Len(t) \in 1..MaxVersion,
         NEW s, NEW h, NEW k, Kept(s, t, h, k), NEW v \in DOMAIN t
  PROVE  Kept(Insert(s, v, Known(t[v])), t, v, k)
<1> DEFINE e == Known(t[v])
           r == Insert(s, v, e)
<1>1. /\ DOMAIN t = 1..Len(t) /\ t[v] \in State /\ MaxVersion \in Nat /\ Len(t) \in Nat
      /\ InitialSize \in Nat /\ MaxVersion < InitialSize
  BY LenProperties, ElementOfSeq, GossipAssumption DEF NoGrowth
<1>2. e \in Entry /\ e.known /\ e.state = t[v]
  BY <1>1, EntryType
<1>3. /\ s \in Seq(Entry) /\ Len(s) \in Nat /\ Len(s) >= InitialSize + 2 /\ ~s[Len(s)].known
      /\ k \in 1..Len(s) /\ \A u \in 1..k - 1 : s[u + 1].known
  BY LenProperties DEF Kept
<1>4. v \in Nat /\ v >= 1 /\ v + 1 < Len(s) /\ v \in 0..Len(s)
  BY <1>1, <1>3
<1> HIDE DEF e
<1>5. /\ r \in Seq(Entry) /\ Len(r) = Len(s) + 1
      /\ \A i \in 1..Len(s) + 1 : r[i] = IF i <= v THEN s[i] ELSE IF i = v + 1 THEN e ELSE s[i - 1]
  <2>1. s \in Seq(Entry) /\ v \in 0..Len(s) /\ e \in Entry
    BY <1>2, <1>3, <1>4
  <2> QED
    BY ONLY <2>1, InsertType DEF r
<1> HIDE DEF r
<1>6. ~r[Len(r)].known
  <2>1. Len(r) \in 1..Len(s) + 1 /\ ~ (Len(r) <= v) /\ Len(r) # v + 1 /\ Len(r) - 1 = Len(s)
    BY <1>3, <1>4, <1>5
  <2> QED
    BY <1>3, <1>5, <2>1
<1>7. r[v + 1] = e
  <2>1. v + 1 \in 1..Len(s) + 1 /\ ~ (v + 1 <= v)
    BY <1>3, <1>4
  <2> QED
    BY <1>5, <2>1
<1>8. ASSUME NEW u \in 1..k - 1 PROVE r[u + 1].known
  <2>0. u \in Nat /\ u + 1 \in 1..Len(s) + 1
    BY <1>3
  <2>1. CASE u < v
    <3>1. u + 1 <= v
      BY <1>4, <2>0, <2>1
    <3> QED
      BY <1>3, <1>5, <2>0, <3>1
  <2>2. CASE u = v
    BY <1>2, <1>7, <2>2
  <2>3. CASE u > v
    <3>1. ~ (u + 1 <= v) /\ u + 1 # v + 1 /\ (u + 1) - 1 = (u - 1) + 1 /\ u - 1 \in 1..k - 1
      BY <1>3, <1>4, <2>0, <2>3
    <3>2. r[u + 1] = s[(u - 1) + 1]
      BY <1>5, <2>0, <3>1
    <3> QED
      BY <1>3, <3>1, <3>2
  <2> QED
    BY <1>4, <2>0, <2>1, <2>2, <2>3
<1>9. Len(r) >= InitialSize + 2 /\ k \in 1..Len(r)
  BY <1>1, <1>3, <1>5
<1> QED
  BY <1>2, <1>5, <1>6, <1>7, <1>8, <1>9 DEF Kept, r, e

\* Answers of any kind.
LEMMA LateAnswersKept ==
  ASSUME NoGrowth, NEW t \in Seq(State), Len(t) \in 1..MaxVersion,
         NEW s, NEW h, NEW k, Kept(s, t, h, k),
         NEW es, \A e \in es : e.version \in DOMAIN t /\ e.state \in State
  PROVE  Kept(Filled(s, es), t, h, k)
<1> DEFINE r == Filled(s, es)
<1>0. r = [i \in DOMAIN s |->
             IF ~s[i].known /\ \E e \in es : e.version + 1 = i
             THEN Known((CHOOSE e \in es : e.version + 1 = i).state) ELSE s[i]]
  BY DEF Filled
<1> HIDE DEF r
<1>1. /\ DOMAIN t = 1..Len(t) /\ MaxVersion \in Nat /\ Len(t) \in Nat
      /\ InitialSize \in Nat /\ MaxVersion < InitialSize
  BY LenProperties, GossipAssumption DEF NoGrowth
<1>2. /\ s \in Seq(Entry) /\ Len(s) \in Nat /\ DOMAIN s = 1..Len(s)
      /\ Len(s) >= InitialSize + 2 /\ ~s[Len(s)].known
      /\ h \in 1..Len(t) /\ s[h + 1].known /\ s[h + 1].state = t[h]
      /\ k \in 1..Len(s) /\ \A u \in 1..k - 1 : s[u + 1].known
  BY <1>1, LenProperties DEF Kept
<1>3. ASSUME NEW i \in DOMAIN s PROVE r[i] \in Entry
  <2>1. CASE ~s[i].known /\ \E e \in es : e.version + 1 = i
    <3>1. PICK e \in es : e = CHOOSE f \in es : f.version + 1 = i
      BY <2>1
    <3> QED
      BY <1>0, <2>1, <3>1, EntryType
  <2>2. CASE ~ (~s[i].known /\ \E e \in es : e.version + 1 = i)
    BY <1>0, <1>2, <2>2, ElementOfSeq
  <2> QED
    BY <2>1, <2>2
<1>4. r \in Seq(Entry) /\ Len(r) = Len(s)
  <2>1. r \in [1..Len(s) -> Entry]
    BY <1>0, <1>2, <1>3
  <2> QED
    BY <1>2, <2>1, SeqDef, LenProperties
<1>5. \A i \in DOMAIN s : s[i].known => r[i] = s[i]
  BY <1>0
<1>6. ~r[Len(r)].known
  <2>1. Len(s) \in DOMAIN s /\ \A e \in es : e.version + 1 # Len(s)
    BY <1>1, <1>2
  <2> QED
    BY <1>0, <1>2, <1>4, <2>1
<1>7. h + 1 \in DOMAIN s /\ \A u \in 1..k - 1 : u + 1 \in DOMAIN s
  BY <1>1, <1>2
<1>8. r[h + 1].known /\ r[h + 1].state = t[h] /\ \A u \in 1..k - 1 : r[u + 1].known
  BY <1>2, <1>5, <1>7
<1>9. Len(r) >= InitialSize + 2 /\ k \in 1..Len(r) /\ h \in DOMAIN t
  BY <1>1, <1>2, <1>4
<1> QED
  BY <1>4, <1>6, <1>8, <1>9 DEF Kept, r

\* The mark moves.
LEMMA LateMarkMoves ==
  ASSUME NEW s, NEW t, NEW h, NEW k, Kept(s, t, h, k),
         NEW f, f = CHOOSE v \in k..Len(s) : /\ ~ (v < Len(s) /\ s[v + 1].known)
                                             /\ \A u \in k..v - 1 : u < Len(s) /\ s[u + 1].known
  PROVE  Kept(s, t, h, f)
<1> DEFINE known(v) == v < Len(s) /\ s[v + 1].known
           T == {v \in Nat : v >= k /\ ~known(v)}
<1>1. Len(s) \in Nat /\ k \in 1..Len(s) /\ ~known(Len(s))
  BY LenProperties DEF Kept
<1>2. \A v \in 1..k - 1 : s[v + 1].known
  BY DEF Kept
<1> HIDE DEF known
<1>3. PICK v \in T : \A u \in T : v <= u
  <2>1. Len(s) \in T
    BY <1>1
  <2>2. T \in SUBSET Nat /\ T # {}
    BY <2>1
  <2> HIDE DEF T
  <2> QED
    BY <2>2, LeastNumber
<1>4. v \in k..Len(s) /\ ~known(v) /\ \A u \in k..v - 1 : known(u)
  <2>1. v \in Nat /\ v >= k /\ ~known(v) /\ v <= Len(s)
    BY <1>1, <1>3
  <2>2. ASSUME NEW u \in k..v - 1 PROVE known(u)
    <3>1. u \in Nat /\ u >= k /\ ~ (v <= u)
      BY <1>1, <2>1
    <3> QED
      BY <1>3, <3>1
  <2> QED
    BY <1>1, <2>1, <2>2
<1>5. f \in k..Len(s) /\ \A u \in k..f - 1 : known(u)
  <2>1. f = CHOOSE w \in k..Len(s) : ~known(w) /\ \A u \in k..w - 1 : known(u)
    BY DEF known
  <2> QED
    BY <1>4, <2>1
<1>6. ASSUME NEW u \in 1..f - 1 PROVE s[u + 1].known
  <2>1. u \in 1..k - 1 \/ u \in k..f - 1
    BY <1>1, <1>5
  <2> QED
    BY <1>2, <1>5, <2>1 DEF known
<1> QED
  BY <1>1, <1>5, <1>6 DEF Kept

\* All accesses are in range and every search ends: a log is longer than any version,
\* and its last entry is not known.
LEMMA RoomBeyond ==
  ASSUME NoGrowth, LateInv, NEW c \in Controllers
  PROVE  /\ Kept(log[c], truth, heard[c], marked[c]) /\ DOMAIN truth = 1..Len(truth)
         /\ Len(truth) \in Nat /\ max[c] \in 1..Len(truth) /\ learnt[c] \subseteq 1..Len(truth)
         /\ Len(log[c]) \in Nat /\ marked[c] \in 1..Len(log[c])
         /\ \A v \in DOMAIN truth : v < Length(c) /\ ~ (v >= size[c])
         /\ SearchEnds(c)
<1>1. /\ Kept(log[c], truth, heard[c], marked[c]) /\ DOMAIN truth = 1..Len(truth)
      /\ Len(truth) \in Nat /\ max[c] \in 1..Len(truth) /\ learnt[c] \subseteq 1..Len(truth)
      /\ Len(truth) <= MaxVersion /\ size[c] = InitialSize
      /\ MaxVersion \in Nat /\ InitialSize \in Nat /\ MaxVersion < InitialSize
  BY LenProperties, GossipAssumption DEF LateInv, NoGrowth
<1>2. /\ Len(log[c]) \in Nat /\ Len(log[c]) >= InitialSize + 2 /\ ~log[c][Len(log[c])].known
      /\ marked[c] \in 1..Len(log[c])
  BY <1>1, LenProperties DEF Kept
<1>3. \A v \in DOMAIN truth : v < Length(c) /\ ~ (v >= size[c])
  BY <1>1, <1>2 DEF Length
<1>4. /\ max[c] < Len(log[c]) /\ Len(log[c]) - 1 \in max[c] - 1..Len(log[c]) - 1
      /\ (Len(log[c]) - 1) + 1 = Len(log[c])
  BY <1>1, <1>2
<1>5. ~KnownAt(c, Len(log[c]) - 1)
  BY <1>2, <1>4 DEF KnownAt, At, Length
<1> QED
  BY <1>1, <1>2, <1>3, <1>4, <1>5 DEF SearchEnds, Length

LEMMA InitLateInv ==
  ASSUME Init
  PROVE  LateInv
<1>1. IInv /\ running = TRUE /\ size = [c \in Controllers |-> InitialSize]
  BY InitIInv DEF Init
<1>2. ASSUME NEW c \in Controllers
      PROVE  /\ Kept(log[c], truth, heard[c], marked[c])
             /\ max[c] \in DOMAIN truth /\ learnt[c] \subseteq DOMAIN truth
  <2>1. /\ Facts(log[c], truth, heard[c], marked[c], max[c], learnt[c])
        /\ heard[c] = 1 /\ marked[c] = 1 /\ max[c] = 1 /\ DOMAIN truth = 1..1
        /\ log[c] = Insert(Opened, 1, Known("UP"))
    BY <1>1 DEF IInv, Init
  <2>2. Len(log[c]) = InitialSize + 2 /\ InitialSize \in Nat /\ InitialSize > 1
    <3>1. Opened \in Seq(Entry) /\ Len(Opened) = InitialSize + 1 /\ Known("UP") \in Entry
      BY OpenedType, EntryType
    <3>2. InitialSize \in Nat /\ InitialSize > 1
      BY GossipAssumption
    <3>3. ASSUME NEW o \in Seq(Entry), NEW e \in Entry, 1 \in 0..Len(o)
          PROVE  Len(Insert(o, 1, e)) = Len(o) + 1
      BY ONLY <3>3, InsertType
    <3> QED
      BY <2>1, <3>1, <3>2, <3>3
  <2>3. ~log[c][(InitialSize + 1) + 1].known
    <3>1. InitialSize + 1 \in 0..Len(log[c]) - 1 /\ ~ (InitialSize + 1 <= 1)
      BY <2>2
    <3> QED
      BY <2>1, <3>1 DEF Facts
  <2>4. (InitialSize + 1) + 1 = Len(log[c]) /\ 1 \in 1..Len(log[c]) /\ 1..1 - 1 = {}
    BY <2>2
  <2>5. 1 \in 0..Len(log[c]) - 1 /\ 1 # 0
    BY <2>2
  <2> QED
    BY <2>1, <2>2, <2>3, <2>4, <2>5 DEF Facts, Kept
<1>3. \A msg \in msgs : SaneMsg(truth, msg)
  BY DEF Init
<1> QED
  BY <1>1, <1>2, <1>3 DEF LateInv, IInv

LEMMA NextKeepsLateInv ==
  ASSUME NoGrowth, LateInv, [Next]_vars
  PROVE  LateInv'
<1>1. ASSUME NEW x \in State, Change(x) PROVE LateInv'
  <2>1. /\ truth \in Seq(State) /\ Len(truth) \in 1..MaxVersion /\ MaxVersion \in Nat
        /\ Len(truth) < MaxVersion /\ truth' = Append(truth, x)
        /\ UNCHANGED <<heard, log, marked, size, max, msgs, running, learnt, losses>>
    BY <1>1, GossipAssumption DEF LateInv, Change
  <2>2. /\ truth' \in Seq(State) /\ Len(truth') = Len(truth) + 1
        /\ DOMAIN truth \subseteq DOMAIN truth' /\ \A v \in DOMAIN truth : truth'[v] = truth[v]
    BY <2>1, TruthLasts
  <2>3. Len(truth') \in 1..MaxVersion
    BY <2>1, <2>2
  <2>4. ASSUME NEW c \in Controllers PROVE Kept(log[c], truth', heard[c], marked[c])
    <3>1. Kept(log[c], truth, heard[c], marked[c])
      BY DEF LateInv
    <3> QED
      BY <2>2, <3>1 DEF Kept
  <2>5. ASSUME NEW msg \in msgs PROVE SaneMsg(truth', msg)
    <3>1. SaneMsg(truth, msg)
      BY DEF LateInv
    <3> QED
      BY <2>2, <3>1 DEF SaneMsg
  <2> QED
    BY <2>1, <2>2, <2>3, <2>4, <2>5 DEF LateInv
<1>2. ASSUME NEW c \in Controllers, NEW v \in DOMAIN truth, Learn(c, v) PROVE LateInv'
  <2> DEFINE r == Insert(log[c], v, Known(truth[v]))
             n == IF max[c] < v THEN v ELSE max[c]
  <2>1. ~ (v >= size[c])
    BY RoomBeyond
  <2>2. /\ log' = [log EXCEPT ![c] = r] /\ size' = size
        /\ max' = [max EXCEPT ![c] = n] /\ heard' = [heard EXCEPT ![c] = v]
        /\ learnt' = [learnt EXCEPT ![c] = learnt[c] \cup {v}]
        /\ UNCHANGED <<truth, marked, msgs, running, losses>>
    BY <1>2, <2>1 DEF Learn, LateInv
  <2>3. Kept(r, truth, v, marked[c])
    BY LateNewsKept DEF LateInv
  <2>4. r \in Seq(Entry) /\ v \in Nat /\ n \in Nat /\ n \in DOMAIN truth
    <3>1. max[c] \in 1..Len(truth) /\ DOMAIN truth = 1..Len(truth)
      BY RoomBeyond
    <3> QED
      BY <2>3, <3>1 DEF Kept
  <2> HIDE DEF r, n
  <2>5. /\ log' \in [Controllers -> Seq(Entry)] /\ heard' \in [Controllers -> Nat]
        /\ max' \in [Controllers -> Nat] /\ learnt' \in [Controllers -> SUBSET Nat]
    BY <2>2, <2>4 DEF LateInv
  <2>6. ASSUME NEW d \in Controllers
        PROVE  /\ Kept(log'[d], truth, heard'[d], marked[d])
               /\ max'[d] \in DOMAIN truth /\ learnt'[d] \subseteq DOMAIN truth
    BY <2>2, <2>3, <2>4 DEF LateInv
  <2> QED
    BY <2>2, <2>5, <2>6 DEF LateInv
<1>3. ASSUME NEW c \in Controllers, SendGossip(c) PROVE LateInv'
  <2> DEFINE f == IF marked[c] < max[c] THEN FirstUnknown(c) ELSE marked[c]
  <2>1. /\ marked' = [marked EXCEPT ![c] = f]
        /\ msgs' = msgs \cup {[type |-> "GOSSIP", src |-> c, dst |-> d, max |-> max[c], gaps |-> Gaps(c)] : d \in Controllers}
        /\ UNCHANGED <<truth, heard, log, size, max, running, learnt, losses>>
    BY <1>3, RoomBeyond DEF SendGossip
  <2>2. Kept(log[c], truth, heard[c], f)
    <3>1. CASE marked[c] < max[c]
      <4>1. f = CHOOSE v \in marked[c]..Len(log[c]) :
                  /\ ~ (v < Len(log[c]) /\ log[c][v + 1].known)
                  /\ \A u \in marked[c]..v - 1 : u < Len(log[c]) /\ log[c][u + 1].known
        BY <3>1 DEF FirstUnknown, KnownAt, Length, At
      <4>2. Kept(log[c], truth, heard[c], marked[c])
        BY DEF LateInv
      <4> HIDE DEF f
      <4> QED
        BY <4>1, <4>2, LateMarkMoves
    <3>2. CASE ~ (marked[c] < max[c])
      BY <3>2 DEF LateInv
    <3> QED
      BY <3>1, <3>2
  <2> HIDE DEF f
  <2>3. f \in Nat
    BY <2>2, LenProperties DEF Kept
  <2>4. Gaps(c) \subseteq DOMAIN truth /\ max[c] \in DOMAIN truth
    <3>1. /\ DOMAIN truth = 1..Len(truth) /\ Len(truth) \in Nat /\ max[c] \in 1..Len(truth)
          /\ marked[c] \in 1..Len(log[c]) /\ Len(log[c]) \in Nat
      BY RoomBeyond
    <3>2. marked[c]..max[c] - 1 \subseteq 1..Len(truth)
      BY <3>1
    <3> QED
      BY <3>1, <3>2 DEF Gaps
  <2>5. \A msg \in msgs' : SaneMsg(truth, msg)
    BY <2>1, <2>4 DEF SaneMsg, LateInv
  <2>6. /\ marked' \in [Controllers -> Nat]
        /\ \A d \in Controllers : marked'[d] = IF d = c THEN f ELSE marked[d]
    BY <2>1, <2>3 DEF LateInv
  <2> QED
    BY <2>1, <2>2, <2>5, <2>6 DEF LateInv
<1>4. ASSUME NEW c \in Controllers, NEW msg \in msgs, HandleGossip(c, msg) PROVE LateInv'
  <2> DEFINE a == [type |-> "GOSSIP_REP", src |-> c, dst |-> msg.src, entries |-> Response(c, msg)]
  <2>1. SaneMsg(truth, msg) /\ msg.type = "GOSSIP"
    BY <1>4 DEF LateInv, HandleGossip
  <2>2. /\ DOMAIN truth = 1..Len(truth) /\ Len(truth) \in Nat /\ max[c] \in 1..Len(truth)
        /\ Len(log[c]) \in Nat /\ \A v \in DOMAIN truth : v < Length(c)
    BY RoomBeyond
  <2>3. \A v \in Wanted(c, msg) : v \in DOMAIN truth
    BY <2>1, <2>2 DEF Wanted, SaneMsg
  <2>4. /\ msgs' \subseteq msgs \cup {a}
        /\ UNCHANGED <<truth, heard, log, marked, size, max, running, learnt, losses>>
    <3>1. ~ (\E v \in Wanted(c, msg) : v >= Length(c))
      BY <2>2, <2>3 DEF Length
    <3> QED
      BY <1>4, <3>1 DEF HandleGossip
  <2>5. ASSUME NEW e \in Response(c, msg) PROVE e.version \in DOMAIN truth /\ e.state \in State
    <3>1. PICK v \in Wanted(c, msg) : KnownAt(c, v) /\ e = [version |-> v, state |-> At(c, v).state]
      BY DEF Response
    <3>2. v \in DOMAIN truth /\ v + 1 \in 1..Len(log[c])
      BY <2>2, <2>3 DEF Length
    <3>3. log[c][v + 1] \in Entry
      BY <3>2, ElementOfSeq DEF LateInv
    <3> QED
      BY <3>1, <3>2, <3>3 DEF At, Entry
  <2>6. SaneMsg(truth, a)
    BY <2>1, <2>5 DEF SaneMsg
  <2> HIDE DEF a
  <2>7. \A m \in msgs' : SaneMsg(truth, m)
    BY <2>4, <2>6 DEF LateInv
  <2> QED
    BY <2>4, <2>7 DEF LateInv
<1>5. ASSUME NEW c \in Controllers, NEW msg \in msgs, HandleGossipRep(c, msg) PROVE LateInv'
  <2> DEFINE es == msg.entries
             told == {e.version : e \in es}
             new == {v \in told : ~KnownAt(c, v)}
             n == NewMax(c, new)
  <2>1. /\ \A e \in es : e.version \in DOMAIN truth /\ e.state \in State
        /\ told \subseteq DOMAIN truth
    BY <1>5 DEF LateInv, HandleGossipRep, SaneMsg
  <2>2. /\ DOMAIN truth = 1..Len(truth) /\ Len(truth) \in Nat /\ max[c] \in 1..Len(truth)
        /\ Len(log[c]) \in Nat /\ \A v \in DOMAIN truth : v < Length(c)
    BY RoomBeyond
  <2>3. ~ (\E v \in told : v >= Length(c))
    <3> HIDE DEF told
    <3> QED
      BY <2>1, <2>2 DEF Length
  <2>4. /\ log' = [log EXCEPT ![c] = Merged(c, es)] /\ max' = [max EXCEPT ![c] = n]
        /\ learnt' = [learnt EXCEPT ![c] = learnt[c] \cup told] /\ msgs' = msgs \ {msg}
        /\ UNCHANGED <<truth, heard, marked, size, running, losses>>
    BY <1>5, <2>3 DEF HandleGossipRep
  <2>5. n \in DOMAIN truth
    <3>1. new \cup {max[c]} \subseteq 1..Len(truth)
      BY <2>1, <2>2
    <3> HIDE DEF new
    <3> QED
      BY <2>2, <3>1, GreatestIn DEF NewMax
  <2>6. Kept(Merged(c, es), truth, heard[c], marked[c])
    <3>1. Merged(c, es) = Filled(log[c], es)
      BY DEF Merged, Filled
    <3> HIDE DEF es
    <3>2. PICK s, h, k : s = log[c] /\ h = heard[c] /\ k = marked[c]
      OBVIOUS
    <3>3. /\ NoGrowth /\ truth \in Seq(State) /\ Len(truth) \in 1..MaxVersion
          /\ Kept(s, truth, h, k)
          /\ \A e \in es : e.version \in DOMAIN truth /\ e.state \in State
      BY <2>1, <3>2 DEF LateInv
    <3>4. Kept(Filled(s, es), truth, h, k)
      BY ONLY <3>3, LateAnswersKept
    <3> QED
      BY <3>1, <3>2, <3>4
  <2> HIDE DEF es, told, new, n
  <2>7. Merged(c, es) \in Seq(Entry) /\ n \in Nat /\ told \subseteq Nat
    BY <2>1, <2>2, <2>5, <2>6 DEF Kept
  <2>8. /\ log' \in [Controllers -> Seq(Entry)] /\ max' \in [Controllers -> Nat]
        /\ learnt' \in [Controllers -> SUBSET Nat]
    BY <2>4, <2>7 DEF LateInv
  <2>9. ASSUME NEW d \in Controllers
        PROVE  /\ Kept(log'[d], truth, heard[d], marked[d])
               /\ max'[d] \in DOMAIN truth /\ learnt'[d] \subseteq DOMAIN truth
    BY <2>1, <2>4, <2>5, <2>6 DEF LateInv
  <2> QED
    BY <2>4, <2>8, <2>9 DEF LateInv
<1>6. ASSUME NEW msg \in msgs, Lose(msg) PROVE LateInv'
  <2>1. losses' \in 0..MaxLoss
    BY <1>6, GossipAssumption DEF LateInv, Lose
  <2> QED
    BY <1>6, <2>1 DEF LateInv, Lose
<1>7. CASE UNCHANGED vars
  BY <1>7 DEF vars, LateInv
<1> QED
  BY <1>1, <1>2, <1>3, <1>4, <1>5, <1>6, <1>7 DEF Next

\* Logs keep what they must whatever news is late.
THEOREM LogsHaveRoom ==
  ASSUME NoGrowth
  PROVE  Spec => []LateInv
<1>1. Init => LateInv
  BY InitLateInv
<1>2. LateInv /\ [Next]_vars => LateInv'
  BY NextKeepsLateInv
<1> QED
  BY <1>1, <1>2, PTL DEF Spec

\* No at() of a log is out of range while a link changes less than INITIAL_SIZE
\* times, whatever news is late (controller.cc:499-577).
THEOREM NeverThrows ==
  ASSUME NoGrowth
  PROVE  Spec => []NoThrow
<1>1. LateInv => NoThrow
  BY DEF LateInv, NoThrow
<1> QED
  BY <1>1, LogsHaveRoom, PTL

-----------------------------------------------------------------------------
\* What holds when vectors grow or news is late, but not both.

\* The logs, marks and maxima stay in their ranges, however vectors grow or late news
\* is, if not both (class Log).
THEOREM TypeCorrect ==
  ASSUME InTime \/ NoGrowth
  PROVE  Spec => []TypeOK
<1>1. IInv => TypeOK
  <2>1. SUFFICES ASSUME IInv PROVE TypeOK
    OBVIOUS
  <2>2. ASSUME NEW c \in Controllers
        PROVE  /\ heard[c] \in DOMAIN truth /\ max[c] \in DOMAIN truth
               /\ learnt[c] \subseteq DOMAIN truth /\ marked[c] \in 1..Length(c)
    <3>1. Facts(log[c], truth, heard[c], marked[c], max[c], learnt[c]) /\ DOMAIN truth = 1..Len(truth)
      BY <2>1, LenProperties DEF IInv
    <3>2. marked[c] \in 1..Length(c) /\ Len(truth) \in Nat
      BY <2>1, ControllerFacts DEF Length, IInv
    <3> QED
      BY <3>1, <3>2 DEF Facts
  <2> QED
    BY <2>1, <2>2 DEF IInv, TypeOK, TrueMsg
<1>2. LateInv => TypeOK
  <2>1. SUFFICES ASSUME LateInv PROVE TypeOK
    OBVIOUS
  <2>2. ASSUME NEW c \in Controllers
        PROVE  /\ heard[c] \in DOMAIN truth /\ max[c] \in DOMAIN truth
               /\ learnt[c] \subseteq DOMAIN truth /\ marked[c] \in 1..Length(c)
    BY <2>1 DEF LateInv, Kept, Length
  <2>3. size \in [Controllers -> Nat]
    BY <2>1, GossipAssumption DEF LateInv
  <2> QED
    BY <2>1, <2>2, <2>3 DEF LateInv, TypeOK, SaneMsg
<1>3. CASE InTime
  BY <1>1, <1>3, LogsInOrder, PTL
<1>4. CASE NoGrowth
  BY <1>2, <1>4, LogsHaveRoom, PTL
<1> QED
  BY <1>3, <1>4

\* What a controller heard of the link itself stays in its log, although vectors are
\* cut and grow or late news moves entries, if not both (controller.cc:476-497).
THEOREM LastNewsStay ==
  ASSUME InTime \/ NoGrowth
  PROVE  Spec => []LastNewsKept
<1>1. IInv => LastNewsKept
  <2>1. SUFFICES ASSUME IInv, NEW c \in Controllers
                 PROVE  KnownAt(c, heard[c]) /\ At(c, heard[c]).state = truth[heard[c]]
    BY DEF LastNewsKept
  <2>2. Facts(log[c], truth, heard[c], marked[c], max[c], learnt[c])
    BY <2>1 DEF IInv
  <2>3. heard[c] \in 0..Len(log[c]) - 1 /\ heard[c] # 0 /\ heard[c] < Len(log[c])
    BY <2>1, ControllerFacts
  <2> QED
    BY <2>2, <2>3 DEF Facts, KnownAt, At, Length
<1>2. ASSUME NoGrowth PROVE LateInv => LastNewsKept
  <2>1. SUFFICES ASSUME LateInv, NEW c \in Controllers
                 PROVE  KnownAt(c, heard[c]) /\ At(c, heard[c]).state = truth[heard[c]]
    BY DEF LastNewsKept
  <2>2. Kept(log[c], truth, heard[c], marked[c]) /\ heard[c] < Length(c)
    BY <1>2, <2>1, RoomBeyond DEF Kept
  <2> QED
    BY <2>2 DEF Kept, KnownAt, At
<1>3. CASE InTime
  BY <1>1, <1>3, LogsInOrder, PTL
<1>4. CASE NoGrowth
  BY <1>2, <1>4, LogsHaveRoom, PTL
<1> QED
  BY <1>3, <1>4

\* The mark never passes a version that is missing, however vectors grow or late news
\* moves entries, if not both (controller.cc:511-534).
THEOREM MarkIsKnown ==
  ASSUME InTime \/ NoGrowth
  PROVE  Spec => []MarkedKnown
<1>1. IInv => MarkedKnown
  <2>1. SUFFICES ASSUME IInv, NEW c \in Controllers, NEW v \in 1..marked[c] - 1
                 PROVE  KnownAt(c, v)
    BY DEF MarkedKnown
  <2>2. v < Len(log[c])
    BY <2>1, ControllerFacts
  <2> QED
    BY <2>1, <2>2 DEF IInv, Facts, KnownAt, At, Length
<1>2. LateInv => MarkedKnown
  <2>1. SUFFICES ASSUME LateInv, NEW c \in Controllers, NEW v \in 1..marked[c] - 1
                 PROVE  KnownAt(c, v)
    BY DEF MarkedKnown
  <2>2. Kept(log[c], truth, heard[c], marked[c]) /\ Len(log[c]) \in Nat
    BY <2>1, LenProperties DEF LateInv, Kept
  <2>3. v < Len(log[c])
    BY <2>1, <2>2 DEF Kept
  <2> QED
    BY <2>1, <2>2, <2>3 DEF Kept, KnownAt, At, Length
<1>3. CASE InTime
  BY <1>1, <1>3, LogsInOrder, PTL
<1>4. CASE NoGrowth
  BY <1>2, <1>4, LogsHaveRoom, PTL
<1> QED
  BY <1>3, <1>4
=============================================================================
