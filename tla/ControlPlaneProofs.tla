------------------------- MODULE ControlPlaneProofs -------------------------
(***************************************************************************)
(* Proofs about the control plane, for every topology, every number of     *)
(* switches, controllers and links, and every bound: what a controller     *)
(* believes of a link is what the link was at the version it knows, and    *)
(* all of its state is well typed.  Two facts about types are not obvious: *)
(* compute_paths gives a switch one rule for a signature (NewTableIsTable),*)
(* and a step that creates packets finds identifiers for all of them       *)
(* (NewIdFound).                                                           *)
(***************************************************************************)
EXTENDS ControlPlaneProps, RoutingLemmas

States == {"UP", "DOWN"}

\* What NewId may return, over all sets of free identifiers.
IdOf(F, k) == CHOOSE i \in F : Cardinality(F \cap 1..i) = k
AnyId == {IdOf(F, k) : F \in SUBSET Ids, k \in Nat}

\* The rules of all tables that compute_paths may compute.
AllRules == UNION {NewTable(up) : up \in SUBSET Links}

News == [state : States, version : Nat]
Types == {"LINK_UP", "LINK_DOWN", "CHANGE_RULES", "SWITCH_INFORMATION", "SWITCH_INFORMATION_REQ",
          "SWITCH_TABLE_REQ", "SWITCH_TABLE_RESP"}
Patches == [rules : SUBSET AllRules, del : SUBSET SigsOf(AllRules)]
Data == UNION {[link : Links, version : Nat],
               UNION {[ls -> News] : ls \in SUBSET Links},
               SUBSET AllRules, Patches, {<<>>}}
Packets == [id : AnyId, type : Types, src : Receivers, dst : Receivers \cup {ALL}, data : Data]

CarriesRules(p) ==
  /\ p.type = "CHANGE_RULES" => p.data \in Patches
  /\ p.type = "SWITCH_TABLE_RESP" => p.data \in SUBSET AllRules

TruePackets(h) == {p \in Packets : CarriesRules(p) /\ Truthful(h, p)}

\* The inductive invariant: every packet that travels tells the truth.
IInv ==
  /\ hist \in [Links -> Seq(States)]
  /\ \A l \in Links : Len(hist[l]) \in 1..MaxVersion
  /\ chan \in [Chans -> Seq(TruePackets(hist))]
  /\ table \in [Switches -> SUBSET AllRules]
  /\ known \in [Controllers -> [Links -> Nat \ {0}]]
  /\ existing \in [Controllers -> SUBSET Links]
  /\ flowDb \in [Controllers -> SUBSET AllRules]
  /\ ViewTruth

-----------------------------------------------------------------------------
LEMMA NewIdType == ASSUME NEW k \in Nat PROVE NewId(k) \in AnyId
<1>1. FreeIds \in SUBSET Ids
  BY DEF FreeIds
<1>2. NewId(k) = IdOf(FreeIds, k)
  BY DEF NewId, IdOf
<1> QED
  BY <1>1, <1>2 DEF AnyId

LEMMA SeqSubset ==
  ASSUME NEW S, NEW T, S \subseteq T
  PROVE  Seq(S) \subseteq Seq(T)
<1>1. SUFFICES ASSUME NEW s \in Seq(S) PROVE s \in Seq(T)
  OBVIOUS
<1>2. s \in [1..Len(s) -> S] /\ Len(s) \in Nat
  BY LenProperties
<1> QED
  BY <1>2, SeqDef

LEMMA OneElement ==
  ASSUME NEW S, NEW x \in S
  PROVE  <<x>> \in Seq(S)
OBVIOUS

\* Flooding adds packets to channels.
LEMMA FloodType ==
  ASSUME NEW S, NEW ch \in [Chans -> Seq(S)], NEW up, NEW n, NEW packets \in Seq(S), NEW except
  PROVE  Flood(ch, up, n, packets, except) \in [Chans -> Seq(S)]
<1>1. \A k \in Chans : ch[k] \o packets \in Seq(S)
  BY ConcatProperties
<1> QED
  BY <1>1 DEF Flood

\* A link's past does not change.
LEMMA TruthLasts ==
  ASSUME IInv, NEW l \in Links, NEW s \in States, hist' = [hist EXCEPT ![l] = Append(@, s)]
  PROVE  /\ hist' \in [Links -> Seq(States)]
         /\ \A m \in Links : \A v \in 1..Len(hist[m]) : v \in 1..Len(hist'[m]) /\ hist'[m][v] = hist[m][v]
         /\ \A m \in Links : Len(hist'[m]) = IF m = l THEN Len(hist[m]) + 1 ELSE Len(hist[m])
         /\ hist'[l][Len(hist[l]) + 1] = s
         /\ TruePackets(hist) \subseteq TruePackets(hist')
<1>1. hist \in [Links -> Seq(States)]
  BY DEF IInv
<1>2. /\ Append(hist[l], s) \in Seq(States)
      /\ Len(Append(hist[l], s)) = Len(hist[l]) + 1
      /\ \A v \in 1..Len(hist[l]) : Append(hist[l], s)[v] = hist[l][v]
      /\ Append(hist[l], s)[Len(hist[l]) + 1] = s
      /\ Len(hist[l]) \in Nat
  BY <1>1, AppendProperties, LenProperties
<1>3. \A m \in Links : hist'[m] = IF m = l THEN Append(hist[l], s) ELSE hist[m]
  BY <1>1
<1>4. \A m \in Links : \A v \in 1..Len(hist[m]) : v \in 1..Len(hist'[m]) /\ hist'[m][v] = hist[m][v]
  BY <1>2, <1>3
<1>5. hist' \in [Links -> Seq(States)]
  BY <1>1, <1>2
<1>6. TruePackets(hist) \subseteq TruePackets(hist')
  BY <1>4 DEF TruePackets, Truthful
<1> QED
  BY <1>2, <1>3, <1>4, <1>5, <1>6

-----------------------------------------------------------------------------
\* Only switches get rules.
LEMMA RulesAtSwitches == \A r \in AllRules : r.sw \in Switches
<1>1. SUFFICES ASSUME NEW up \in SUBSET Links, NEW sig \in Sigs, NEW r \in RulesOf(up, sig)
               PROVE  r.sw \in Switches
  BY DEF AllRules, NewTable
<1>2. PICK p \in PathOf(up, sig) : \E k \in DOMAIN p : r.sw = p[k]
  BY <1>1 DEF RulesOf
<1>3. PICK s, t : p \in ShortestPath(up, s, t)
  BY <1>2 DEF PathOf
<1>4. Connected(up, s, t) /\ p = CHOOSE q \in Shortest(up, s, t) : TRUE
  BY <1>3 DEF ShortestPath
<1>5. p \in Shortest(up, s, t)
  BY <1>4 DEF Connected
<1>6. PICK n \in Nat : p \in Walks(up, s, t, n)
  BY <1>5 DEF Shortest
<1>7. p \in [1..n -> Switches]
  BY <1>6 DEF Walks
<1> QED
  BY <1>2, <1>7

LEMMA PacketType ==
  ASSUME NEW k \in Nat, NEW type \in Types, NEW src \in Receivers,
         NEW dst \in Receivers \cup {ALL}, NEW data \in Data
  PROVE  Packet(k, type, src, dst, data) \in Packets
BY NewIdType DEF Packet, Packets

\* A packet that tells of no link tells the truth.
LEMMA NoNews ==
  ASSUME NEW h, NEW p \in Packets, CarriesRules(p),
         p.type \notin {"LINK_UP", "LINK_DOWN", "SWITCH_INFORMATION"}
  PROVE  p \in TruePackets(h)
<1>1. DOMAIN Report(p) = {}
  BY DEF Report
<1> QED
  BY <1>1 DEF TruePackets, Truthful

LEMMA PatchType ==
  ASSUME NEW c \in Controllers, NEW old \in SUBSET AllRules, NEW new \in SUBSET AllRules
  PROVE  Patch(c, old, new) \in Seq(TruePackets(hist))
<1> DEFINE dests == SetToSeq(Patched(old, new))
           data(k) == [rules |-> At(Diff(old, new), dests[k]), del |-> Removed(old, new, dests[k])]
           packet(k) == Packet(k, "CHANGE_RULES", c, dests[k], data(k))
<1>1. Patched(old, new) \subseteq Switches
  BY RulesAtSwitches DEF Patched, Diff
<1>2. IsFiniteSet(Patched(old, new))
  BY <1>1, TopologyAssumption, FS_Subset DEF Nodes
<1>3. dests \in Seq(Switches)
  <2>1. dests \in Seq(Patched(old, new))
    BY <1>2, SetToSeqType
  <2> QED
    BY <1>1, <2>1, SeqSubset
<1>4. DOMAIN dests = 1..Len(dests) /\ Len(dests) \in Nat /\ \A k \in DOMAIN dests : dests[k] \in Switches
  BY <1>3, LenProperties, ElementOfSeq
<1>5. ASSUME NEW k \in DOMAIN dests
      PROVE  packet(k) \in TruePackets(hist)
  <2>1. k \in Nat /\ dests[k] \in Receivers /\ c \in Receivers
    BY <1>4 DEF Receivers
  <2>2. data(k) \in Patches
    BY DEF At, Diff, Removed, SigsOf, Patches
  <2>3. data(k) \in Data
    BY <2>2 DEF Data
  <2>4. packet(k) \in Packets
    BY <2>1, <2>3, PacketType DEF Types
  <2> QED
    BY <2>2, <2>4, NoNews DEF Packet, CarriesRules
<1>6. Patch(c, old, new) = [k \in 1..Len(dests) |-> packet(k)]
  BY <1>4 DEF Patch
<1> QED
  BY <1>4, <1>5, <1>6, SeqDef

-----------------------------------------------------------------------------
\* Taking the oldest packet of a channel.
LEMMA TakeHead ==
  ASSUME IInv, NEW k \in Chans, chan[k] # <<>>
  PROVE  /\ Head(chan[k]) \in TruePackets(hist)
         /\ [chan EXCEPT ![k] = Tail(@)] \in [Chans -> Seq(TruePackets(hist))]
<1>1. chan \in [Chans -> Seq(TruePackets(hist))]
  BY DEF IInv
<1>2. Head(chan[k]) \in TruePackets(hist) /\ Tail(chan[k]) \in Seq(TruePackets(hist))
  BY <1>1, HeadTailProperties
<1> QED
  BY <1>1, <1>2

\* What a switch tells of its links is true when it tells it.
LEMMA AnswersType ==
  ASSUME IInv, NEW s \in Switches, NEW p \in TruePackets(hist)
  PROVE  Answers(s, p) \in Seq(TruePackets(hist))
<1>1. p.src \in Receivers /\ s \in Receivers /\ 1 \in Nat
  BY DEF TruePackets, Packets, Receivers
<1> DEFINE data == [l \in LinksOf(s) |-> [state |-> Last(hist[l]), version |-> Version(l)]]
           info == Packet(1, "SWITCH_INFORMATION", s, p.src, data)
           resp == Packet(1, "SWITCH_TABLE_RESP", s, p.src, table[s])
<1>2. ASSUME NEW l \in LinksOf(s)
      PROVE  /\ l \in Links
             /\ Version(l) \in 1..Len(hist[l])
             /\ Last(hist[l]) = hist[l][Version(l)]
             /\ Last(hist[l]) \in States
  <2>1. hist[l] \in Seq(States) /\ Len(hist[l]) \in Nat \ {0} /\ l \in Links
    BY ControlPlaneAssumption, LenProperties DEF IInv, LinksOf
  <2>2. Len(hist[l]) \in 1..Len(hist[l])
    BY <2>1
  <2> QED
    BY <2>1, <2>2, ElementOfSeq DEF Version, Last
<1>3. info \in TruePackets(hist)
  <2>1. data \in [LinksOf(s) -> News] /\ LinksOf(s) \in SUBSET Links
    BY <1>2 DEF News, LinksOf
  <2>2. data \in Data
    BY <2>1 DEF Data
  <2>3. info \in Packets
    BY <1>1, <2>2, PacketType DEF Types
  <2>4. Report(info) = data /\ info.type = "SWITCH_INFORMATION"
    BY DEF Report, Packet
  <2>5. Truthful(hist, info)
    BY <1>2, <2>4 DEF Truthful
  <2> QED
    BY <2>3, <2>4, <2>5 DEF TruePackets, CarriesRules
<1>4. resp \in TruePackets(hist)
  <2>1. table[s] \in SUBSET AllRules
    BY DEF IInv
  <2>2. table[s] \in Data
    BY <2>1 DEF Data
  <2>3. resp \in Packets
    BY <1>1, <2>2, PacketType DEF Types
  <2> QED
    BY <2>1, <2>3, NoNews DEF Packet, CarriesRules
<1>5. \A q \in TruePackets(hist) : <<q>> \in Seq(TruePackets(hist))
  OBVIOUS
<1>6. <<>> \in Seq(TruePackets(hist))
  BY EmptySeq
<1> QED
  BY <1>3, <1>4, <1>5, <1>6 DEF Answers, SwitchInformation

LEMMA SwitchReceiveType ==
  ASSUME IInv, NEW s \in Switches, NEW l, NEW p \in TruePackets(hist),
         NEW ch \in [Chans -> Seq(TruePackets(hist))], SwitchReceive(s, l, p, ch)
  PROVE  /\ chan' \in [Chans -> Seq(TruePackets(hist))]
         /\ table' \in [Switches -> SUBSET AllRules]
         /\ UNCHANGED <<known, existing, flowDb>>
<1> DEFINE copy == IF Spreads(s, p) THEN <<p>> ELSE <<>>
           answers == IF p.dst \in {s, ALL} THEN Answers(s, p) ELSE <<>>
<1>1. copy \in Seq(TruePackets(hist)) /\ answers \in Seq(TruePackets(hist))
  BY AnswersType, EmptySeq
<1>2. Flood(ch, Up(hist), s, copy, l) \in [Chans -> Seq(TruePackets(hist))]
  BY <1>1, FloodType
<1>3. Flood(Flood(ch, Up(hist), s, copy, l), Up(hist), s, answers, NoLink) \in [Chans -> Seq(TruePackets(hist))]
  BY <1>1, <1>2, FloodType
<1>4. chan' \in [Chans -> Seq(TruePackets(hist))]
  BY <1>3 DEF SwitchReceive
<1>5. table' \in [Switches -> SUBSET AllRules]
  <2>1. table \in [Switches -> SUBSET AllRules]
    BY DEF IInv
  <2>2. CASE p.type = "CHANGE_RULES"
    <3>1. p.data.rules \in SUBSET AllRules
      BY <2>2 DEF TruePackets, CarriesRules, Patches
    <3>2. Install(table[s], p.data.rules, p.data.del) \in SUBSET AllRules
      BY <2>1, <3>1 DEF Install
    <3> QED
      BY <2>1, <3>2 DEF SwitchReceive
  <2>3. CASE p.type # "CHANGE_RULES"
    BY <2>1, <2>3 DEF SwitchReceive
  <2> QED
    BY <2>2, <2>3
<1> QED
  BY <1>4, <1>5 DEF SwitchReceive

\* What a controller learns from a packet that tells the truth.
LEMMA NewsType ==
  ASSUME IInv, NEW c \in Controllers, NEW p \in TruePackets(hist)
  PROVE  /\ NewKnown(c, Report(p)) \in [Links -> 1..MaxVersion]
         /\ \A l \in Links : NewKnown(c, Report(p))[l] \in known[c][l]..Len(hist[l])
         /\ NewExisting(c, Report(p)) \in SUBSET Links
         /\ \A l \in Links : l \in NewExisting(c, Report(p)) <=> hist[l][NewKnown(c, Report(p))[l]] = "UP"
<1> DEFINE r == Report(p)
<1>1. \A l \in Newer(c, r) : /\ l \in Links
                             /\ r[l].version \in 1..Len(hist[l])
                             /\ r[l].version > known[c][l]
                             /\ r[l].state = hist[l][r[l].version]
  BY DEF Newer, TruePackets, Truthful
<1>2. \A l \in Links : /\ known[c][l] \in Nat \ {0}
                       /\ known[c][l] <= Len(hist[l])
                       /\ Len(hist[l]) \in 1..MaxVersion
                       /\ l \in existing[c] <=> hist[l][known[c][l]] = "UP"
  BY DEF IInv, ViewTruth, Version
<1>3. \A l \in Links : NewKnown(c, r)[l] = IF l \in Newer(c, r) THEN r[l].version ELSE known[c][l]
  BY DEF NewKnown
<1>4. MaxVersion \in Nat /\ existing[c] \in SUBSET Links
  BY ControlPlaneAssumption DEF IInv
<1>5. \A l \in Links : NewKnown(c, r)[l] \in known[c][l]..Len(hist[l]) /\ NewKnown(c, r)[l] \in 1..MaxVersion
  BY <1>1, <1>2, <1>3, <1>4
<1>6. NewKnown(c, r) \in [Links -> 1..MaxVersion]
  BY <1>3, <1>5 DEF NewKnown
<1>7. NewExisting(c, r) \in SUBSET Links
  BY <1>1, <1>4 DEF NewExisting
<1>8. \A l \in Links : l \in NewExisting(c, r) <=> hist[l][NewKnown(c, r)[l]] = "UP"
  BY <1>1, <1>2, <1>3 DEF NewExisting
<1> QED
  BY <1>5, <1>6, <1>7, <1>8

\* The flow database that compute_paths starts from.
LEMMA BelievedType ==
  ASSUME IInv, NEW c \in Controllers, NEW p \in TruePackets(hist)
  PROVE  Believed(c, p) \in SUBSET AllRules
<1>1. flowDb[c] \in SUBSET AllRules
  BY DEF IInv
<1>2. p.type = "SWITCH_TABLE_RESP" => p.data \in SUBSET AllRules
  BY DEF TruePackets, CarriesRules
<1> QED
  BY <1>1, <1>2 DEF Believed

LEMMA ControllerProcessType ==
  ASSUME IInv, NEW c \in Controllers, NEW p \in TruePackets(hist),
         NEW ch \in [Chans -> Seq(TruePackets(hist))], ControllerProcess(c, p, ch)
  PROVE  /\ chan' \in [Chans -> Seq(TruePackets(hist))]
         /\ table' = table
         /\ flowDb' \in [Controllers -> SUBSET AllRules]
         /\ known' = [known EXCEPT ![c] = NewKnown(c, Report(p))]
         /\ existing' = [existing EXCEPT ![c] = NewExisting(c, Report(p))]
<1>1. flowDb \in [Controllers -> SUBSET AllRules] /\ existing \in [Controllers -> SUBSET Links]
  BY DEF IInv
<1>2. existing' = [existing EXCEPT ![c] = NewExisting(c, Report(p))] /\ existing'[c] \in SUBSET Links
  BY <1>1, NewsType DEF ControllerProcess
<1> DEFINE new == NewTable(existing'[c])
           patch == Patch(c, Believed(c, p), new)
<1>3. new \in SUBSET AllRules
  BY <1>2 DEF AllRules
<1>4. patch \in Seq(TruePackets(hist))
  BY <1>3, BelievedType, PatchType
<1>5. Flood(ch, Up(hist), c, patch, NoLink) \in [Chans -> Seq(TruePackets(hist))]
  BY <1>4, FloodType
<1>6. CASE Recomputes(c, p)
  <2>1. flowDb' = [flowDb EXCEPT ![c] = new] /\ chan' = Flood(ch, Up(hist), c, patch, NoLink)
    BY <1>6 DEF ControllerProcess
  <2> QED
    BY <2>1, <1>1, <1>2, <1>3, <1>5 DEF ControllerProcess
<1>7. CASE ~Recomputes(c, p)
  BY <1>1, <1>2, <1>7 DEF ControllerProcess
<1> QED
  BY <1>6, <1>7

-----------------------------------------------------------------------------
LEMMA InitIInv == Init => IInv
<1>1. SUFFICES ASSUME Init PROVE IInv
  OBVIOUS
<1>2. <<"UP">> \in Seq(States) /\ Len(<<"UP">>) = 1 /\ <<"UP">>[1] = "UP"
  BY DEF States
<1>3. \A s \in Switches : At(NewTable(Links), s) \in SUBSET AllRules
  BY DEF At, AllRules
<1>4. NewTable(Links) \in SUBSET AllRules
  BY DEF AllRules
<1>5. <<>> \in Seq(TruePackets(hist))
  BY EmptySeq
<1>6. ViewTruth
  BY <1>1, <1>2 DEF Init, ViewTruth, Version
<1> QED
  BY <1>1, <1>2, <1>3, <1>4, <1>5, <1>6, ControlPlaneAssumption DEF Init, IInv

\* A link changes: the notifications tell its new state.
LEMMA SetLinkKeepsIInv ==
  ASSUME IInv, NEW l \in Links, NEW s \in States, SetLink(l, s)
  PROVE  IInv'
<1> DEFINE v == Version(l) + 1
           S == TruePackets(hist')
           ends == SetToSeq(Ends[l] \cap Switches)
           note(k) == Notification(k, ends[k], l, s, v)
           tell(ch, k) == IF k > Len(ends) \/ Last(hist[l]) = s THEN ch
                          ELSE Flood(ch, Up(hist'), ends[k], <<note(k)>>, NoLink)
<1>1. hist' = [hist EXCEPT ![l] = Append(@, s)]
  BY DEF SetLink
<1>2. /\ hist' \in [Links -> Seq(States)]
      /\ \A m \in Links : \A u \in 1..Len(hist[m]) : u \in 1..Len(hist'[m]) /\ hist'[m][u] = hist[m][u]
      /\ \A m \in Links : Len(hist'[m]) = IF m = l THEN Len(hist[m]) + 1 ELSE Len(hist[m])
      /\ hist'[l][Len(hist[l]) + 1] = s
      /\ TruePackets(hist) \subseteq S
  BY <1>1, TruthLasts
<1>3. \A m \in Links : Len(hist[m]) \in 1..MaxVersion
  BY DEF IInv
<1>4. \A m \in Links : Len(hist'[m]) \in 1..MaxVersion
  BY <1>2, <1>3, ControlPlaneAssumption DEF SetLink, Version
<1>5. chan \in [Chans -> Seq(S)]
  <2>1. Seq(TruePackets(hist)) \subseteq Seq(S)
    BY <1>2, SeqSubset
  <2> QED
    BY <2>1 DEF IInv
<1>6. ends \in Seq(Switches)
  <2>1. IsFiniteSet(Ends[l] \cap Switches)
    BY TopologyAssumption, FS_Subset DEF Nodes
  <2>2. ends \in Seq(Ends[l] \cap Switches)
    BY <2>1, SetToSeqType
  <2> QED
    BY <2>2, SeqSubset
<1>7. ASSUME NEW k \in 1..Len(ends)
      PROVE  note(k) \in S
  <2>1. k \in Nat /\ ends[k] \in Receivers /\ Len(hist[l]) \in Nat
    BY <1>3, <1>6, LenProperties, ElementOfSeq DEF Receivers
  <2> DEFINE type == IF s = "UP" THEN "LINK_UP" ELSE "LINK_DOWN"
             data == [link |-> l, version |-> v]
  <2>2. data \in Data
    BY <2>1 DEF Data, Version
  <2>3. note(k) \in Packets
    BY <2>1, <2>2, PacketType DEF Types, Notification
  <2>4. /\ note(k).type = type /\ note(k).data = data
        /\ Report(note(k)) = [m \in {l} |-> [state |-> s, version |-> v]]
    BY DEF Notification, Packet, Report, States
  <2>5. v \in 1..Len(hist'[l]) /\ hist'[l][v] = s
    BY <1>2, <2>1 DEF Version
  <2>6. Truthful(hist', note(k))
    BY <2>4, <2>5 DEF Truthful
  <2> QED
    BY <2>3, <2>4, <2>6 DEF TruePackets, CarriesRules
<1>8. ASSUME NEW ch \in [Chans -> Seq(S)], NEW k \in Nat \ {0}
      PROVE  tell(ch, k) \in [Chans -> Seq(S)]
  <2>1. CASE k > Len(ends) \/ Last(hist[l]) = s
    BY <2>1
  <2>2. CASE ~(k > Len(ends) \/ Last(hist[l]) = s)
    <3>1. k \in 1..Len(ends)
      BY <1>6, <2>2, LenProperties
    <3>2. <<note(k)>> \in Seq(S)
      <4>1. note(k) \in S
        BY <3>1, <1>7
      <4> HIDE DEF note, S
      <4> QED
        BY <4>1, OneElement
    <3>3. Flood(ch, Up(hist'), ends[k], <<note(k)>>, NoLink) \in [Chans -> Seq(S)]
      BY <3>2, FloodType
    <3> QED
      BY <2>2, <3>3
  <2> QED
    BY <2>1, <2>2
<1>9. chan' \in [Chans -> Seq(S)]
  <2>0. chan' = tell(tell(chan, 1), 2)
    BY DEF SetLink
  <2> HIDE DEF tell
  <2>1. tell(chan, 1) \in [Chans -> Seq(S)]
    BY <1>5, <1>8
  <2>2. tell(tell(chan, 1), 2) \in [Chans -> Seq(S)]
    BY <2>1, <1>8
  <2> QED
    BY <2>0, <2>2
<1>10. ViewTruth'
  <2>1. \A c \in Controllers, m \in Links :
          /\ known[c][m] \in 1..Len(hist[m])
          /\ m \in existing[c] <=> hist[m][known[c][m]] = "UP"
    BY <1>3 DEF IInv, ViewTruth, Version
  <2>2. \A m \in Links : Len(hist[m]) \in Nat
    BY <1>3
  <2> QED
    BY <1>2, <2>1, <2>2 DEF SetLink, ViewTruth, Version
<1> QED
  BY <1>2, <1>4, <1>9, <1>10 DEF IInv, SetLink

\* A step that leaves the links alone, and the controllers' views.
LEMMA SameViewKeepsIInv ==
  ASSUME IInv, chan' \in [Chans -> Seq(TruePackets(hist))], table' \in [Switches -> SUBSET AllRules],
         flowDb' \in [Controllers -> SUBSET AllRules], UNCHANGED <<hist, known, existing>>
  PROVE  IInv'
<1>1. ViewTruth'
  BY DEF IInv, ViewTruth, Version
<1> QED
  BY <1>1 DEF IInv

\* A controller that learns from a packet learns the truth.
LEMMA LearningKeepsIInv ==
  ASSUME IInv, NEW c \in Controllers, NEW p \in TruePackets(hist), UNCHANGED hist,
         chan' \in [Chans -> Seq(TruePackets(hist))], table' = table,
         flowDb' \in [Controllers -> SUBSET AllRules],
         known' = [known EXCEPT ![c] = NewKnown(c, Report(p))],
         existing' = [existing EXCEPT ![c] = NewExisting(c, Report(p))]
  PROVE  IInv' /\ View!Learn(c, NewKnown(c, Report(p)))
<1> DEFINE v == NewKnown(c, Report(p))
           up == NewExisting(c, Report(p))
<1>1. /\ v \in [Links -> 1..MaxVersion]
      /\ \A l \in Links : v[l] \in known[c][l]..Len(hist[l])
      /\ up \in SUBSET Links
      /\ \A l \in Links : l \in up <=> hist[l][v[l]] = "UP"
  BY NewsType
<1>2. /\ known \in [Controllers -> [Links -> Nat \ {0}]]
      /\ existing \in [Controllers -> SUBSET Links]
      /\ \A d \in Controllers, l \in Links :
           /\ known[d][l] <= Len(hist[l])
           /\ l \in existing[d] <=> hist[l][known[d][l]] = "UP"
      /\ \A l \in Links : Len(hist[l]) \in 1..MaxVersion
  BY DEF IInv, ViewTruth, Version
<1> HIDE DEF v, up
<1>3. known' = [known EXCEPT ![c] = v] /\ existing' = [existing EXCEPT ![c] = up]
  BY DEF v, up
<1>4. known' \in [Controllers -> [Links -> Nat \ {0}]] /\ existing' \in [Controllers -> SUBSET Links]
  <2>1. v \in [Links -> Nat \ {0}]
    BY <1>1, ControlPlaneAssumption
  <2> QED
    BY <1>1, <1>2, <1>3, <2>1
<1>5. \A d \in Controllers : known'[d] = (IF d = c THEN v ELSE known[d])
                           /\ existing'[d] = (IF d = c THEN up ELSE existing[d])
  BY <1>2, <1>3
<1>6. \A l \in Links : v[l] <= Len(hist[l])
  BY <1>1, <1>2
<1>7. \A d \in Controllers, l \in Links :
        /\ known'[d][l] <= Len(hist[l])
        /\ l \in existing'[d] <=> hist[l][known'[d][l]] = "UP"
  BY <1>1, <1>2, <1>5, <1>6
<1>8. IInv'
  BY <1>4, <1>7 DEF IInv, ViewTruth, Version
<1>9. up = {l \in Links : hist[l][v[l]] = "UP"}
  BY <1>1
<1>10. View!Learn(c, v)
  BY <1>1, <1>3, <1>9 DEF View!Learn
<1> QED
  BY <1>8, <1>10 DEF v

\* A packet is received or discarded.
LEMMA DeliverStep ==
  ASSUME IInv, NEW k \in Chans, Deliver(k)
  PROVE  /\ IInv'
         /\ \/ UNCHANGED <<hist, known, existing>>
            \/ \E c \in Controllers, v \in [Links -> 1..MaxVersion] : View!Learn(c, v)
<1> DEFINE p == Head(chan[k])
           ch == [chan EXCEPT ![k] = Tail(@)]
<1>1. p \in TruePackets(hist) /\ ch \in [Chans -> Seq(TruePackets(hist))] /\ hist' = hist
  BY TakeHead DEF Deliver
<1>2. table \in [Switches -> SUBSET AllRules] /\ flowDb \in [Controllers -> SUBSET AllRules]
  BY DEF IInv
<1> HIDE DEF p, ch
<1>3. CASE k[1] \in Up(hist) /\ k[2] \in Switches
  <2>1. SwitchReceive(k[2], k[1], p, ch)
    BY <1>3 DEF Deliver, p, ch
  <2>2. /\ chan' \in [Chans -> Seq(TruePackets(hist))]
        /\ table' \in [Switches -> SUBSET AllRules]
        /\ UNCHANGED <<known, existing, flowDb>>
    BY <1>1, <1>3, <2>1, SwitchReceiveType
  <2> QED
    BY <1>1, <1>2, <2>2, SameViewKeepsIInv
<1>4. CASE k[1] \in Up(hist) /\ k[2] \notin Switches
  <2>1. ControllerReceive(k[2], p, ch) /\ k[2] \in Controllers
    BY <1>4 DEF Deliver, p, ch, Chans, Receivers
  <2>2. CASE ControllerProcess(k[2], p, ch)
    <3>1. /\ chan' \in [Chans -> Seq(TruePackets(hist))]
          /\ table' = table
          /\ flowDb' \in [Controllers -> SUBSET AllRules]
          /\ known' = [known EXCEPT ![k[2]] = NewKnown(k[2], Report(p))]
          /\ existing' = [existing EXCEPT ![k[2]] = NewExisting(k[2], Report(p))]
      BY <1>1, <2>1, <2>2, ControllerProcessType
    <3>2. IInv' /\ View!Learn(k[2], NewKnown(k[2], Report(p)))
      BY <1>1, <2>1, <3>1, LearningKeepsIInv
    <3>3. NewKnown(k[2], Report(p)) \in [Links -> 1..MaxVersion]
      BY <1>1, <2>1, NewsType
    <3> QED
      BY <2>1, <3>2, <3>3
  <2>3. CASE ControllerIgnore(k[2], p, ch)
    BY <1>1, <1>2, <2>3, SameViewKeepsIInv DEF ControllerIgnore
  <2> QED
    BY <2>1, <2>2, <2>3 DEF ControllerReceive
<1>5. CASE k[1] \notin Up(hist)
  <2>1. chan' = ch /\ UNCHANGED <<table, known, existing, flowDb>>
    BY <1>5 DEF Deliver, ch
  <2> QED
    BY <1>1, <1>2, <2>1, SameViewKeepsIInv
<1> QED
  BY <1>3, <1>4, <1>5

LEMMA LoseKeepsIInv ==
  ASSUME IInv, NEW k \in Chans, Lose(k)
  PROVE  IInv'
<1>1. table \in [Switches -> SUBSET AllRules] /\ flowDb \in [Controllers -> SUBSET AllRules]
  BY DEF IInv
<1> QED
  BY <1>1, TakeHead, SameViewKeepsIInv DEF Lose

\* The periodic requests tell of no link.
LEMMA SwitchInfoRequestKeepsIInv ==
  ASSUME IInv, NEW c \in Controllers, SendSwitchInfoRequest(c)
  PROVE  IInv'
<1> DEFINE req == Packet(1, "SWITCH_INFORMATION_REQ", c, ALL, <<>>)
<1>1. req \in TruePackets(hist)
  <2>1. req \in Packets
    BY PacketType DEF Types, Data, Receivers
  <2> QED
    BY <2>1, NoNews DEF Packet, CarriesRules
<1>2. /\ table \in [Switches -> SUBSET AllRules] /\ flowDb \in [Controllers -> SUBSET AllRules]
      /\ chan \in [Chans -> Seq(TruePackets(hist))]
  BY DEF IInv
<1>3. <<req>> \in Seq(TruePackets(hist))
  <2> HIDE DEF req
  <2> QED
    BY <1>1, OneElement
<1>4. Flood(chan, Up(hist), c, <<req>>, NoLink) \in [Chans -> Seq(TruePackets(hist))]
  BY <1>2, <1>3, FloodType
<1> QED
  BY <1>2, <1>4, SameViewKeepsIInv DEF SendSwitchInfoRequest

LEMMA RoutingRequestKeepsIInv ==
  ASSUME IInv, NEW c \in Controllers, SendRoutingRequest(c)
  PROVE  IInv'
<1> DEFINE dests == SetToSeq(Switches)
           req(k) == Packet(k, "SWITCH_TABLE_REQ", c, dests[k], At(flowDb[c], dests[k]))
           requests == [k \in DOMAIN dests |-> req(k)]
<1>1. /\ table \in [Switches -> SUBSET AllRules] /\ flowDb \in [Controllers -> SUBSET AllRules]
      /\ chan \in [Chans -> Seq(TruePackets(hist))]
  BY DEF IInv
<1>2. IsFiniteSet(Switches)
  BY TopologyAssumption, FS_Subset DEF Nodes
<1>3. dests \in Seq(Switches)
  BY <1>2, SetToSeqType
<1>4. DOMAIN dests = 1..Len(dests) /\ Len(dests) \in Nat /\ \A k \in DOMAIN dests : dests[k] \in Switches
  BY <1>3, LenProperties, ElementOfSeq
<1>5. ASSUME NEW k \in DOMAIN dests
      PROVE  req(k) \in TruePackets(hist)
  <2>1. k \in Nat /\ dests[k] \in Receivers /\ c \in Receivers
    BY <1>4 DEF Receivers
  <2>2. At(flowDb[c], dests[k]) \in SUBSET AllRules
    BY <1>1 DEF At
  <2>3. At(flowDb[c], dests[k]) \in Data
    BY <2>2 DEF Data
  <2>4. req(k) \in Packets
    BY <2>1, <2>3, PacketType DEF Types
  <2> QED
    BY <2>4, NoNews DEF Packet, CarriesRules
<1>6. requests \in Seq(TruePackets(hist))
  <2> HIDE DEF dests, req
  <2>1. requests = [k \in 1..Len(dests) |-> req(k)]
    BY <1>4
  <2> QED
    BY <1>4, <1>5, <2>1, SeqDef
<1>7. Flood(chan, Up(hist), c, requests, NoLink) \in [Chans -> Seq(TruePackets(hist))]
  BY <1>1, <1>6, FloodType
<1> QED
  BY <1>1, <1>7, SameViewKeepsIInv DEF SendRoutingRequest

LEMMA NextKeepsIInv == IInv /\ [Next]_vars => IInv'
<1>1. SUFFICES ASSUME IInv, [Next]_vars PROVE IInv'
  OBVIOUS
<1>2. ASSUME NEW l \in Links, NEW s \in {"UP", "DOWN"}, SetLink(l, s)
      PROVE  IInv'
  BY <1>1, <1>2, SetLinkKeepsIInv DEF States
<1>3. ASSUME NEW k \in Chans, Deliver(k) PROVE IInv'
  BY <1>1, <1>3, DeliverStep
<1>4. ASSUME NEW k \in Chans, Lose(k) PROVE IInv'
  BY <1>1, <1>4, LoseKeepsIInv
<1>5. ASSUME NEW c \in Controllers, SendSwitchInfoRequest(c) PROVE IInv'
  BY <1>1, <1>5, SwitchInfoRequestKeepsIInv
<1>6. ASSUME NEW c \in Controllers, SendRoutingRequest(c) PROVE IInv'
  BY <1>1, <1>6, RoutingRequestKeepsIInv
<1>7. CASE UNCHANGED vars
  BY <1>1, <1>7 DEF IInv, ViewTruth, Version, vars
<1> QED
  BY <1>1, <1>2, <1>3, <1>4, <1>5, <1>6, <1>7 DEF Next

\* The inductive invariant holds in every state of every network.
THEOREM InvariantHolds == Spec => []IInv
BY InitIInv, NextKeepsIInv, PTL DEF Spec

\* What the invariant says of packets.
LEMMA PacketsAreTrue == IInv => NewsIsTrue
<1>1. SUFFICES ASSUME IInv, NEW k \in Chans, NEW i \in DOMAIN chan[k]
               PROVE  Truthful(hist, chan[k][i])
  BY DEF NewsIsTrue
<1>2. chan[k] \in Seq(TruePackets(hist))
  BY <1>1 DEF IInv
<1>3. chan[k][i] \in TruePackets(hist)
  BY <1>1, <1>2, LenProperties, ElementOfSeq
<1> QED
  BY <1>3 DEF TruePackets

\* In every network every packet that travels tells the truth about the links.
THEOREM NewsStaysTrue == Spec => []NewsIsTrue
BY PacketsAreTrue, InvariantHolds, PTL

\* In every network a controller's view of a link is the state the link had at the
\* version the controller knows, in whatever order the news arrives.
THEOREM ViewIsTrue == Spec => []ViewTruth
<1>1. IInv => ViewTruth
  BY DEF IInv
<1> QED
  BY <1>1, InvariantHolds, PTL

-----------------------------------------------------------------------------
LEMMA InitRefines == Init => View!Init
BY DEF Init, View!Init

LEMMA StepRefines == IInv /\ [Next]_vars => [View!Next]_(<<hist, known, existing>>)
<1>1. SUFFICES ASSUME IInv, [Next]_vars, ~ UNCHANGED <<hist, known, existing>> PROVE View!Next
  OBVIOUS
<1>2. ASSUME NEW l \in Links, NEW s \in {"UP", "DOWN"}, SetLink(l, s)
      PROVE  View!Next
  BY <1>2 DEF SetLink, View!Next, View!Change
<1>3. ASSUME NEW k \in Chans, Deliver(k)
      PROVE  View!Next
  BY <1>1, <1>3, DeliverStep DEF View!Next
<1>4. ASSUME NEW k \in Chans, Lose(k) PROVE FALSE
  BY <1>1, <1>4 DEF Lose
<1>5. ASSUME NEW c \in Controllers, SendSwitchInfoRequest(c) \/ SendRoutingRequest(c) PROVE FALSE
  BY <1>1, <1>5 DEF SendSwitchInfoRequest, SendRoutingRequest
<1>6. CASE UNCHANGED vars
  BY <1>1, <1>6 DEF vars
<1> QED
  BY <1>1, <1>2, <1>3, <1>4, <1>5, <1>6 DEF Next

\* In every network a controller's view only moves forward, to states its links
\* really had: the control plane implements LinkView.
THEOREM ControlPlaneIsLinkView == Spec => ImplementsView
<1>1. IInv /\ [Next]_vars => [View!Next]_(<<hist, known, existing>>)
  BY StepRefines
<1> QED
  BY InitRefines, InvariantHolds, <1>1, PTL DEF Spec, ImplementsView, View!Spec, View!vars

-----------------------------------------------------------------------------
\* Type correctness.

Tables == {rules \in SUBSET Rule : IsTable(rules)}

\* What packets carry, and the packets that carry what their type says.
LinkNews == [state : States, version : 1..MaxVersion]
Payload == UNION {[link : Links, version : 1..MaxVersion],
                  UNION {[ls -> LinkNews] : ls \in SUBSET Links},
                  Tables, [rules : Tables, del : SUBSET Sigs], {<<>>}}
TypedPackets ==
  {p \in [id : Ids, type : Types, src : Receivers, dst : Receivers \cup {ALL}, data : Payload] : HasData(p)}

\* The type invariant with the types of the functions, which is inductive.
TypeInv ==
  /\ hist \in [Links -> Seq(States)]
  /\ \A l \in Links : Len(hist[l]) \in 1..MaxVersion
  /\ chan \in [Chans -> Seq(TypedPackets)]
  /\ filter \in [Receivers -> SUBSET Ids]
  /\ table \in [Switches -> Tables]
  /\ known \in [Controllers -> [Links -> 1..MaxVersion]]
  /\ existing \in [Controllers -> SUBSET Links]
  /\ flowDb \in [Controllers -> Tables]
  /\ losses \in 0..MaxLoss

-----------------------------------------------------------------------------
LEMMA FreeIdsFinite == IsFiniteSet(FreeIds) /\ Cardinality(FreeIds) \in Nat /\ FreeIds \in SUBSET Ids
<1>1. IsFiniteSet(Ids)
  BY ControlPlaneAssumption, FS_Interval DEF Ids
<1>2. FreeIds \in SUBSET Ids
  BY DEF FreeIds
<1> QED
  BY <1>1, <1>2, FS_Subset, FS_CardinalityType

\* The k-th new packet finds an identifier if k are free.
LEMMA NewIdFound ==
  ASSUME NEW k \in Nat \ {0}, k <= Cardinality(FreeIds)
  PROVE  NewId(k) \in Ids
<1>1. FreeIds \in SUBSET (1..MaxPackets) /\ MaxPackets \in Nat
  BY FreeIdsFinite, ControlPlaneAssumption DEF Ids
<1>2. \E i \in FreeIds : Cardinality(FreeIds \cap 1..i) = k
  BY <1>1, KthElement
<1> QED
  BY <1>2, FreeIdsFinite DEF NewId

LEMMA OneIdFree ==
  ASSUME FreeIds # {}
  PROVE  1 <= Cardinality(FreeIds)
BY FreeIdsFinite, FS_EmptySet

\* A list of a finite set has as many elements.
LEMMA SwitchList ==
  ASSUME NEW S \in SUBSET Switches
  PROVE  /\ SetToSeq(S) \in Seq(Switches)
         /\ DOMAIN SetToSeq(S) = 1..Len(SetToSeq(S))
         /\ Len(SetToSeq(S)) \in Nat /\ Len(SetToSeq(S)) <= Cardinality(Switches)
         /\ \A k \in DOMAIN SetToSeq(S) : SetToSeq(S)[k] \in S
<1>1. IsFiniteSet(Switches)
  BY TopologyAssumption, FS_Subset DEF Nodes
<1>2. IsFiniteSet(S) /\ Cardinality(S) <= Cardinality(Switches)
  BY <1>1, FS_Subset
<1>3. SetToSeq(S) \in Seq(S) /\ Len(SetToSeq(S)) = Cardinality(S)
  BY <1>2, SetToSeqType
<1> QED
  BY <1>2, <1>3, SeqSubset, LenProperties, ElementOfSeq

-----------------------------------------------------------------------------
LEMMA PacketTyped ==
  ASSUME NEW k \in Nat \ {0}, k <= Cardinality(FreeIds), NEW type \in Types, NEW src \in Receivers,
         NEW dst \in Receivers \cup {ALL}, NEW data \in Payload,
         HasData(Packet(k, type, src, dst, data))
  PROVE  Packet(k, type, src, dst, data) \in TypedPackets
<1>1. NewId(k) \in Ids
  BY NewIdFound
<1> QED
  BY <1>1 DEF Packet, TypedPackets

LEMMA NotificationTyped ==
  ASSUME NEW k \in Nat \ {0}, k <= Cardinality(FreeIds), NEW n \in Receivers, NEW l \in Links,
         NEW s \in States, NEW v \in 1..MaxVersion
  PROVE  Notification(k, n, l, s, v) \in TypedPackets
<1> DEFINE type == IF s = "UP" THEN "LINK_UP" ELSE "LINK_DOWN"
           data == [link |-> l, version |-> v]
           p == Packet(k, type, n, ALL, data)
<1>1. data \in [link : Links, version : 1..MaxVersion] /\ type \in {"LINK_UP", "LINK_DOWN"}
  OBVIOUS
<1> HIDE DEF data, type
<1>2. p.type = type /\ p.data = data
  BY DEF Packet
<1>3. HasData(p)
  BY <1>1, <1>2 DEF HasData
<1>4. p \in TypedPackets
  BY <1>1, <1>3, PacketTyped DEF Payload, Types
<1> QED
  BY <1>4 DEF Notification, type, data

\* A table request or answer.
LEMMA TablePacketTyped ==
  ASSUME NEW k \in Nat \ {0}, k <= Cardinality(FreeIds), NEW src \in Receivers, NEW dst \in Receivers,
         NEW rules \in Tables, NEW type \in {"SWITCH_TABLE_REQ", "SWITCH_TABLE_RESP"}
  PROVE  Packet(k, type, src, dst, rules) \in TypedPackets
<1> DEFINE p == Packet(k, type, src, dst, rules)
<1>1. p.type = type /\ p.data = rules
  BY DEF Packet
<1>2. HasData(p)
  BY <1>1 DEF HasData, Tables
<1> QED
  BY <1>2, PacketTyped DEF Payload, Types

LEMMA ChangeRulesTyped ==
  ASSUME NEW k \in Nat \ {0}, k <= Cardinality(FreeIds), NEW src \in Receivers, NEW dst \in Receivers,
         NEW rules \in Tables, NEW del \in SUBSET Sigs
  PROVE  Packet(k, "CHANGE_RULES", src, dst, [rules |-> rules, del |-> del]) \in TypedPackets
<1> DEFINE data == [rules |-> rules, del |-> del]
           p == Packet(k, "CHANGE_RULES", src, dst, data)
<1>1. data \in [rules : Tables, del : SUBSET Sigs] /\ data.rules = rules /\ data.del = del
  OBVIOUS
<1> HIDE DEF data
<1>2. p.type = "CHANGE_RULES" /\ p.data = data
  BY DEF Packet
<1>3. HasData(p)
  BY <1>1, <1>2 DEF HasData, Tables
<1>4. p \in TypedPackets
  BY <1>1, <1>3, PacketTyped DEF Payload, Types
<1> QED
  BY <1>4 DEF data

LEMMA InfoRequestTyped ==
  ASSUME NEW k \in Nat \ {0}, k <= Cardinality(FreeIds), NEW src \in Receivers
  PROVE  Packet(k, "SWITCH_INFORMATION_REQ", src, ALL, <<>>) \in TypedPackets
<1> DEFINE p == Packet(k, "SWITCH_INFORMATION_REQ", src, ALL, <<>>)
<1>1. p.type = "SWITCH_INFORMATION_REQ"
  BY DEF Packet
<1>2. HasData(p)
  BY <1>1 DEF HasData
<1> QED
  BY <1>2, PacketTyped DEF Payload, Types

LEMMA InformationTyped ==
  ASSUME TypeInv, NEW s \in Switches, NEW q \in TypedPackets, FreeIds # {}
  PROVE  SwitchInformation(s, q) \in TypedPackets
<1> DEFINE data == [l \in LinksOf(s) |-> [state |-> Last(hist[l]), version |-> Version(l)]]
           p == Packet(1, "SWITCH_INFORMATION", s, q.src, data)
<1>1. ASSUME NEW l \in LinksOf(s)
      PROVE  Last(hist[l]) \in States /\ Version(l) \in 1..MaxVersion
  <2>1. hist[l] \in Seq(States) /\ Len(hist[l]) \in 1..MaxVersion
    BY DEF TypeInv, LinksOf
  <2>2. Len(hist[l]) > 0
    BY <2>1, ControlPlaneAssumption
  <2> QED
    BY <2>1, <2>2, LastType DEF Version
<1>2. data \in [LinksOf(s) -> LinkNews] /\ LinksOf(s) \in SUBSET Links
  BY <1>1 DEF LinkNews, LinksOf
<1>3. q.src \in Receivers /\ s \in Receivers
  BY DEF TypedPackets, Receivers
<1> HIDE DEF data
<1>4. p.type = "SWITCH_INFORMATION" /\ p.data = data /\ p.src = s
  BY DEF Packet
<1>5. HasData(p)
  BY <1>2, <1>4 DEF HasData, LinkNews, States
<1>6. data \in Payload
  BY <1>2 DEF Payload
<1>7. p \in TypedPackets
  BY <1>3, <1>5, <1>6, OneIdFree, PacketTyped DEF Types
<1> QED
  BY <1>7 DEF SwitchInformation, data

\* What a switch answers.
LEMMA AnswersTyped ==
  ASSUME TypeInv, NEW s \in Switches, NEW p \in TypedPackets, FreeIds # {}
  PROVE  Answers(s, p) \in Seq(TypedPackets)
<1>1. SwitchInformation(s, p) \in TypedPackets
  BY InformationTyped
<1>2. Packet(1, "SWITCH_TABLE_RESP", s, p.src, table[s]) \in TypedPackets
  <2>1. p.src \in Receivers /\ s \in Receivers /\ table[s] \in Tables
    BY DEF TypedPackets, Receivers, TypeInv
  <2> QED
    BY <2>1, OneIdFree, TablePacketTyped
<1> HIDE DEF TypedPackets
<1>3. <<>> \in Seq(TypedPackets)
  BY EmptySeq
<1> QED
  BY <1>1, <1>2, <1>3, OneElement DEF Answers

LEMMA RememberTyped ==
  ASSUME NEW n, NEW seen \in SUBSET Ids, Remember(n, seen), filter \in [Receivers -> SUBSET Ids]
  PROVE  filter' \in [Receivers -> SUBSET Ids]
BY DEF Remember

\* Installing rules keeps a table a table: a signature has the new rule or the old.
LEMMA InstallTyped ==
  ASSUME NEW old \in Tables, NEW new \in Tables, NEW del
  PROVE  Install(old, new, del) \in Tables
BY DEF Install, Tables, IsTable, SigsOf

LEMMA AtTyped ==
  ASSUME NEW rules \in Tables, NEW s
  PROVE  At(rules, s) \in Tables
BY DEF At, Tables, IsTable

-----------------------------------------------------------------------------
LEMMA SwitchReceiveTyped ==
  ASSUME TypeInv, NEW s \in Switches, NEW l, NEW p \in TypedPackets,
         NEW ch \in [Chans -> Seq(TypedPackets)], SwitchReceive(s, l, p, ch)
  PROVE  /\ chan' \in [Chans -> Seq(TypedPackets)]
         /\ filter' \in [Receivers -> SUBSET Ids]
         /\ table' \in [Switches -> Tables]
         /\ UNCHANGED <<known, existing, flowDb>>
<1> DEFINE copy == IF Spreads(s, p) THEN <<p>> ELSE <<>>
           answers == IF p.dst \in {s, ALL} THEN Answers(s, p) ELSE <<>>
<1>0. FreeIds # {}
  BY DEF SwitchReceive
<1>1. copy \in Seq(TypedPackets) /\ answers \in Seq(TypedPackets)
  BY <1>0, AnswersTyped, OneElement, EmptySeq
<1>2. Flood(ch, Up(hist), s, copy, l) \in [Chans -> Seq(TypedPackets)]
  BY <1>1, FloodType
<1>3. Flood(Flood(ch, Up(hist), s, copy, l), Up(hist), s, answers, NoLink) \in [Chans -> Seq(TypedPackets)]
  BY <1>1, <1>2, FloodType
<1>4. chan' \in [Chans -> Seq(TypedPackets)]
  BY <1>3 DEF SwitchReceive
<1>5. filter' \in [Receivers -> SUBSET Ids]
  <2>1. p.id \in Ids /\ filter \in [Receivers -> SUBSET Ids]
    BY DEF TypedPackets, TypeInv
  <2> QED
    BY <2>1, RememberTyped DEF SwitchReceive
<1>6. table' \in [Switches -> Tables]
  <2>1. table \in [Switches -> Tables]
    BY DEF TypeInv
  <2>2. CASE p.type = "CHANGE_RULES"
    <3>1. p.data.rules \in Tables
      BY <2>2 DEF TypedPackets, HasData, Tables, IsTable
    <3>2. Install(table[s], p.data.rules, p.data.del) \in Tables
      BY <2>1, <3>1, InstallTyped
    <3> QED
      BY <2>1, <3>2 DEF SwitchReceive
  <2>3. CASE p.type # "CHANGE_RULES"
    BY <2>1, <2>3 DEF SwitchReceive
  <2> QED
    BY <2>2, <2>3
<1> QED
  BY <1>4, <1>5, <1>6 DEF SwitchReceive

\* What a controller learns from a packet.
LEMMA ReportTyped ==
  ASSUME NEW p \in TypedPackets, NEW l \in DOMAIN Report(p)
  PROVE  l \in Links /\ Report(p)[l].version \in 1..MaxVersion
<1>0. HasData(p)
  BY DEF TypedPackets
<1>1. CASE p.type = "SWITCH_INFORMATION"
  <2>1. Report(p) = p.data
    BY <1>1 DEF Report
  <2>2. p.data \in [LinksOf(p.src) -> [state : {"UP", "DOWN"}, version : 1..MaxVersion]]
    BY <1>0, <1>1 DEF HasData
  <2> QED
    BY <2>1, <2>2 DEF LinksOf
<1>2. CASE p.type \in {"LINK_UP", "LINK_DOWN"}
  <2>1. p.data \in [link : Links, version : 1..MaxVersion]
    BY <1>0, <1>2 DEF HasData
  <2>2. Report(p) = [m \in {p.data.link} |->
                       [state |-> IF p.type = "LINK_UP" THEN "UP" ELSE "DOWN", version |-> p.data.version]]
    BY <1>2 DEF Report
  <2> QED
    BY <2>1, <2>2
<1>3. CASE p.type \notin {"SWITCH_INFORMATION", "LINK_UP", "LINK_DOWN"}
  <2>1. DOMAIN Report(p) = {}
    BY <1>3 DEF Report
  <2> QED
    BY <2>1
<1> QED
  BY <1>1, <1>2, <1>3

LEMMA NewsTyped ==
  ASSUME TypeInv, NEW c \in Controllers, NEW p \in TypedPackets
  PROVE  /\ NewKnown(c, Report(p)) \in [Links -> 1..MaxVersion]
         /\ NewExisting(c, Report(p)) \in SUBSET Links
<1>1. \A l \in Newer(c, Report(p)) : l \in Links /\ Report(p)[l].version \in 1..MaxVersion
  BY ReportTyped DEF Newer
<1>2. known[c] \in [Links -> 1..MaxVersion] /\ existing[c] \in SUBSET Links
  BY DEF TypeInv
<1> QED
  BY <1>1, <1>2 DEF NewKnown, NewExisting

\* The updates a controller sends.
LEMMA PatchTyped ==
  ASSUME NEW c \in Controllers, NEW old \in SUBSET Rule, NEW new \in Tables,
         Cardinality(FreeIds) >= Cardinality(Switches)
  PROVE  Patch(c, old, new) \in Seq(TypedPackets)
<1> DEFINE dests == SetToSeq(Patched(old, new))
           rules(k) == At(Diff(old, new), dests[k])
           del(k) == Removed(old, new, dests[k])
           packet(k) == Packet(k, "CHANGE_RULES", c, dests[k], [rules |-> rules(k), del |-> del(k)])
<1>1. Patched(old, new) \in SUBSET Switches
  BY DEF Patched, Diff, Tables, Rule
<1>2. /\ DOMAIN dests = 1..Len(dests) /\ Len(dests) \in Nat /\ Len(dests) <= Cardinality(Switches)
      /\ \A k \in DOMAIN dests : dests[k] \in Switches
  BY <1>1, SwitchList
<1>3. ASSUME NEW k \in DOMAIN dests
      PROVE  packet(k) \in TypedPackets
  <2>1. k \in Nat \ {0} /\ k <= Cardinality(FreeIds)
    BY <1>2, FreeIdsFinite, SwitchesFinite
  <2>2. dests[k] \in Receivers /\ c \in Receivers
    BY <1>2 DEF Receivers
  <2>3. rules(k) \in Tables
    BY DEF At, Diff, Tables, IsTable
  <2>4. del(k) \in SUBSET Sigs
    BY DEF Removed, At, SigsOf, Rule
  <2> HIDE DEF rules, del
  <2> QED
    BY <2>1, <2>2, <2>3, <2>4, ChangeRulesTyped
<1>4. Patch(c, old, new) = [k \in 1..Len(dests) |-> packet(k)]
  BY <1>2 DEF Patch
<1> QED
  BY <1>2, <1>3, <1>4, SeqDef

LEMMA ControllerProcessTyped ==
  ASSUME TypeInv, NEW c \in Controllers, NEW p \in TypedPackets,
         NEW ch \in [Chans -> Seq(TypedPackets)], ControllerProcess(c, p, ch)
  PROVE  /\ chan' \in [Chans -> Seq(TypedPackets)]
         /\ filter' \in [Receivers -> SUBSET Ids]
         /\ table' = table
         /\ known' \in [Controllers -> [Links -> 1..MaxVersion]]
         /\ existing' \in [Controllers -> SUBSET Links]
         /\ flowDb' \in [Controllers -> Tables]
<1>1. /\ flowDb \in [Controllers -> Tables] /\ existing \in [Controllers -> SUBSET Links]
      /\ known \in [Controllers -> [Links -> 1..MaxVersion]] /\ filter \in [Receivers -> SUBSET Ids]
  BY DEF TypeInv
<1>2. /\ known' \in [Controllers -> [Links -> 1..MaxVersion]]
      /\ existing' \in [Controllers -> SUBSET Links] /\ existing'[c] \in SUBSET Links
  BY <1>1, NewsTyped DEF ControllerProcess
<1> DEFINE new == NewTable(existing'[c])
           patch == Patch(c, Believed(c, p), new)
<1>3. new \in Tables
  BY <1>2, NewTableIsTable DEF Tables, IsTable
<1>4. Believed(c, p) \in SUBSET Rule
  <2>1. flowDb[c] \in SUBSET Rule
    BY <1>1 DEF Tables
  <2>2. p.type = "SWITCH_TABLE_RESP" => p.data \in SUBSET Rule
    BY DEF TypedPackets, HasData, IsTable
  <2> QED
    BY <2>1, <2>2 DEF Believed
<1>5. Cardinality(FreeIds) >= Cardinality(Switches)
  BY DEF ControllerProcess
<1>6. patch \in Seq(TypedPackets)
  <2> HIDE DEF new
  <2> QED
    BY <1>3, <1>4, <1>5, PatchTyped
<1>7. Flood(ch, Up(hist), c, patch, NoLink) \in [Chans -> Seq(TypedPackets)]
  BY <1>6, FloodType
<1>8. filter' \in [Receivers -> SUBSET Ids]
  <2>1. {p.id} \in SUBSET Ids
    BY DEF TypedPackets
  <2> QED
    BY <1>1, <2>1, RememberTyped DEF ControllerProcess
<1>9. CASE Recomputes(c, p)
  <2>1. flowDb' = [flowDb EXCEPT ![c] = new] /\ chan' = Flood(ch, Up(hist), c, patch, NoLink)
    BY <1>9 DEF ControllerProcess
  <2> QED
    BY <2>1, <1>1, <1>2, <1>3, <1>7, <1>8 DEF ControllerProcess
<1>10. CASE ~Recomputes(c, p)
  BY <1>1, <1>2, <1>8, <1>10 DEF ControllerProcess
<1> QED
  BY <1>9, <1>10

-----------------------------------------------------------------------------
LEMMA InitTypeInv == Init => TypeInv
<1>1. SUFFICES ASSUME Init PROVE TypeInv
  OBVIOUS
<1>2. <<"UP">> \in Seq(States) /\ Len(<<"UP">>) = 1
  BY DEF States
<1>3. NewTable(Links) \in Tables
  BY NewTableIsTable DEF Tables, IsTable
<1>4. \A s \in Switches : At(NewTable(Links), s) \in Tables
  BY <1>3, AtTyped
<1>5. <<>> \in Seq(TypedPackets)
  BY EmptySeq
<1>6. 1 \in 1..MaxVersion /\ 0 \in 0..MaxLoss
  BY ControlPlaneAssumption
<1>7. /\ hist \in [Links -> Seq(States)] /\ \A l \in Links : Len(hist[l]) \in 1..MaxVersion
      /\ chan \in [Chans -> Seq(TypedPackets)] /\ filter \in [Receivers -> SUBSET Ids]
  BY <1>1, <1>2, <1>5, <1>6 DEF Init
<1>8. /\ table \in [Switches -> Tables] /\ known \in [Controllers -> [Links -> 1..MaxVersion]]
      /\ existing \in [Controllers -> SUBSET Links] /\ flowDb \in [Controllers -> Tables]
      /\ losses \in 0..MaxLoss
  BY <1>1, <1>3, <1>4, <1>6 DEF Init
<1> QED
  BY <1>7, <1>8 DEF TypeInv

LEMMA SetLinkKeepsTypeInv ==
  ASSUME TypeInv, NEW l \in Links, NEW s \in States, SetLink(l, s)
  PROVE  TypeInv'
<1> DEFINE v == Version(l) + 1
           S == TypedPackets
           ends == SetToSeq(Ends[l] \cap Switches)
           note(k) == Notification(k, ends[k], l, s, v)
           tell(ch, k) == IF k > Len(ends) \/ Last(hist[l]) = s THEN ch
                          ELSE Flood(ch, Up(hist'), ends[k], <<note(k)>>, NoLink)
<1>1. hist' = [hist EXCEPT ![l] = Append(@, s)] /\ Version(l) < MaxVersion
      /\ Cardinality(FreeIds) >= 2
  BY DEF SetLink
<1>2. hist \in [Links -> Seq(States)] /\ \A m \in Links : Len(hist[m]) \in 1..MaxVersion
  BY DEF TypeInv
<1>3. v \in 1..MaxVersion
  BY <1>1, <1>2, ControlPlaneAssumption DEF Version
<1>4. hist' \in [Links -> Seq(States)] /\ \A m \in Links : Len(hist'[m]) \in 1..MaxVersion
  <2>1. Append(hist[l], s) \in Seq(States) /\ Len(Append(hist[l], s)) = v
    BY <1>2, AppendProperties DEF Version
  <2> HIDE DEF v
  <2> QED
    BY <1>1, <1>2, <1>3, <2>1
<1>5. Len(ends) \in Nat /\ \A k \in 1..Len(ends) : ends[k] \in Receivers
  BY SwitchList DEF Receivers
<1>6. ASSUME NEW k \in {1, 2}, k <= Len(ends)
      PROVE  note(k) \in S
  <2>1. k \in Nat \ {0} /\ k <= Cardinality(FreeIds) /\ ends[k] \in Receivers
    <3>1. k \in 1..Len(ends)
      BY <1>5, <1>6
    <3>2. k \in Nat \ {0} /\ k <= Cardinality(FreeIds)
      BY <1>1, FreeIdsFinite
    <3> QED
      BY <1>5, <3>1, <3>2
  <2> QED
    BY <1>3, <2>1, NotificationTyped
<1>7. ASSUME NEW ch \in [Chans -> Seq(S)], NEW k \in {1, 2}
      PROVE  tell(ch, k) \in [Chans -> Seq(S)]
  <2>1. CASE k > Len(ends) \/ Last(hist[l]) = s
    BY <2>1
  <2>2. CASE ~(k > Len(ends) \/ Last(hist[l]) = s)
    <3>1. note(k) \in S
      BY <1>5, <1>6, <2>2
    <3>2. <<note(k)>> \in Seq(S)
      <4> HIDE DEF note, S
      <4> QED
        BY <3>1, OneElement
    <3>3. Flood(ch, Up(hist'), ends[k], <<note(k)>>, NoLink) \in [Chans -> Seq(S)]
      BY <3>2, FloodType
    <3> QED
      BY <2>2, <3>3
  <2> QED
    BY <2>1, <2>2
<1>8. chan' \in [Chans -> Seq(S)]
  <2>0. chan' = tell(tell(chan, 1), 2) /\ chan \in [Chans -> Seq(S)]
    BY DEF SetLink, TypeInv
  <2> HIDE DEF tell, S
  <2>1. tell(chan, 1) \in [Chans -> Seq(S)]
    BY <2>0, <1>7
  <2> QED
    BY <2>0, <2>1, <1>7
<1> QED
  BY <1>4, <1>8 DEF TypeInv, SetLink

\* A step that leaves the links alone.
LEMMA SameLinksKeepsTypeInv ==
  ASSUME TypeInv, chan' \in [Chans -> Seq(TypedPackets)], filter' \in [Receivers -> SUBSET Ids],
         table' \in [Switches -> Tables], known' \in [Controllers -> [Links -> 1..MaxVersion]],
         existing' \in [Controllers -> SUBSET Links], flowDb' \in [Controllers -> Tables],
         losses' \in 0..MaxLoss, UNCHANGED hist
  PROVE  TypeInv'
BY DEF TypeInv

LEMMA TakeHeadTyped ==
  ASSUME TypeInv, NEW k \in Chans, chan[k] # <<>>
  PROVE  /\ Head(chan[k]) \in TypedPackets /\ Head(chan[k]).id \in Ids
         /\ [chan EXCEPT ![k] = Tail(@)] \in [Chans -> Seq(TypedPackets)]
<1>1. chan \in [Chans -> Seq(TypedPackets)]
  BY DEF TypeInv
<1>2. Head(chan[k]) \in TypedPackets /\ Tail(chan[k]) \in Seq(TypedPackets)
  BY <1>1, HeadTailProperties
<1> QED
  BY <1>1, <1>2 DEF TypedPackets

LEMMA DeliverKeepsTypeInv ==
  ASSUME TypeInv, NEW k \in Chans, Deliver(k)
  PROVE  TypeInv'
<1> DEFINE p == Head(chan[k])
           ch == [chan EXCEPT ![k] = Tail(@)]
<1>1. p \in TypedPackets /\ p.id \in Ids /\ ch \in [Chans -> Seq(TypedPackets)]
      /\ hist' = hist /\ losses' = losses
  BY TakeHeadTyped DEF Deliver
<1>2. /\ filter \in [Receivers -> SUBSET Ids] /\ table \in [Switches -> Tables]
      /\ known \in [Controllers -> [Links -> 1..MaxVersion]] /\ existing \in [Controllers -> SUBSET Links]
      /\ flowDb \in [Controllers -> Tables] /\ losses \in 0..MaxLoss
  BY DEF TypeInv
<1> HIDE DEF p, ch
<1>3. CASE k[1] \in Up(hist) /\ k[2] \in Switches
  <2>1. SwitchReceive(k[2], k[1], p, ch)
    BY <1>3 DEF Deliver, p, ch
  <2>2. /\ chan' \in [Chans -> Seq(TypedPackets)] /\ filter' \in [Receivers -> SUBSET Ids]
        /\ table' \in [Switches -> Tables] /\ UNCHANGED <<known, existing, flowDb>>
    BY <1>1, <1>3, <2>1, SwitchReceiveTyped
  <2> QED
    BY <1>1, <1>2, <2>2, SameLinksKeepsTypeInv
<1>4. CASE k[1] \in Up(hist) /\ k[2] \notin Switches
  <2>1. ControllerReceive(k[2], p, ch) /\ k[2] \in Controllers
    BY <1>4 DEF Deliver, p, ch, Chans, Receivers
  <2>2. CASE ControllerProcess(k[2], p, ch)
    BY <1>1, <1>2, <2>1, <2>2, ControllerProcessTyped, SameLinksKeepsTypeInv
  <2>3. CASE ControllerIgnore(k[2], p, ch)
    <3>1. chan' = ch /\ Remember(k[2], {p.id}) /\ UNCHANGED <<table, known, existing, flowDb>>
      BY <2>3 DEF ControllerIgnore
    <3>2. filter' \in [Receivers -> SUBSET Ids]
      BY <1>1, <1>2, <3>1, RememberTyped
    <3> QED
      BY <1>1, <1>2, <3>1, <3>2, SameLinksKeepsTypeInv
  <2> QED
    BY <2>1, <2>2, <2>3 DEF ControllerReceive
<1>5. CASE k[1] \notin Up(hist)
  <2>1. chan' = ch /\ Remember(k[2], {}) /\ UNCHANGED <<table, known, existing, flowDb>>
    BY <1>5 DEF Deliver, ch
  <2>2. filter' \in [Receivers -> SUBSET Ids]
    BY <1>2, <2>1, RememberTyped
  <2> QED
    BY <1>1, <1>2, <2>1, <2>2, SameLinksKeepsTypeInv
<1> QED
  BY <1>3, <1>4, <1>5

LEMMA LoseKeepsTypeInv ==
  ASSUME TypeInv, NEW k \in Chans, Lose(k)
  PROVE  TypeInv'
<1>1. /\ filter \in [Receivers -> SUBSET Ids] /\ table \in [Switches -> Tables]
      /\ known \in [Controllers -> [Links -> 1..MaxVersion]] /\ existing \in [Controllers -> SUBSET Links]
      /\ flowDb \in [Controllers -> Tables] /\ losses \in 0..MaxLoss
  BY DEF TypeInv
<1>2. Head(chan[k]).id \in Ids /\ chan' \in [Chans -> Seq(TypedPackets)]
  BY TakeHeadTyped DEF Lose
<1>3. filter' \in [Receivers -> SUBSET Ids]
  <2>1. Remember(k[2], {}) \/ Remember(k[2], {Head(chan[k]).id})
    BY DEF Lose
  <2> QED
    BY <1>1, <1>2, <2>1, RememberTyped
<1>4. losses' \in 0..MaxLoss
  BY <1>1, ControlPlaneAssumption DEF Lose
<1> QED
  BY <1>1, <1>2, <1>3, <1>4, SameLinksKeepsTypeInv DEF Lose

LEMMA SwitchInfoRequestKeepsTypeInv ==
  ASSUME TypeInv, NEW c \in Controllers, SendSwitchInfoRequest(c)
  PROVE  TypeInv'
<1> DEFINE req == Packet(1, "SWITCH_INFORMATION_REQ", c, ALL, <<>>)
<1>1. req \in TypedPackets
  <2>1. c \in Receivers /\ 1 <= Cardinality(FreeIds)
    BY OneIdFree DEF SendSwitchInfoRequest, Receivers
  <2> QED
    BY <2>1, InfoRequestTyped
<1>2. chan \in [Chans -> Seq(TypedPackets)]
  BY DEF TypeInv
<1>3. <<req>> \in Seq(TypedPackets)
  <2> HIDE DEF req
  <2> QED
    BY <1>1, OneElement
<1>4. Flood(chan, Up(hist), c, <<req>>, NoLink) \in [Chans -> Seq(TypedPackets)]
  BY <1>2, <1>3, FloodType
<1> QED
  BY <1>4 DEF TypeInv, SendSwitchInfoRequest

LEMMA RoutingRequestKeepsTypeInv ==
  ASSUME TypeInv, NEW c \in Controllers, SendRoutingRequest(c)
  PROVE  TypeInv'
<1> DEFINE dests == SetToSeq(Switches)
           req(k) == Packet(k, "SWITCH_TABLE_REQ", c, dests[k], At(flowDb[c], dests[k]))
           requests == [k \in DOMAIN dests |-> req(k)]
<1>1. chan \in [Chans -> Seq(TypedPackets)] /\ flowDb[c] \in Tables
  BY DEF TypeInv
<1>2. /\ DOMAIN dests = 1..Len(dests) /\ Len(dests) \in Nat /\ Len(dests) <= Cardinality(Switches)
      /\ \A k \in DOMAIN dests : dests[k] \in Switches
  BY SwitchList
<1>3. ASSUME NEW k \in DOMAIN dests
      PROVE  req(k) \in TypedPackets
  <2>1. k \in Nat \ {0} /\ k <= Cardinality(FreeIds)
    BY <1>2, FreeIdsFinite, SwitchesFinite DEF SendRoutingRequest
  <2>2. dests[k] \in Receivers /\ c \in Receivers
    BY <1>2 DEF Receivers
  <2> QED
    BY <1>1, <2>1, <2>2, AtTyped, TablePacketTyped
<1>4. requests \in Seq(TypedPackets)
  <2> HIDE DEF dests, req
  <2>1. requests = [k \in 1..Len(dests) |-> req(k)]
    BY <1>2
  <2> QED
    BY <1>2, <1>3, <2>1, SeqDef
<1>5. Flood(chan, Up(hist), c, requests, NoLink) \in [Chans -> Seq(TypedPackets)]
  BY <1>1, <1>4, FloodType
<1> QED
  BY <1>5 DEF TypeInv, SendRoutingRequest

LEMMA NextKeepsTypeInv == TypeInv /\ [Next]_vars => TypeInv'
<1>1. SUFFICES ASSUME TypeInv, [Next]_vars PROVE TypeInv'
  OBVIOUS
<1>2. ASSUME NEW l \in Links, NEW s \in {"UP", "DOWN"}, SetLink(l, s)
      PROVE  TypeInv'
  BY <1>1, <1>2, SetLinkKeepsTypeInv DEF States
<1>3. ASSUME NEW k \in Chans, Deliver(k) PROVE TypeInv'
  BY <1>1, <1>3, DeliverKeepsTypeInv
<1>4. ASSUME NEW k \in Chans, Lose(k) PROVE TypeInv'
  BY <1>1, <1>4, LoseKeepsTypeInv
<1>5. ASSUME NEW c \in Controllers, SendSwitchInfoRequest(c) PROVE TypeInv'
  BY <1>1, <1>5, SwitchInfoRequestKeepsTypeInv
<1>6. ASSUME NEW c \in Controllers, SendRoutingRequest(c) PROVE TypeInv'
  BY <1>1, <1>6, RoutingRequestKeepsTypeInv
<1>7. CASE UNCHANGED vars
  BY <1>1, <1>7 DEF TypeInv, vars
<1> QED
  BY <1>1, <1>2, <1>3, <1>4, <1>5, <1>6, <1>7 DEF Next

LEMMA TypesFollow == TypeInv => TypeOK
<1>1. SUFFICES ASSUME TypeInv PROVE TypeOK
  OBVIOUS
<1>2. ASSUME NEW k \in Chans, NEW i \in DOMAIN chan[k]
      PROVE  LET p == chan[k][i]
             IN p.id \in Ids /\ p.src \in Receivers /\ p.dst \in Receivers \cup {ALL} /\ HasData(p)
  <2>1. chan[k] \in Seq(TypedPackets)
    BY <1>1 DEF TypeInv
  <2>2. chan[k][i] \in TypedPackets
    BY <1>2, <2>1, LenProperties, ElementOfSeq
  <2> QED
    BY <2>2 DEF TypedPackets
<1>3. (\A s \in Switches : IsTable(table[s])) /\ \A c \in Controllers : IsTable(flowDb[c])
  BY <1>1 DEF TypeInv, Tables
<1> QED
  BY <1>1, <1>2, <1>3 DEF TypeInv, TypeOK, States

\* In every network the state is of the right types: no switch or controller ever
\* has two rules for a signature, whatever updates are installed in whatever order,
\* and no packet carries what its receiver does not expect.
THEOREM TypeCorrect == Spec => []TypeOK
BY InitTypeInv, NextKeepsTypeInv, TypesFollow, PTL DEF Spec
=============================================================================
