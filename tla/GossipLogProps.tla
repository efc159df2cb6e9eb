--------------------------- MODULE GossipLogProps ---------------------------
(***************************************************************************)
(* What is expected of the logs and of gossip.                             *)
(***************************************************************************)
EXTENDS GossipLog

\* Type invariant.
TypeOK ==
  /\ truth \in Seq(State) /\ Len(truth) \in 1..MaxVersion
  /\ heard \in [Controllers -> DOMAIN truth]
  /\ log \in [Controllers -> Seq(Entry)]
  /\ \A c \in Controllers : marked[c] \in 1..Length(c)
  /\ size \in [Controllers -> Nat]
  /\ max \in [Controllers -> DOMAIN truth]
  /\ \A m \in msgs : m.type \in {"GOSSIP", "GOSSIP_REP"} /\ {m.src, m.dst} \subseteq Controllers
  /\ running \in BOOLEAN
  /\ learnt \in [Controllers -> SUBSET DOMAIN truth]
  /\ losses \in 0..MaxLoss

\* A controller's log says of a version what the link was, and only of versions it
\* was told of, although entries are inserted and not just written
\* (controller.cc:492).
LogTruth ==
  \A c \in Controllers : \A v \in 1..Length(c) - 1 :
    KnownAt(c, v) => v \in learnt[c] /\ At(c, v).state = truth[v]

\* What a controller heard of the link itself stays in its log, whatever gossip
\* brings and however the vectors grow.
LastNewsKept ==
  \A c \in Controllers : KnownAt(c, heard[c]) /\ At(c, heard[c]).state = truth[heard[c]]

\* The mark never passes a version that is still missing: it would never be asked
\* for again (controller.cc:513).
MarkedKnown == \A c \in Controllers : \A v \in 1..marked[c] - 1 : KnownAt(c, v)

\* No access to a log is out of range as long as the link changes at most
\* INITIAL_SIZE times.
NoThrow == running

\* "Record what things we might be missing." (controller.h:36): a version below the
\* maximum that a controller was never told of is in the gaps it asks for.
MissingIsGap ==
  \A c \in Controllers : \A v \in 1..max[c] - 1 : v \notin learnt[c] => v \in Gaps(c)

\* Gossip spreads: once the link stops changing and no more messages are lost, all
\* logs know the same versions, those that some controller heard of.
LogsAgree ==
  <>[](\A c, d \in Controllers : \A v \in learnt[d] : KnownAt(c, v))
=============================================================================
