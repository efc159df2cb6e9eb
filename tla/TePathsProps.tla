---------------------------- MODULE TePathsProps ----------------------------
(***************************************************************************)
(* What is expected of the paths with admission control.                   *)
(***************************************************************************)
EXTENDS TePaths

\* Type invariant.
TypeOK ==
  /\ running \in BOOLEAN /\ runs \in 0..MaxRuns
  /\ left \subseteq Sigs /\ cur \in Sigs \cup {NoSig} /\ mixed \subseteq Sigs
  /\ path \in Seq(Switches) /\ k \in Nat \ {0}
  /\ edges \subseteq Edges(Links) /\ load \in [Edges(Links) -> Nat]
  /\ \A rules \in {table, db, diffs, removed, old} : IsTable(rules)

\* The edge that a hop closes exists: "assert(eid != -1)" (te_controller.cc:90)
\* never fails, although the path may stem from an earlier pair of hosts and
\* edges were deleted in between.
PathOpen ==
  running => \A i \in DOMAIN path : i >= k /\ i < Len(path) => <<path[i], path[i + 1]>> \in edges

\* Admission control: no direction of a link is given to more than MaxLoad
\* signatures (te_controller.cc:86-93), whatever paths are computed again.
LimitKept ==
  \A e \in Edges(Links) :
    Cardinality({r \in table : r.sw = e[1] /\ r.link = LinkBetween(e[1], e[2])}) <= MaxLoad

\* "Compute paths, return a diff of what needs to be fixed." (te_controller.h:36):
\* the old tables with the differences put in and the deletions taken out are the
\* new tables, although _flowDb is overwritten while it is compared with.
Fixed == {q \in diffs \cup {p \in old : ~\E r \in diffs : SameKey(r, p)} :
            ~\E r \in removed : SameKey(r, q)}

DiffFixes == ~running => Fixed = db

\* Switch s hands signature sig to switch t.
Hands(sig, s, t) == \E r \in table : r.sw = s /\ r.sig = sig /\ Ends[r.link] = {s, t}

\* The hops of several paths never meet: a path that is computed again goes on at
\* the same distance from the source, so no switch gets a second rule for the
\* signature that replaces the first (te_controller.cc:96-108).
HopsNeverMeet ==
  [][\A r \in table : running' => \A q \in table' : SameKey(r, q) => r = q]_vars

\* The rules of a signature lead from the source's switch to the destination.
Arrives(sig) ==
  \E n \in 1..Cardinality(Switches) : \E p \in [1..n -> Switches] :
    /\ p[1] = SwitchOf(sig[1]) /\ p[n] = SwitchOf(sig[2])
    /\ \A i \in 1..n - 1 : Hands(sig, p[i], p[i + 1])
    /\ [sw |-> p[n], sig |-> sig, link |-> AccessLink(sig[2])] \in table

Admitted(sig) == \E r \in table : r.sig = sig

\* A signature with rules whose path stayed the same arrives.
UnmixedArrive == ~running => \A sig \in Sigs \ mixed : Admitted(sig) => Arrives(sig)

-----------------------------------------------------------------------------
\* "Compute paths" (te_controller.h:36): a signature with rules arrives.
PathsArrive == ~running => \A sig \in Sigs : Admitted(sig) => Arrives(sig)
=============================================================================
