------------------------------ MODULE LinkView ------------------------------
(***************************************************************************)
(* What the control plane promises about a controller's view of the links: *)
(* the links change, and a controller learns of the changes late, perhaps  *)
(* not of all of them, but it never believes a state the link did not have *)
(* and never goes back to an older one.                                    *)
(***************************************************************************)
EXTENDS Naturals, Sequences

CONSTANTS Links, Controllers,
          MaxVersion    \* bound: a link's version grows up to MaxVersion

VARIABLES hist,   \* hist[l]: the states link l has had; its version is the length
          seen,   \* seen[c][l]: the version controller c has learnt
          up      \* up[c]: the links controller c believes to be up

vars == <<hist, seen, up>>

Init ==
  /\ hist = [l \in Links |-> <<"UP">>]
  /\ seen = [c \in Controllers |-> [l \in Links |-> 1]]
  /\ up = [c \in Controllers |-> Links]

Change(l, s) ==
  /\ hist' = [hist EXCEPT ![l] = Append(@, s)]
  /\ UNCHANGED <<seen, up>>

Learn(c, v) ==
  /\ \A l \in Links : v[l] \in seen[c][l]..Len(hist[l])
  /\ seen' = [seen EXCEPT ![c] = v]
  /\ up' = [up EXCEPT ![c] = {l \in Links : hist[l][v[l]] = "UP"}]
  /\ UNCHANGED hist

Next ==
  \/ \E l \in Links, s \in {"UP", "DOWN"} : Change(l, s)
  \/ \E c \in Controllers, v \in [Links -> 1..MaxVersion] : Learn(c, v)

Spec == Init /\ [][Next]_vars
=============================================================================
