----------------------------- MODULE Broadcast ------------------------------
(***************************************************************************)
(* What the coordinator promises to its controllers: every message it      *)
(* accepts is handed to each of them once, and all of them get the         *)
(* messages in the same order, except that messages accepted at the same   *)
(* instant may come in any order.                                          *)
(***************************************************************************)
EXTENDS Naturals, Sequences

CONSTANTS Receivers, Messages

VARIABLES log,  \* the messages accepted, a set for each instant
          out   \* out[c]: the messages handed to receiver c

Logged == UNION {log[i] : i \in DOMAIN log}

Init ==
  /\ log = <<>>
  /\ out = [c \in Receivers |-> {}]

\* A message at a new instant, or at the last one while nobody has heard of it.
Accept(m) ==
  /\ m \notin Logged
  /\ \/ log' = Append(log, {m})
     \/ /\ log # <<>>
        /\ \A c \in Receivers : out[c] \cap log[Len(log)] = {}
        /\ log' = [log EXCEPT ![Len(log)] = @ \cup {m}]
  /\ out' = out

Hand(c, m) ==
  /\ m \notin out[c]
  /\ \E i \in DOMAIN log : m \in log[i] /\ \A j \in 1..i - 1 : log[j] \subseteq out[c]
  /\ out' = [out EXCEPT ![c] = @ \cup {m}]
  /\ log' = log

Next ==
  \/ \E m \in Messages : Accept(m)
  \/ \E c \in Receivers, m \in Messages : Hand(c, m)

Spec == Init /\ [][Next]_<<log, out>>
=============================================================================
