----------------------------- MODULE Experiment -----------------------------
(***************************************************************************)
(* The converge experiment (main.cc:144-160) over the control plane: again *)
(* and again all events are dropped, all links set up and the routes       *)
(* installed behind the switches' back; then one link fails and the events *)
(* are executed until none is left.  Switches and controllers carry their  *)
(* tables and flow databases over from one repetition to the next.         *)
(*                                                                         *)
(* Context::reset also drops the timers that the controllers armed when    *)
(* they were made, so no repetition sends periodic requests: what a lost   *)
(* packet leaves undone is done by nobody, in this repetition or a later.  *)
(***************************************************************************)
EXTENDS Simulation

CONSTANT LastController    \* the last one in the iteration over _controllers

ASSUME ExperimentAssumption == LastController \in Controllers

VARIABLE phase    \* "start", then "prepared" and "run" in turn

experimentVars == <<simulationVars, phase>>

ExperimentInit == SimulationInit /\ phase = "start"

\* Bug: nothing is installed, as the tables were installed once already.
InstalledOnce(s, new) == table[s]

\* install_all_routes: each controller computes its paths, what the last one
\* finds different is installed, without the deletions.
Installed(s, new) == Install(table[s], At(Diff(flowDb[LastController], new), s), {})

\* Lines 146-149.
Prepare ==
  /\ phase # "prepared"
  /\ \A k \in Chans : chan[k] = <<>>
  /\ \A l \in Links : Version(l) < MaxVersion
  /\ phase' = "prepared"
  /\ AddAllGraphLinks
  /\ hist' = [l \in Links |-> Append(hist[l], "UP")]
  /\ known' = [c \in Controllers |-> [l \in Links |-> Version(l) + 1]]
  /\ existing' = [c \in Controllers |-> Links]
  /\ \E new \in {NewTable(Links)} :
       /\ flowDb' = [c \in Controllers |-> new]
       /\ table' = [s \in Switches |-> Installed(s, new)]
  /\ UNCHANGED <<chan, filter, losses>>

\* Lines 155-156: a random link fails.
Fail(l) ==
  /\ phase = "prepared" /\ phase' = "run"
  /\ SetLinkDown(l)

\* Line 157: Simulation::run.  As in a trace a packet may be lost: a full queue
\* refuses it, or a link or a controller drops it.
Run(k) ==
  /\ phase = "run" /\ phase' = phase
  /\ Lose(k) \/ Deliver(k)
  /\ UNCHANGED graph

ExperimentNext ==
  \/ Prepare
  \/ \E l \in Links : Fail(l)
  \/ \E k \in Chans : Run(k)

ExperimentSpec == ExperimentInit /\ [][ExperimentNext]_experimentVars

\* Events are executed until none is left.
ExperimentFairSpec ==
  ExperimentSpec /\ WF_experimentVars(\E k \in Chans : Run(k))
=============================================================================
