-------------------------- MODULE ExperimentProps ---------------------------
(***************************************************************************)
(* What is expected of the repetitions of the converge experiment.         *)
(***************************************************************************)
EXTENDS Experiment, SimulationProps

\* Type invariant.
ExperimentTypeOK == TypeOK /\ phase \in {"start", "prepared", "run"}

\* As long as no packet was lost in an earlier repetition, every repetition starts
\* with working routes (the check "PreRun" of main.cc:151-153): although only the last
\* controller's differences from its own flow database are installed, without the
\* deletions (simulation.cc:272-285), each switch has all the rules of the whole
\* network; rules of earlier repetitions can only be left where it needs none.
FreshStart ==
  losses = 0 /\ phase = "prepared" =>
    /\ \A s \in Switches : IsTable(table[s]) /\ At(NewTable(Links), s) \subseteq table[s]
    /\ RoutesWork

\* simulation.run() comes to an end, with or without loss: flooding in a network
\* with cycles ends, and with it all the updates of several controllers.
RepetitionEnds == (phase = "run") ~> Quiet

\* When it has ended, and no packet was lost so far, the tables route around the
\* failed link, whichever controllers heard of it and in whatever order their
\* updates came.
RepetitionConverges == phase = "run" => QuietRoutesWork
=============================================================================
