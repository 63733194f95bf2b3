--------------------------- MODULE MCResearchLane ---------------------------
(* ResearchLane on small instances: jobs call one provider, assistant runs    *)
(* another.                                                                   *)
EXTENDS ResearchLane, TLC

CONSTANTS Data, Model   \* the two providers

MCWorker == 1 .. 2
MCWorkers3 == 1 .. 3
MCProvider == {Data, Model}
MCProviderOf == [i \in Item |-> IF i \in Job THEN Data ELSE Model]

Symmetric == Permutations(Job) \cup Permutations(Run)

=============================================================================
