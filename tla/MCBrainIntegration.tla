------------------------ MODULE MCBrainIntegration ------------------------
(* The values of BrainIntegration's constants.                             *)
EXTENDS BrainIntegration, TLC

\* No card, a small one, two that are enough together, Intel only.
MCHosts == { [nvidia |-> <<>>, intel |-> FALSE], [nvidia |-> <<1>>, intel |-> FALSE],
             [nvidia |-> <<1, 1>>, intel |-> TRUE], [nvidia |-> <<>>, intel |-> TRUE] }

Symmetric == Permutations(Requests) \cup Permutations(Keys)
=============================================================================
