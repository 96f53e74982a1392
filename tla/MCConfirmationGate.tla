------------------------ MODULE MCConfirmationGate ------------------------
\* Instances of ConfirmationGate for TLC.
EXTENDS ConfirmationGate, TLC

CONSTANTS hermes, codex, none, fix, d1, d2, d3

\* The agents have the same cap, and dispatches are told apart by what they are.
Symmetry == Permutations(Agents) \cup Permutations(Work)
=============================================================================
