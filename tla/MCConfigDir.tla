---------------------------- MODULE MCConfigDir ----------------------------
(* A small home directory for TLC: one note, two XNote processes.          *)
EXTENDS ConfigDir, TLC

CONSTANTS n1, x1, x2

ProcessSymmetry == Permutations({x1, x2})

\* The histories only grow, and a state with both promises nothing, nor does
\* any state after it.
StillPromised == ~(met /\ raced)
=============================================================================
