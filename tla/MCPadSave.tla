---- MODULE MCPadSave ----
EXTENDS PadSave, TLC

\* Pads and content files are interchangeable: the invariants and the
\* properties of the runs that use these sets name no particular one.
NameSymmetry == Permutations(Names)
PadSymmetry == Permutations(Pads) \cup NameSymmetry
====
