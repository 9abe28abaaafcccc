---------------------------- MODULE MCPadToolbar ----------------------------
(* A finite instance of PadToolbar for TLC.                                *)
EXTENDS PadToolbar, TLC

OldDefault == <<"New", "Separator">>

PadSymmetry == Permutations(Pads)
=============================================================================
