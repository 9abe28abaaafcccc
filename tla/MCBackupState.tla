--------------------------- MODULE MCBackupState ---------------------------
(* Finite instances of BackupState for TLC.                                *)
EXTENDS BackupState, TLC

CONSTANTS k1, k2, kf    \* master keys; kf is the other installation's

(* What an older installation left under the same device name: nothing, or *)
(* one kit.                                                                *)
ForeignKit(g) == [keyfile |-> kf, snap |-> [gen |-> g, key |-> kf, serial |-> 0]]
NoForeign  == {}
OneForeign == {ForeignKit(1)}

(* Our own two keys are as interchangeable as the processes.               *)
Symmetry == Permutations(Procs) \cup Permutations({k1, k2})
=============================================================================
