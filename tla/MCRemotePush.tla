--------------------------- MODULE MCRemotePush ---------------------------
(* A finite instance of RemotePush: one installation pushes two kits, the  *)
(* second through rclone, and another, with its own keyfile, a kit under   *)
(* the id of the second.                                                   *)
EXTENDS RemotePush

CONSTANTS a1, a2, b2    \* pushes

MCIdOf == [p \in Pushes |-> IF p = a1 THEN 1 ELSE 2]
MCGen == [i \in Ids |-> i]
MCOwner == [p \in Pushes |-> IF p = b2 THEN "b" ELSE "a"]
MCIsPath == [p \in Pushes |-> p # a2]
OwnKeys == [o \in {"a", "b"} |-> o]
=============================================================================
