------------------------------ MODULE KitStore ------------------------------
(***************************************************************************)
(* What the off-box side of the backup helper promises, whatever transport *)
(* carries it: a set of complete recovery kits that only ever grows, one   *)
(* kit at a time, and in which a kit never changes once it is visible      *)
(* (cloud-helper/remote.go, header comment).                               *)
(***************************************************************************)

CONSTANT Kit            \* every recovery kit that can be published

VARIABLE kits           \* the complete kits a reader of the remote can see

Init == kits \subseteq Kit

Publish(k) ==
    /\ k \in Kit
    /\ kits' = kits \cup {k}

Next == \E k \in kits' : Publish(k)

Spec == Init /\ [][Next]_kits

=============================================================================
