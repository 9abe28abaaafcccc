------------------------------ MODULE MCDesktop ------------------------------
(* Desktop on small instances; the bounds are in the .cfg files.            *)
EXTENDS Desktop
=============================================================================
