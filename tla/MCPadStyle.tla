----------------------------- MODULE MCPadStyle -----------------------------
(***************************************************************************)
(* PadStyle with two fonts, one of them the theme's, and three colours.    *)
(***************************************************************************)
EXTENDS PadStyle

=============================================================================
