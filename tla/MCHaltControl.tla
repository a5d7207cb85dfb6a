--------------------------- MODULE MCHaltControl ---------------------------
(* HaltControl for TLC: three levels of equity, each below one more of the limits. *)
EXTENDS HaltControl

CONSTANT n1

Levels == {100, 97, 88}
OldLevels == {97}
=============================================================================
