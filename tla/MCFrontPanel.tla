---------------------------- MODULE MCFrontPanel ----------------------------
(* Small instances of FrontPanel: the cfg files choose the channels, the     *)
(* pages that are entered and when inputs arrive.                            *)
EXTENDS FrontPanel

\* The knob is turned either way: a step down is more than a step not taken.
BothWays == {-1, 0, 1}
=============================================================================
