------------------------------ MODULE MCHardware ------------------------------
(* Hardware for TLC: the two boards with an antenna switch -- an R820T runs  *)
(* the same sequences without it -- and settings on both sides of every      *)
(* limit that selects a path.                                                *)
EXTENDS Hardware

MCBoards == {[r828d |-> TRUE, v4 |-> FALSE], [r828d |-> TRUE, v4 |-> TRUE]}

MCReplies == {[codes |-> <<7>>, retry |-> FALSE], [codes |-> <<0, 15>>, retry |-> TRUE]}

Settings(hz, sampling, gain, bias) ==
  [hz |-> hz, sampling |-> sampling, gain |-> gain, bias |-> bias, ppm |-> 1, rate |-> 2048000]

MCConfigs == {Settings(7100000, "Off", 0, FALSE),     \* upconverted on a V4
              Settings(7100000, "Q", 0, FALSE),       \* sampled directly elsewhere
              Settings(100000000, "Off", 5, TRUE),    \* second input, a notch band of the V4
              Settings(433920000, "Off", 0, FALSE)}   \* first input
=============================================================================
