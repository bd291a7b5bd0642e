------------------------- MODULE MCAverageComputer -------------------------
(***************************************************************************)
(* Three slots and the codes at both ends of the range and around mid-     *)
(* scale: the truncation of convert_to_mv is largest just below a multiple *)
(* of 4095/3300, and 1, 2047, 2048 and 4095 exercise the zero, the lowest  *)
(* non-zero, the spec's mid-scale and the full-scale cases.  Every buffer   *)
(* over these codes is reachable (6^3 = 216 states).                       *)
(***************************************************************************)
EXTENDS AverageComputer

MCNumSamples == 3
MCRawValues == {0, 1, 2047, 2048, 4094, 4095}

=============================================================================
