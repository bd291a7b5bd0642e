---------------------------- MODULE AverageProofs ----------------------------
(***************************************************************************)
(* Facts about convert_to_mv for every raw 12-bit code.  The loop of       *)
(* get_average_mv is a recursive function over the buffer; what it         *)
(* computes for every NUM_OF_SAMPLES needs induction over its index and is *)
(* left to TLC (AverageWithinOneMv).  These are the per-sample facts that  *)
(* property rests on.                                                      *)
(***************************************************************************)
EXTENDS AverageComputer, TLAPS

(***************************************************************************)
(* convert_to_mv truncates: for every 12-bit code its result is a whole    *)
(* number of millivolts between 0 and 3300, at most the exact value        *)
(* raw * 3300 / 4095 and less than 1 mV below it.  So each sample of       *)
(* get_average_mv loses less than 1 mV, and the uint32_t products stay     *)
(* below 4095 * 3300.                                                      *)
(***************************************************************************)
THEOREM ConvertToMvTruncates ==
  \A raw \in 0 .. MaxRawCode :
    /\ ConvertToMv(raw) \in 0 .. FullScaleMv
    /\ ConvertToMv(raw) * MaxRawCode <= raw * FullScaleMv
    /\ raw * FullScaleMv < (ConvertToMv(raw) + 1) * MaxRawCode
  BY DEF ConvertToMv, MaxRawCode, FullScaleMv

(***************************************************************************)
(* convert_to_mv is monotone: a higher code never reads as fewer           *)
(* millivolts, so a rising supply is never reported as falling by one      *)
(* sample's conversion.                                                    *)
(***************************************************************************)
THEOREM ConvertToMvMonotone ==
  \A r1, r2 \in 0 .. MaxRawCode : r1 <= r2 => ConvertToMv(r1) <= ConvertToMv(r2)
  BY DEF ConvertToMv, MaxRawCode, FullScaleMv

(***************************************************************************)
(* The mid-scale code 2048 converts to 1650 mV, not the 1651 mV of the     *)
(* specification's end-to-end example (the average_midscale finding), and  *)
(* its neighbours bracket it.                                              *)
(***************************************************************************)
THEOREM MidScaleConverts1650 ==
  /\ ConvertToMv(2047) = 1649
  /\ ConvertToMv(2048) = 1650
  /\ ConvertToMv(2049) = 1651
  BY DEF ConvertToMv, MaxRawCode, FullScaleMv

====
