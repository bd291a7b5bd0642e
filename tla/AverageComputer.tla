-------------------------- MODULE AverageComputer --------------------------
(***************************************************************************)
(* convert_to_mv and le_voltage_monitor_get_average_mv: the reduction of   *)
(* samplingBuffer to millivolts, with truncating divisions and the         *)
(* uint16_t result.  The uint32_t products and accumulator cannot wrap for *)
(* 12-bit codes (at most 4095 * 3300 and NUM_OF_SAMPLES * 3300, both far   *)
(* below 2^32), so they are unbounded naturals here.  The buffer is        *)
(* the state; the LDMA channel may write any raw 12-bit code to any slot,  *)
(* so every buffer over RawValues is reached.                              *)
(***************************************************************************)
EXTENDS Naturals, Functions

CONSTANTS
  NumSamples,  \* NUM_OF_SAMPLES
  RawValues    \* raw codes the IADC may deliver (a subset of 0 .. 0xFFF)

ASSUME AverageAssumption ==
  /\ NumSamples \in Nat \ {0}
  /\ RawValues \subseteq 0 .. 4095
  /\ RawValues # {}

VARIABLE samplingBuffer

Slots == 1 .. NumSamples
U16 == 2^16
FullScaleMv == 3300   \* AVDD reference
MaxRawCode == 4095    \* 0xFFF, 12-bit conversion

\* Mutant of ConvertToMv: rounding up instead of truncating.
ConvertToMvRoundUp(raw) == ((raw * FullScaleMv + MaxRawCode - 1) \div MaxRawCode)

\* convert_to_mv: raw * 3300 / 0xFFF, truncated.
ConvertToMv(raw) == (raw * FullScaleMv) \div MaxRawCode

\* le_voltage_monitor_get_average_mv: the loop accumulates convert_to_mv of
\* each slot in order into the uint32_t avg; the result avg / NUM_OF_SAMPLES
\* is returned as uint16_t.
GetAverageMv(b) ==
  LET acc[k \in 0 .. NumSamples] ==
        IF k = 0 THEN 0 ELSE acc[k - 1] + ConvertToMv(b[k])
  IN  (acc[NumSamples] \div NumSamples) % U16

-----------------------------------------------------------------------------
\* The static buffer starts zeroed.
Init == samplingBuffer = [i \in Slots |-> 0]

\* One LDMA word transfer from SINGLEFIFODATA into a slot.
WriteSample ==
  \E i \in Slots, v \in RawValues :
    samplingBuffer' = [samplingBuffer EXCEPT ![i] = v]

Spec == Init /\ [][WriteSample]_samplingBuffer

-----------------------------------------------------------------------------
\* The exact mean voltage of the buffer, in millivolts, rounded down: the
\* reference the firmware approximates.
ExactMeanMv(b) ==
  (SumFunction(b) * FullScaleMv) \div (MaxRawCode * NumSamples)

(***************************************************************************)
(* Truncating each sample before averaging (spec 4.4) costs the reported   *)
(* average at most 1 mV against the exact mean, and never overstates it;   *)
(* the uint16_t return does not truncate the average.                      *)
(***************************************************************************)
AverageWithinOneMv ==
  LET avg == GetAverageMv(samplingBuffer)
      ref == ExactMeanMv(samplingBuffer)
  IN  avg <= ref /\ ref <= avg + 1

(***************************************************************************)
(* Spec 8, end-to-end scenario: a buffer of mid-scale codes 2048 reads as  *)
(* 2048 * 3300 / 4095 = 1651 mV.                                           *)
(***************************************************************************)
MidScaleReads1651 ==
  (\A i \in Slots : samplingBuffer[i] = 2048) => GetAverageMv(samplingBuffer) = 1651

=============================================================================
