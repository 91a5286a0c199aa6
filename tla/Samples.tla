------------------------------- MODULE Samples -------------------------------
(***************************************************************************)
(* The samples the program computes or takes from a file, and what the AM  *)
(* modulator (DDS_Modulator.v) makes of them in signed words.  The state   *)
(* is the input of one such computation.                                   *)
(***************************************************************************)
EXTENDS Integers

CONSTANTS
  F,               \* the FPGA's _FIXED_POINT_CONSTANT, 1 << 15
  FileSamples      \* 16-bit samples of a stereo file

ASSUME SamplesAssumption ==
  /\ F \in Nat \ {0}
  /\ \A s \in FileSamples : s \in Int /\ -32768 <= s /\ s <= 32767

VARIABLES
  shape, t,                      \* UpdateRam: waveform, sample being computed
  sample,                        \* ramUpdate: sample of the file
  index, modulation, carrier     \* DDS_AM_Modulator's inputs

sampleVars == <<shape, t, sample, index, modulation, carrier>>

-----------------------------------------------------------------------------
(* The look-up tables (ramLookupTables.c) *)

FixedPoint      == 32767     \* the program's _FIXED_POINT_CONSTANT
LookupRamSize   == 1024
OneHalfWave     == LookupRamSize \div 2
OneQuarterWave  == LookupRamSize \div 4
OneThirdWave    == OneHalfWave + OneQuarterWave

\* mutant: the sign is not looked at
ClampSampleUp(s) == IF s + 1280 >= FixedPoint THEN FixedPoint - 1 ELSE s + 1280

\* Away from zero by 1280, and within the range
ClampSample(s) ==
  LET away == IF s > 0 THEN s + 1280 ELSE s - 1280
  IN  CASE away >= FixedPoint  -> FixedPoint - 1
        [] away <= -FixedPoint -> 1 - FixedPoint
        [] OTHER               -> away

SquareWaveSample(i) == IF i < OneHalfWave THEN FixedPoint ELSE -FixedPoint

TriangleWaveSample(i) ==
  LET slope == FixedPoint \div OneQuarterWave
      fall  == (2 * FixedPoint) \div OneHalfWave
  IN  ClampSample(
        CASE i < OneQuarterWave -> i * slope
          [] i \in OneQuarterWave .. OneThirdWave - 1 ->
               FixedPoint - (i - OneQuarterWave) * fall
          [] i >= OneThirdWave  -> (i - OneThirdWave) * slope - FixedPoint)

SawtoothWaveSample(i) == ClampSample(i * (FixedPoint \div OneHalfWave) - FixedPoint)

ComputeSample(i) ==
  CASE shape = "square"   -> SquareWaveSample(i)
    [] shape = "triangle" -> TriangleWaveSample(i)
    [] shape = "sawtooth" -> SawtoothWaveSample(i)
    [] shape = "arb"      -> 0

-----------------------------------------------------------------------------
(* Samples of a file (wavPlayer.c) *)

\* Stored in an int16_t
Int16(n) == ((n + 32768) % 65536) - 32768

StereoSampleUp(s) == Int16(s + 1200)     \* mutant: the sign is not looked at

StereoSample(s) == Int16(IF s > 0 THEN s + 1200 ELSE s - 1200)

-----------------------------------------------------------------------------
(* DDS_AM_Modulator *)

\* Division as in Verilog, towards zero, and a signed register as wide as F
Quotient(a, b) == IF a >= 0 THEN a \div b ELSE -((-a) \div b)
Signed(n)      == ((n + F) % (2 * F)) - F

ModIndexReversed(i) == Signed(i - F)     \* mutant: the operands are swapped

ModIndexOpposite(i)   == Signed(F - i)
ScaledModulation(i, m) == Signed(Quotient(i * m, F))
AMOut(i, m, c) ==
  Signed(Quotient((ModIndexOpposite(i) + ScaledModulation(i, m)) * c, F))

-----------------------------------------------------------------------------
SampleInit ==
  /\ shape = "square" /\ t = 0 /\ sample = 0
  /\ index = 0 /\ modulation = 0 /\ carrier = 0

\* Bound: only one of the computations is under way at a time.
TableAtRest  == shape = "square" /\ t = 0
InputsAtRest == index = 0 /\ modulation = 0 /\ carrier = 0

\* UpdateRam: the next sample of the table, or another table
NextSample ==
  /\ sample = 0 /\ InputsAtRest
  /\ IF t < LookupRamSize - 1
     THEN t' = t + 1 /\ UNCHANGED shape
     ELSE t' = 0 /\ shape' \in {"square", "triangle", "sawtooth", "arb"}
  /\ UNCHANGED <<sample, index, modulation, carrier>>

\* The samples of a file
ReadSample ==
  /\ TableAtRest /\ InputsAtRest
  /\ sample' \in FileSamples \cup {0}
  /\ UNCHANGED <<shape, t, index, modulation, carrier>>

\* The FPGA's inputs; ComputeModIndex gives at most F - 1.
ChangeInput ==
  /\ TableAtRest /\ sample = 0
  /\ \/ index' \in 0 .. F - 1 /\ UNCHANGED <<modulation, carrier>>
     \/ modulation' \in -F .. F - 1 /\ UNCHANGED <<index, carrier>>
     \/ carrier' \in -F .. F - 1 /\ UNCHANGED <<index, modulation>>
  /\ UNCHANGED <<shape, t, sample>>

SampleNext == NextSample \/ ReadSample \/ ChangeInput

SampleSpec == SampleInit /\ [][SampleNext]_sampleVars

-----------------------------------------------------------------------------
(* Properties *)

\* The variables have their types.
SampleTypeOK ==
  /\ shape \in {"square", "triangle", "sawtooth", "arb"}
  /\ t \in 0 .. LookupRamSize - 1
  /\ sample \in FileSamples \cup {0}
  /\ index \in 0 .. F - 1 /\ modulation \in -F .. F - 1 /\ carrier \in -F .. F - 1

\* A table never holds -32768, nor a sample in the gap ClampSample leaves
\* around zero, and nowhere steps by more than its slope and that gap, but
\* where its waveform jumps.
TablesWellFormed ==
  LET now  == ComputeSample(t)
      step == ComputeSample((t + 1) % LookupRamSize) - now
  IN  /\ -FixedPoint <= now /\ now <= FixedPoint
      /\ shape \in {"triangle", "sawtooth"} => now <= -1280 \/ now > 1280
      /\ shape = "triangle" => -2687 <= step /\ step <= 2687
      /\ shape = "sawtooth" /\ t < LookupRamSize - 1 => 0 <= step /\ step <= 2687
      /\ shape = "square"   => (step # 0 <=> t \in {OneHalfWave - 1, LookupRamSize - 1})
      /\ shape = "arb"      => step = 0

\* A sample of a stereo file changes its sign only when it is louder than what
\* 16 bits hold besides the 1200 added to it (wavPlayer.c:210-213).
BoostKeepsSign ==
  LET boosted == StereoSample(sample)
  IN  (sample > 0 /\ boosted < 0) \/ (sample < 0 /\ boosted > 0)
        <=> sample > 32767 - 1200 \/ sample < 1200 - 32768

Distance(a, b) == IF a > b THEN a - b ELSE b - a

\* The output of the AM modulator follows the formula above it
\* (DDS_Modulator.v:63), [1 - I + I * M] * C, to two steps of the quotients -
\* except for index 0, where 1 - I does not fit its register: a channel
\* without AM puts out its carrier inverted.
AmFollowsFormula ==
  LET exact == ((F - index) * F + index * modulation) * carrier
      got   == AMOut(index, modulation, carrier) * F * F
  IN  IF index = 0 THEN AMOut(index, modulation, carrier) = Signed(-carrier)
                   ELSE Distance(got, exact) < 2 * F * F
=============================================================================
