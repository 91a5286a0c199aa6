--------------------------- MODULE SignalProofs -----------------------------
(***************************************************************************)
(* The DDS core and the samples it is given: channels set alike run in     *)
(* phase after a reset, for every width of the phase and length of the     *)
(* reset pulse; the tables, the stereo samples and the AM formula keep     *)
(* their bounds for words of every width.                                  *)
(***************************************************************************)
EXTENDS DdsCore, Samples, TLAPS

-----------------------------------------------------------------------------
(* The samples *)

\* The words of the modulator have a size.
LEMMA FPositive == F \in Nat /\ F > 0
<1>1. F \in Nat \ {0}
  BY SamplesAssumption
<1> QED BY <1>1

\* The sizes of a table, in numbers
LEMMA Sizes ==
  /\ FixedPoint = 32767 /\ LookupRamSize = 1024 /\ OneHalfWave = 512
  /\ OneQuarterWave = 256 /\ OneThirdWave = 768
  BY DEF FixedPoint, OneQuarterWave, OneHalfWave, LookupRamSize, OneThirdWave

LEMMA SampleTypeStep == SampleTypeOK /\ [SampleNext]_sampleVars => SampleTypeOK'
<1> SUFFICES ASSUME SampleTypeOK, [SampleNext]_sampleVars PROVE SampleTypeOK'
  OBVIOUS
<1>1. CASE NextSample
  BY <1>1, Sizes DEF NextSample, SampleTypeOK
<1>2. CASE ReadSample
  BY <1>2 DEF ReadSample, SampleTypeOK
<1>3. CASE ChangeInput
  BY <1>3 DEF ChangeInput, SampleTypeOK
<1>4. CASE UNCHANGED sampleVars
  BY <1>4 DEF sampleVars, SampleTypeOK
<1> QED BY <1>1, <1>2, <1>3, <1>4 DEF SampleNext

\* The inputs of the three computations keep their types, for every width of the
\* modulator's words and whatever the file holds.
THEOREM SampleTypeCorrect == SampleSpec => []SampleTypeOK
<1>1. SampleInit => SampleTypeOK
  BY FPositive, Sizes DEF SampleInit, SampleTypeOK
<1> QED BY <1>1, SampleTypeStep, PTL DEF SampleSpec

\* ClampSample in numbers
ClampedTo(a) == IF a > 0 THEN (IF a >= 31487 THEN 32766 ELSE a + 1280)
              ELSE (IF a <= -31487 THEN -32766 ELSE a - 1280)

LEMMA ClampIs == \A a \in Int : ClampSample(a) = ClampedTo(a)
<1> SUFFICES ASSUME NEW a \in Int PROVE ClampSample(a) = ClampedTo(a)
  OBVIOUS
<1>1. CASE a > 0
  BY <1>1, Sizes DEF ClampSample, ClampedTo
<1>2. CASE ~(a > 0)
  BY <1>2, Sizes DEF ClampSample, ClampedTo
<1> QED BY <1>1, <1>2

LEMMA ClampRange ==
  \A a \in Int : /\ ClampSample(a) \in Int
                 /\ -32766 <= ClampSample(a) /\ ClampSample(a) <= 32766
                 /\ ClampSample(a) <= -1280 \/ ClampSample(a) > 1280
  BY ClampIs DEF ClampedTo

\* Clamping keeps the order, and widens a step by the gap at most.
LEMMA ClampSteps ==
  ASSUME NEW a \in Int, NEW b \in Int, a <= b
  PROVE  /\ 0 <= ClampSample(b) - ClampSample(a)
         /\ b - a <= 127 => ClampSample(b) - ClampSample(a) <= 2687
  BY ClampIs DEF ClampedTo

\* The triangle before it is clamped
Rise(i) == IF i < 256 THEN i * 127
           ELSE IF i < 768 THEN 32767 - (i - 256) * 127 ELSE (i - 768) * 127 - 32767

\* The slopes of a triangle, up and down, and of a sawtooth
LEMMA Slopes ==
  /\ FixedPoint \div OneQuarterWave = 127 /\ (2 * FixedPoint) \div OneHalfWave = 127
  /\ FixedPoint \div OneHalfWave = 63
  BY Sizes

LEMMA TriangleIs ==
  ASSUME NEW i \in Int, 0 <= i, i < 1024
  PROVE  TriangleWaveSample(i) = ClampedTo(Rise(i))
<1>1. i - OneThirdWave \in Int /\ Rise(i) \in Int
  BY Sizes DEF Rise
<1>2. TriangleWaveSample(i) = ClampSample(Rise(i))
  BY Sizes, Slopes DEF TriangleWaveSample, Rise
<1> QED BY <1>1, <1>2, ClampIs

\* No step of a triangle is steeper than its slope and the gap, at its corners
\* neither ...
LEMMA TriangleSteps ==
  ASSUME NEW i \in Int, 0 <= i, i < 1023
  PROVE  /\ -2687 <= ClampedTo(Rise(i + 1)) - ClampedTo(Rise(i))
         /\ ClampedTo(Rise(i + 1)) - ClampedTo(Rise(i)) <= 2687
  BY DEF Rise, ClampedTo

\* ... and neither is the one from its last sample to its first.
LEMMA TriangleWraps == ClampedTo(Rise(0)) = -1280 /\ ClampedTo(Rise(1023)) = -1662
  BY DEF Rise, ClampedTo

LEMMA SawtoothIs ==
  ASSUME NEW i \in Int, 0 <= i, i < 1024
  PROVE  SawtoothWaveSample(i) = ClampedTo(i * 63 - 32767)
<1>1. SawtoothWaveSample(i) = ClampSample(i * 63 - 32767)
  BY Sizes, Slopes DEF SawtoothWaveSample
<1> QED BY <1>1, ClampIs

\* One case for each waveform: what a sample is, and what the next one is
LEMMA TablesAre == SampleTypeOK => TablesWellFormed
<1> SUFFICES ASSUME SampleTypeOK PROVE TablesWellFormed
  OBVIOUS
<1>0. t \in Int /\ 0 <= t /\ t < 1024
  BY Sizes DEF SampleTypeOK
<1> DEFINE n == (t + 1) % LookupRamSize
           now == ComputeSample(t)
           step == ComputeSample(n) - now
<1>1. n \in Int /\ (t < 1023 => n = t + 1) /\ (t = 1023 => n = 0) /\ 0 <= n /\ n < 1024
  BY <1>0, Sizes
<1>2. SUFFICES
        /\ -FixedPoint <= now /\ now <= FixedPoint
        /\ shape \in {"triangle", "sawtooth"} => now <= -1280 \/ now > 1280
        /\ shape = "triangle" => -2687 <= step /\ step <= 2687
        /\ shape = "sawtooth" /\ t < LookupRamSize - 1 => 0 <= step /\ step <= 2687
        /\ shape = "square"   => (step # 0 <=> t \in {OneHalfWave - 1, LookupRamSize - 1})
        /\ shape = "arb"      => step = 0
  BY Zenon DEF TablesWellFormed
<1> HIDE DEF n, now, step
<1>7. SUFFICES
        /\ -32767 <= now /\ now <= 32767
        /\ shape \in {"triangle", "sawtooth"} => now <= -1280 \/ now > 1280
        /\ shape = "triangle" => -2687 <= step /\ step <= 2687
        /\ shape = "sawtooth" /\ t < 1023 => 0 <= step /\ step <= 2687
        /\ shape = "square"   => (step # 0 <=> t \in {511, 1023})
        /\ shape = "arb"      => step = 0
  BY Sizes
<1> USE DEF now, step
<1>3. CASE shape = "square"
  <2>1. /\ now = IF t < 512 THEN 32767 ELSE -32767
        /\ ComputeSample(n) = IF n < 512 THEN 32767 ELSE -32767
    BY <1>0, <1>1, <1>3, Sizes DEF ComputeSample, SquareWaveSample
  <2> HIDE DEF now, step
  <2>2. step # 0 <=> t \in {511, 1023}
    BY <2>1, <1>0, <1>1 DEF step
  <2> QED BY <2>1, <2>2, <1>3
<1>4. CASE shape = "triangle"
  <2>1. now = ClampedTo(Rise(t)) /\ ComputeSample(n) = ClampedTo(Rise(n))
    BY <1>0, <1>1, <1>4, TriangleIs DEF ComputeSample
  <2>2. Rise(t) \in Int
    BY <1>0 DEF Rise
  <2>3. -32767 <= now /\ now <= 32767 /\ (now <= -1280 \/ now > 1280)
    BY <2>1, <2>2 DEF ClampedTo
  <2>4. CASE t < 1023
    BY <2>1, <2>3, <2>4, <1>0, <1>1, <1>4, TriangleSteps
  <2>5. CASE t = 1023
    BY <2>1, <2>3, <2>5, <1>1, <1>4, TriangleWraps
  <2> QED BY <2>4, <2>5, <1>0
<1>5. CASE shape = "sawtooth"
  <2>1. now = ClampedTo(t * 63 - 32767) /\ ComputeSample(n) = ClampedTo(n * 63 - 32767)
    BY <1>0, <1>1, <1>5, SawtoothIs DEF ComputeSample
  <2>2. -32767 <= now /\ now <= 32767 /\ (now <= -1280 \/ now > 1280)
    BY <2>1, <1>0 DEF ClampedTo
  <2>3. t < 1023 => 0 <= step /\ step <= 2687
    BY <2>1, <1>0, <1>1 DEF ClampedTo
  <2> QED BY <2>2, <2>3, <1>5
<1>6. CASE shape = "arb"
  <2>1. now = 0 /\ ComputeSample(n) = 0
    BY <1>6, Zenon DEF ComputeSample
  <2> QED BY <2>1, <1>6
<1> QED BY <1>3, <1>4, <1>5, <1>6 DEF SampleTypeOK

\* UpdateRam's tables: within the range, out of the gap around zero, and without a
\* step steeper than their slope, for every one of the 1024 samples.
THEOREM TablesAreWellFormed == SampleSpec => []TablesWellFormed
  BY SampleTypeCorrect, TablesAre, PTL

LEMMA BoostIs == SampleTypeOK => BoostKeepsSign
<1> SUFFICES ASSUME SampleTypeOK PROVE BoostKeepsSign
  OBVIOUS
<1>1. sample \in Int /\ -32768 <= sample /\ sample <= 32767
  BY SamplesAssumption DEF SampleTypeOK
<1>2. CASE sample > 0
  BY <1>1, <1>2 DEF BoostKeepsSign, StereoSample, Int16
<1>3. CASE ~(sample > 0)
  BY <1>1, <1>3 DEF BoostKeepsSign, StereoSample, Int16
<1> QED BY <1>1, <1>2, <1>3

\* For every sample of 16 bits: the 1200 ramUpdate adds to a stereo sample turn its
\* sign exactly when it is too loud for them.
THEOREM BoostIsBounded == SampleSpec => []BoostKeepsSign
  BY SampleTypeCorrect, BoostIs, PTL

-----------------------------------------------------------------------------
\* A quotient is off by less than a step.
LEMMA QuotientOff ==
  ASSUME NEW a \in Int
  PROVE  /\ Quotient(a, F) \in Int
         /\ a - Quotient(a, F) * F < F /\ Quotient(a, F) * F - a < F
<1>1. CASE a >= 0
  <2> DEFINE q == a \div F
  <2>1. q \in Int /\ a - q * F \in Int /\ 0 <= a - q * F /\ a - q * F < F
    BY <1>1, FPositive
  <2>2. Quotient(a, F) = q
    BY <1>1 DEF Quotient
  <2> HIDE DEF q
  <2> QED BY <2>1, <2>2, FPositive
<1>2. CASE ~(a >= 0)
  <2> DEFINE q == (-a) \div F
  <2>1. q \in Int /\ -a - q * F \in Int /\ 0 <= -a - q * F /\ -a - q * F < F
    BY <1>2, FPositive
  <2>2. Quotient(a, F) = -q
    BY <1>2 DEF Quotient
  <2> HIDE DEF q
  <2>3. (-q) * F = -(q * F)
    BY <2>1, FPositive
  <2> QED BY <2>1, <2>2, <2>3, FPositive
<1> QED BY <1>1, <1>2

\* A number that fits the register is stored as it is.
LEMMA SignedFits ==
  ASSUME NEW n \in Int, -F <= n, n < F
  PROVE  Signed(n) = n
<1>1. n + F \in Int /\ 0 <= n + F /\ n + F < 2 * F /\ 2 * F \in Nat
  BY FPositive
<1>2. (n + F) % (2 * F) = n + F
  BY <1>1
<1> QED BY <1>2, FPositive DEF Signed

\* The product of two words, a smaller and one at most F
LEMMA ProductBelow ==
  ASSUME NEW a \in Int, NEW c \in Int, -F < a, a < F, -F <= c, c <= F
  PROVE  a * c \in Int /\ a * c < F * F /\ -(F * F) < a * c
<1>1. \A x, y \in Nat : x < F /\ y <= F => x * y < F * F
  <2> SUFFICES ASSUME NEW x \in Nat, NEW y \in Nat, x < F, y <= F
               PROVE  x * y < F * F
    OBVIOUS
  <2>1. x * y <= x * F
    BY FPositive
  <2>2. x * F < F * F
    BY FPositive
  <2>3. x * y \in Int /\ x * F \in Int /\ F * F \in Int
    BY FPositive
  <2> QED BY <2>1, <2>2, <2>3
<1> DEFINE x == IF a >= 0 THEN a ELSE -a
           y == IF c >= 0 THEN c ELSE -c
<1>2. x \in Nat /\ y \in Nat /\ x < F /\ y <= F
  BY FPositive
<1>3. x * y < F * F
  BY <1>1, <1>2
<1>4. a * c = x * y \/ a * c = -(x * y)
  OBVIOUS
<1>5. x * y \in Nat /\ F * F \in Nat
  BY <1>2, FPositive
<1> HIDE DEF x, y
<1> QED BY <1>3, <1>4, <1>5

\* A quotient is nowhere farther from zero than the number of whole steps.
LEMMA QuotientAtMost ==
  ASSUME NEW a \in Int, NEW n \in Nat
  PROVE  /\ a < n * F /\ n > 0 => Quotient(a, F) < n
         /\ -(n * F) <= a => -n <= Quotient(a, F)
         /\ -(n * F) < a /\ n > 0 => -n < Quotient(a, F)
<1>1. \A b \in Nat : /\ b \div F \in Nat
                     /\ b < n * F => b \div F < n
                     /\ b <= n * F => b \div F <= n
  <2> SUFFICES ASSUME NEW b \in Nat
               PROVE  /\ b \div F \in Nat
                      /\ b < n * F => b \div F < n
                      /\ b <= n * F => b \div F <= n
    OBVIOUS
  <2> DEFINE q == b \div F
  <2>1. q \in Nat /\ q * F <= b
    BY FPositive
  <2> HIDE DEF q
  <2>2. q >= n => q * F >= n * F
    BY <2>1, FPositive
  <2>3. q > n => q * F >= n * F + F
    <3> SUFFICES ASSUME q > n PROVE q * F >= n * F + F
      OBVIOUS
    <3>1. q * F >= (n + 1) * F
      BY <2>1, FPositive
    <3>2. (n + 1) * F = n * F + F
      BY FPositive
    <3> QED BY <3>1, <3>2
  <2>4. n * F \in Nat /\ q * F \in Nat
    BY <2>1, FPositive
  <2>5. b < n * F => q < n
    BY <2>1, <2>2, <2>4
  <2>6. b <= n * F => q <= n
    BY <2>1, <2>3, <2>4, FPositive
  <2> QED BY <2>1, <2>5, <2>6 DEF q
<1>2. n * F \in Nat
  BY FPositive
<1>3. CASE a >= 0
  <2>1. Quotient(a, F) = a \div F /\ a \in Nat
    BY <1>3 DEF Quotient
  <2> QED BY <1>1, <1>2, <2>1
<1>4. CASE ~(a >= 0)
  <2> DEFINE q == (-a) \div F
  <2>1. Quotient(a, F) = -q /\ -a \in Nat
    BY <1>4 DEF Quotient
  <2>2. q \in Nat /\ (-a < n * F => q < n) /\ (-a <= n * F => q <= n)
    BY <1>1, <2>1
  <2> HIDE DEF q
  <2> QED BY <1>2, <2>1, <2>2
<1> QED BY <1>3, <1>4

\* A quotient of words fits a word.
LEMMA QuotientBelow ==
  ASSUME NEW a \in Int, a < F * F, -(F * F) < a
  PROVE  /\ Quotient(a, F) \in Int /\ Quotient(a, F) < F /\ -F < Quotient(a, F)
         /\ Signed(Quotient(a, F)) = Quotient(a, F)
<1>1. Quotient(a, F) \in Int
  BY QuotientOff
<1>2. Quotient(a, F) < F /\ -F < Quotient(a, F)
  BY QuotientAtMost, FPositive
<1> QED BY <1>1, <1>2, SignedFits, FPositive

\* F divides its multiples.
LEMMA Multiple == \A k \in Nat : (k * F) \div F = k
  BY FPositive

\* With index 0, 1 - I is F, which its register holds as -F.
LEMMA InvertedWithoutAM ==
  ASSUME NEW m \in Int, NEW c \in Int
  PROVE  AMOut(0, m, c) = Signed(-c)
<1>1. ModIndexOpposite(0) = -F
  <2>1. (F - 0 + F) % (2 * F) = 0
    <3>1. F - 0 + F = 2 * F /\ 2 * F \in Nat /\ 2 * F > 0
      BY FPositive
    <3> QED BY <3>1
  <2> QED BY <2>1, FPositive DEF ModIndexOpposite, Signed
<1>2. ScaledModulation(0, m) = 0
  <2>1. 0 * m = 0
    OBVIOUS
  <2>2. Quotient(0, F) = 0
    BY FPositive DEF Quotient
  <2> QED BY <2>1, <2>2, SignedFits, FPositive DEF ScaledModulation
<1>3. Quotient((-F) * c, F) = -c
  <2>1. CASE c <= 0
    <3>1. (-F) * c = (-c) * F /\ (-c) * F >= 0 /\ -c \in Nat
      BY <2>1, FPositive
    <3> QED BY <3>1, Multiple DEF Quotient
  <2>2. CASE c > 0
    <3>1. (-F) * c = -(c * F) /\ c * F > 0 /\ c \in Nat
      BY <2>2, FPositive
    <3>2. c * F \in Int /\ ~(-(c * F) >= 0) /\ -(-(c * F)) = c * F
      BY <3>1, FPositive
    <3> QED BY <3>1, <3>2, Multiple DEF Quotient
  <2> QED BY <2>1, <2>2
<1>4. -F + 0 = -F
  BY FPositive
<1> QED BY <1>1, <1>2, <1>3, <1>4 DEF AMOut

\* The two divisions lose less than a step each, the first one's loss times a
\* carrier of at most F.
LEMMA AMIsClose ==
  ASSUME NEW i \in 1 .. F - 1, NEW m \in -F .. F - 1, NEW c \in -F .. F - 1
  PROVE  Distance(AMOut(i, m, c) * F * F, ((F - i) * F + i * m) * c) < 2 * F * F
<1> DEFINE p  == i * m
           q  == Quotient(p, F)
           s  == F - i + q
           q2 == Quotient(s * c, F)
<1>0. /\ F \in Nat /\ F > 0 /\ i \in Nat /\ i > 0 /\ i < F
      /\ m \in Int /\ -F <= m /\ m < F /\ c \in Int /\ -F <= c /\ c < F
  BY FPositive
<1>1. p \in Int /\ p < F * F /\ -(F * F) < p
  BY <1>0, ProductBelow
<1>2. ModIndexOpposite(i) = F - i
  BY <1>0, SignedFits DEF ModIndexOpposite
<1>3. q \in Int /\ ScaledModulation(i, m) = q
  BY <1>1, QuotientBelow DEF ScaledModulation
<1>4. q < i /\ -i <= q
  <2>1. p < i * F /\ -(i * F) <= p
    BY <1>0
  <2> QED BY <2>1, <1>0, <1>1, QuotientAtMost
<1>5. s \in Int /\ -F < s /\ s < F
  BY <1>0, <1>3, <1>4
<1>6. p - q * F < F /\ q * F - p < F
  BY <1>1, QuotientOff
<1> HIDE DEF p, q
<1>7. s * c \in Int /\ s * c < F * F /\ -(F * F) < s * c
  BY <1>0, <1>5, ProductBelow
<1>8. q2 \in Int /\ AMOut(i, m, c) = q2
  <2>1. (ModIndexOpposite(i) + ScaledModulation(i, m)) * c = s * c
    BY <1>2, <1>3
  <2>2. Signed(q2) = q2 /\ q2 \in Int
    BY <1>7, QuotientBelow
  <2> QED BY <2>1, <2>2 DEF AMOut
<1>9. s * c - q2 * F < F /\ q2 * F - s * c < F
  BY <1>7, QuotientOff
<1> DEFINE r  == p - q * F
           r2 == s * c - q2 * F
<1> HIDE DEF q2
<1>10. r \in Int /\ -F < r /\ r < F /\ r2 \in Int /\ -F < r2 /\ r2 < F
  BY <1>0, <1>1, <1>3, <1>6, <1>7, <1>8, <1>9
<1>11. /\ r * c \in Int /\ r * c < F * F /\ -(F * F) < r * c
       /\ r2 * F \in Int /\ r2 * F < F * F /\ -(F * F) < r2 * F
  BY <1>0, <1>10, ProductBelow
<1>12. q2 * F * F = ((F - i) * F + p) * c - r * c - r2 * F
  <2>1. q2 * F = s * c - r2
    BY <1>0, <1>7, <1>8
  <2>2. s * F = (F - i) * F + p - r
    <3>1. s * F = (F - i) * F + q * F
      BY <1>0, <1>3
    <3>2. p - r = q * F
      BY <1>0, <1>1, <1>3
    <3> QED BY <3>1, <3>2, <1>0, <1>1, <1>3
  <2> HIDE DEF s, r, r2
  <2>3. (s * c - r2) * F = (s * F) * c - r2 * F
    BY <1>0, <1>5, <1>10
  <2>4. ((F - i) * F + p - r) * c = ((F - i) * F + p) * c - r * c
    BY <1>0, <1>1, <1>10
  <2> QED BY <2>1, <2>2, <2>3, <2>4
<1> DEFINE exact == ((F - i) * F + p) * c
           a == r * c
           b == r2 * F
           ff == F * F
<1>13. exact \in Int /\ a \in Int /\ b \in Int /\ ff \in Int
  BY <1>0, <1>1, <1>11
<1>14. a < ff /\ -ff < a /\ b < ff /\ -ff < b
  BY <1>11
<1>15. q2 * F * F = exact - a - b
  BY <1>12
<1>16. 2 * F * F = 2 * ff
  BY <1>0
<1> HIDE DEF exact, a, b, ff
<1>17. Distance(exact - a - b, exact) < 2 * ff
  BY <1>13, <1>14 DEF Distance
<1> QED BY <1>8, <1>15, <1>16, <1>17 DEF exact, p

LEMMA AMFormula == SampleTypeOK => AmFollowsFormula
<1> SUFFICES ASSUME SampleTypeOK PROVE AmFollowsFormula
  OBVIOUS
<1>1. index \in 0 .. F - 1 /\ modulation \in -F .. F - 1 /\ carrier \in -F .. F - 1
  BY DEF SampleTypeOK
<1>2. CASE index = 0
  <2>1. AMOut(0, modulation, carrier) = Signed(-carrier)
    BY <1>1, FPositive, InvertedWithoutAM
  <2> QED BY <1>2, <2>1 DEF AmFollowsFormula
<1>3. CASE index # 0
  <2>1. index \in 1 .. F - 1
    BY <1>1, <1>3, FPositive
  <2>2. Distance(AMOut(index, modulation, carrier) * F * F,
                 ((F - index) * F + index * modulation) * carrier) < 2 * F * F
    BY <1>1, <2>1, AMIsClose
  <2> QED BY <1>3, <2>2, Zenon DEF AmFollowsFormula
<1> QED BY <1>2, <1>3

\* For words of any width, and every modulation index, modulating sample and
\* carrier: o_AMOut is the formula of DDS_Modulator.v:63 to two steps of its
\* divisions, and the inverted carrier for index 0.
THEOREM AMFollowsItsFormula == SampleSpec => []AmFollowsFormula
  BY SampleTypeCorrect, AMFormula, PTL

-----------------------------------------------------------------------------
(* The phases *)

USE DEF Channel, Off, Both

LEMMA LengthOfRegisters == Len(Registers) = 6 /\ DOMAIN Registers = 1 .. 6
  BY DEF Registers

LEMMA RegisterNames ==
  \A n \in 1 .. 6 : Registers[n][1] \in Channel /\ Registers[n][2] \in Fields
<1> SUFFICES ASSUME NEW n \in 1 .. 6
             PROVE  Registers[n][1] \in Channel /\ Registers[n][2] \in Fields
  OBVIOUS
<1>1. n = 1 \/ n = 2 \/ n = 3 \/ n = 4 \/ n = 5 \/ n = 6
  OBVIOUS
<1> QED
  BY <1>1 DEF Registers, Fields

\* A phase register keeps its width, whatever is added to it.
LEMMA AdvancedInRange ==
  ASSUME NEW old \in Int, NEW add \in Int
  PROVE  Advanced(old, add) \in 0 .. PhaseRange - 1
  BY DdsCoreAssumption DEF Advanced

LEMMA ModulatedStepInt ==
  ASSUME DdsTypeOK, NEW c \in Channel
  PROVE  ModulatedStep(c) \in Int
<1>1. register[c].step \in Int /\ register[c].fmDev \in Int
  <2>1. register[c] \in [Fields -> 0 .. PhaseRange - 1]
    BY DEF DdsTypeOK
  <2> QED
    BY <2>1, DdsCoreAssumption DEF Fields
<1>2. Modulation[fmAddress[c]] \in Int
  BY DdsCoreAssumption DEF DdsTypeOK
<1> QED
  BY <1>1, <1>2 DEF ModulatedStep

-----------------------------------------------------------------------------
(* Types *)

LEMMA DdsTypeInit == DdsInit => DdsTypeOK
<1> SUFFICES ASSUME DdsInit PROVE DdsTypeOK
  OBVIOUS
<1>1. 0 \in 0 .. PhaseRange - 1
  BY DdsCoreAssumption
<1>2. writing \in 0 .. Len(Registers) + 2 /\ pulse \in {Off} \cup 0 .. PulseClocks
  BY LengthOfRegisters DEF DdsInit
<1>3. /\ register \in [Channel -> [Fields -> 0 .. PhaseRange - 1]]
      /\ phase \in [Channel -> 0 .. PhaseRange - 1]
      /\ fmPhase \in [Channel -> 0 .. PhaseRange - 1]
      /\ fmAddress \in [Channel -> 0 .. PhaseRange - 1]
  BY <1>1 DEF DdsInit
<1>4. phaseReset \in BOOLEAN /\ inPhase \in BOOLEAN /\ changed \in BOOLEAN /\ cleared \in BOOLEAN
  BY DEF DdsInit
<1> QED
  BY <1>2, <1>3, <1>4 DEF DdsInit, DdsTypeOK

LEMMA ClockType == DdsTypeOK /\ Clock => DdsTypeOK'
<1> SUFFICES ASSUME DdsTypeOK, Clock PROVE DdsTypeOK'
  OBVIOUS
<1>1. fmAddress' \in [Channel -> 0 .. PhaseRange - 1]
  BY DEF Clock, DdsTypeOK
<1>2. phase' \in [Channel -> 0 .. PhaseRange - 1]
  <2>1. CASE pulse = Off
    <3>1. \A c \in Channel : phase[c] \in Int
      BY DdsCoreAssumption DEF DdsTypeOK
    <3>2. \A c \in Channel : Advanced(phase[c], ModulatedStep(c)) \in 0 .. PhaseRange - 1
      BY <3>1, ModulatedStepInt, AdvancedInRange
    <3> QED
      BY <2>1, <3>2 DEF Clock
  <2>2. CASE pulse # Off
    BY <2>2, DdsCoreAssumption DEF Clock
  <2> QED
    BY <2>1, <2>2
<1>3. fmPhase' \in [Channel -> 0 .. PhaseRange - 1]
  <2>1. CASE pulse = Off
    <3>1. \A c \in Channel : fmPhase[c] \in Int /\ register[c].fmStep \in Int
      <4>1. \A c \in Channel : register[c] \in [Fields -> 0 .. PhaseRange - 1]
        BY DEF DdsTypeOK
      <4>2. \A c \in Channel : register[c].fmStep \in 0 .. PhaseRange - 1
        BY <4>1 DEF Fields
      <4>3. \A c \in Channel : fmPhase[c] \in 0 .. PhaseRange - 1
        BY DEF DdsTypeOK
      <4> QED
        BY <4>2, <4>3, DdsCoreAssumption
    <3>2. \A c \in Channel : Advanced(fmPhase[c], register[c].fmStep) \in 0 .. PhaseRange - 1
      BY <3>1, AdvancedInRange
    <3> QED
      BY <2>1, <3>2 DEF Clock
  <2>2. CASE pulse # Off
    BY <2>2, DdsCoreAssumption DEF Clock
  <2> QED
    BY <2>1, <2>2
<1>4. pulse' \in {Off} \cup 0 .. PulseClocks
  <2>1. pulse \in {Off} \cup 0 .. PulseClocks /\ PulseClocks \in Nat
    BY DdsCoreAssumption DEF DdsTypeOK
  <2>2. pulse' = pulse \/ (pulse # Off /\ pulse < PulseClocks /\ pulse' = pulse + 1)
    BY DEF Clock
  <2> QED
    BY <2>1, <2>2
<1> QED
  BY <1>1, <1>2, <1>3, <1>4 DEF Clock, DdsTypeOK, ddsSoftware, ddsHistory

LEMMA WriteType == DdsTypeOK /\ WriteRegister => DdsTypeOK'
<1> SUFFICES ASSUME DdsTypeOK, WriteRegister PROVE DdsTypeOK'
  OBVIOUS
<1> DEFINE c == Registers[writing][1]
           f == Registers[writing][2]
<1>1. writing \in 1 .. 6
  BY LengthOfRegisters DEF WriteRegister
<1>2. c \in Channel /\ f \in Fields
  BY <1>1, RegisterNames
<1>3. desired[c][f] \in 0 .. PhaseRange - 1
  BY <1>2, DdsCoreAssumption DEF DdsTypeOK
<1>4. register' = [register EXCEPT ![c] = [@ EXCEPT ![f] = desired[c][f]]]
  BY DEF WriteRegister
<1>5. register' \in [Channel -> [Fields -> 0 .. PhaseRange - 1]]
  <2> HIDE DEF c, f
  <2> QED
    BY <1>2, <1>3, <1>4 DEF DdsTypeOK
<1>6. changed' \in BOOLEAN
  BY DEF WriteRegister, DdsTypeOK
<1>7. writing' \in 0 .. Len(Registers) + 2
  BY <1>1, LengthOfRegisters DEF WriteRegister
<1> QED
  BY <1>5, <1>6, <1>7 DEF WriteRegister, DdsTypeOK, ddsHardware

LEMMA DdsTypeStep == DdsTypeOK /\ [DdsNext]_ddsVars => DdsTypeOK'
<1> SUFFICES ASSUME DdsTypeOK, [DdsNext]_ddsVars PROVE DdsTypeOK'
  OBVIOUS
<1> USE DEF ddsSoftware, ddsHardware, ddsHistory
<1>1. CASE Clock
  BY <1>1, ClockType
<1>2. CASE RequestReset
  BY <1>2 DEF RequestReset, DdsTypeOK
<1>3. CASE BeginPass
  <2>1. writing' \in 0 .. Len(Registers) + 2
    BY <1>3, LengthOfRegisters DEF BeginPass
  <2>2. changed' \in BOOLEAN /\ cleared' \in BOOLEAN
    BY <1>3 DEF BeginPass
  <2> QED
    BY <1>3, <2>1, <2>2 DEF BeginPass, DdsTypeOK
<1>4. CASE WriteRegister
  BY <1>4, WriteType
<1>5. CASE NoReset
  <2>1. inPhase' \in BOOLEAN
    BY <1>5 DEF NoReset, EndPass, DdsTypeOK
  <2>2. writing' \in 0 .. Len(Registers) + 2
    BY <1>5, LengthOfRegisters DEF NoReset, EndPass
  <2> QED
    BY <1>5, <2>1, <2>2 DEF NoReset, EndPass, DdsTypeOK
<1>6. CASE AssertReset
  BY <1>6, LengthOfRegisters, DdsCoreAssumption DEF AssertReset, DdsTypeOK
<1>7. CASE ReleaseReset
  <2>1. inPhase' \in BOOLEAN
    BY <1>7 DEF ReleaseReset, EndPass, DdsTypeOK
  <2>2. writing' \in 0 .. Len(Registers) + 2 /\ pulse' \in {Off} \cup 0 .. PulseClocks
    BY <1>7, LengthOfRegisters DEF ReleaseReset, EndPass
  <2> QED
    BY <1>7, <2>1, <2>2 DEF ReleaseReset, EndPass, DdsTypeOK
<1>8. ASSUME NEW c \in Channel, SetChannel(c) PROVE DdsTypeOK'
  BY <1>8 DEF SetChannel, DdsTypeOK
<1>9. CASE UNCHANGED ddsVars
  BY <1>9 DEF ddsVars, DdsTypeOK
<1> QED
  BY <1>1, <1>2, <1>3, <1>4, <1>5, <1>6, <1>7, <1>8, <1>9 DEF DdsNext, UpdateRegisters

\* The registers of the DDS core keep their types, for every width of the
\* phase, every set of settings and every modulating waveform.
THEOREM DdsTypeCorrect == DdsSpec => []DdsTypeOK
<1>1. DdsInit => DdsTypeOK
  BY DdsTypeInit
<1>2. DdsTypeOK /\ [DdsNext]_ddsVars => DdsTypeOK'
  BY DdsTypeStep
<1> QED
  BY <1>1, <1>2, PTL DEF DdsSpec

-----------------------------------------------------------------------------
(* Channels in phase *)

AlignedPhases ==
  phase[0] = phase[1] /\ fmPhase[0] = fmPhase[1] /\ fmAddress[0] = fmAddress[1]

\* Two clocks after 0xFF everything is 0: the modulator's address, which lags
\* behind its phase, one clock later than the rest.
PulseClears ==
  /\ pulse # Off => writing = Len(Registers) + 2
  /\ pulse # Off /\ pulse >= 1 => phase = Both(0) /\ fmPhase = Both(0)
  /\ pulse # Off /\ pulse >= 2 => fmAddress = Both(0)

\* ChannelsInPhase, carried through a pass: until it changes a register, the
\* channels stay aligned; what it did so far is in the history.
CarriedPhase ==
  /\ writing # 0 => ~cleared
  /\ inPhase /\ (writing = 0 \/ ~changed) /\ register[0] = register[1] => AlignedPhases

PhaseInv == DdsTypeOK /\ PulseClears /\ CarriedPhase

LEMMA PhaseInit == DdsInit => PhaseInv
  BY DdsTypeInit DEF DdsInit, PhaseInv, PulseClears, CarriedPhase, AlignedPhases

LEMMA PulseStep == DdsTypeOK /\ PulseClears /\ [DdsNext]_ddsVars => PulseClears'
<1> SUFFICES ASSUME DdsTypeOK, PulseClears, [DdsNext]_ddsVars PROVE PulseClears'
  OBVIOUS
<1> USE LengthOfRegisters DEF ddsSoftware, ddsHardware, ddsHistory
<1>1. CASE Clock
  <2>1. CASE pulse = Off
    BY <1>1, <2>1 DEF Clock, PulseClears
  <2>2. CASE pulse # Off
    <3>1. pulse \in 0 .. PulseClocks /\ PulseClocks \in Nat /\ PulseClocks >= 2
      BY <2>2, DdsCoreAssumption DEF DdsTypeOK
    <3>2. phase' = Both(0) /\ fmPhase' = Both(0) /\ writing' = writing
      BY <1>1, <2>2 DEF Clock
    <3>3. pulse' >= 2 => pulse >= 1
      BY <1>1, <2>2, <3>1 DEF Clock
    <3>4. pulse' >= 2 => fmAddress' = Both(0)
      BY <1>1, <2>2, <3>3 DEF Clock, PulseClears
    <3> QED
      BY <2>2, <3>2, <3>4 DEF PulseClears
  <2> QED
    BY <2>1, <2>2
<1>2. CASE RequestReset
  BY <1>2 DEF RequestReset, PulseClears
<1>3. CASE BeginPass
  BY <1>3 DEF BeginPass, PulseClears
<1>4. CASE WriteRegister
  <2>1. writing \in 1 .. 6
    BY <1>4 DEF WriteRegister
  <2> QED
    BY <1>4, <2>1 DEF WriteRegister, PulseClears
<1>5. CASE NoReset
  BY <1>5 DEF NoReset, EndPass, PulseClears
<1>6. CASE AssertReset
  BY <1>6 DEF AssertReset, PulseClears
<1>7. CASE ReleaseReset
  BY <1>7 DEF ReleaseReset, EndPass, PulseClears
<1>8. ASSUME NEW c \in Channel, SetChannel(c) PROVE PulseClears'
  BY <1>8 DEF SetChannel, PulseClears
<1>9. CASE UNCHANGED ddsVars
  BY <1>9 DEF ddsVars, PulseClears
<1> QED
  BY <1>1, <1>2, <1>3, <1>4, <1>5, <1>6, <1>7, <1>8, <1>9 DEF DdsNext, UpdateRegisters

\* Channels with the same registers, once aligned, stay so.
LEMMA ClockKeepsAlignment ==
  ASSUME DdsTypeOK, Clock, register[0] = register[1], AlignedPhases
  PROVE  AlignedPhases'
<1>1. CASE pulse = Off
  <2>1. ModulatedStep(0) = ModulatedStep(1)
    BY DEF ModulatedStep, AlignedPhases
  <2> QED
    BY <1>1, <2>1 DEF Clock, AlignedPhases
<1>2. CASE pulse # Off
  BY <1>2 DEF Clock, AlignedPhases
<1> QED
  BY <1>1, <1>2

LEMMA CarriedStep == PhaseInv /\ [DdsNext]_ddsVars => CarriedPhase'
<1> SUFFICES ASSUME PhaseInv, [DdsNext]_ddsVars PROVE CarriedPhase'
  OBVIOUS
<1> USE LengthOfRegisters DEF PhaseInv, ddsSoftware, ddsHardware, ddsHistory
<1>1. CASE Clock
  <2>1. register' = register /\ UNCHANGED <<writing, cleared, inPhase, changed>>
    BY <1>1 DEF Clock
  <2> QED
    BY <1>1, <2>1, ClockKeepsAlignment DEF CarriedPhase
<1>2. CASE RequestReset
  BY <1>2 DEF RequestReset, CarriedPhase, AlignedPhases
<1>3. CASE BeginPass
  BY <1>3 DEF BeginPass, CarriedPhase, AlignedPhases
<1>4. CASE WriteRegister
  <2> DEFINE c == Registers[writing][1]
             f == Registers[writing][2]
  <2>1. writing \in 1 .. 6
    BY <1>4 DEF WriteRegister
  <2>2. c \in Channel /\ f \in Fields
    BY <2>1, RegisterNames
  <2>3. register' = [register EXCEPT ![c] = [@ EXCEPT ![f] = desired[c][f]]]
    BY <1>4 DEF WriteRegister
  <2>4. changed' = (changed \/ register'[c][f] # register[c][f])
    BY <1>4 DEF WriteRegister
  <2>5. register'[c][f] = register[c][f] => register' = register
    <3> HIDE DEF c, f
    <3>1. register'[c][f] = desired[c][f]
      BY <2>2, <2>3 DEF DdsTypeOK
    <3> QED
      BY <2>2, <2>3, <3>1 DEF DdsTypeOK
  <2>6. ~changed' => ~changed /\ register' = register
    BY <2>4, <2>5
  <2>7. writing # 0 /\ writing' # 0
    BY <1>4, <2>1 DEF WriteRegister
  <2>8. UNCHANGED <<cleared, inPhase, phase, fmPhase, fmAddress>>
    BY <1>4 DEF WriteRegister
  <2> HIDE DEF c, f
  <2> QED
    BY <2>6, <2>7, <2>8 DEF CarriedPhase, AlignedPhases
<1>5. CASE NoReset
  <2>1. ~cleared /\ ~cleared' /\ writing # 0
    BY <1>5 DEF NoReset, CarriedPhase
  <2>2. inPhase' => inPhase /\ ~changed
    BY <1>5, <2>1 DEF NoReset, EndPass
  <2> QED
    BY <1>5, <2>1, <2>2 DEF NoReset, EndPass, CarriedPhase, AlignedPhases
<1>6. CASE AssertReset
  BY <1>6 DEF AssertReset, CarriedPhase, AlignedPhases
<1>7. CASE ReleaseReset
  <2>1. pulse # Off /\ pulse >= 1 /\ pulse >= 2
    BY <1>7, DdsCoreAssumption DEF ReleaseReset
  <2>2. AlignedPhases
    BY <2>1 DEF PulseClears, AlignedPhases
  <2> QED
    BY <1>7, <2>2 DEF ReleaseReset, EndPass, CarriedPhase, AlignedPhases
<1>8. ASSUME NEW c \in Channel, SetChannel(c) PROVE CarriedPhase'
  BY <1>8 DEF SetChannel, CarriedPhase, AlignedPhases
<1>9. CASE UNCHANGED ddsVars
  BY <1>9 DEF ddsVars, CarriedPhase, AlignedPhases
<1> QED
  BY <1>1, <1>2, <1>3, <1>4, <1>5, <1>6, <1>7, <1>8, <1>9 DEF DdsNext, UpdateRegisters

\* Between two passes, channels set alike run in phase if no register has
\* changed since a pass that reset them.  The reset pulse has to last two
\* clocks: after one, the modulators' addresses still differ.
THEOREM ResetAlignsChannels == DdsSpec => []ChannelsInPhase
<1>1. DdsInit => PhaseInv
  BY PhaseInit
<1>2. PhaseInv /\ [DdsNext]_ddsVars => PhaseInv'
  BY DdsTypeStep, PulseStep, CarriedStep DEF PhaseInv
<1>3. PhaseInv => ChannelsInPhase
  BY DEF PhaseInv, CarriedPhase, AlignedPhases, ChannelsInPhase
<1> QED
  BY <1>1, <1>2, <1>3, PTL DEF DdsSpec
=============================================================================
