----------------------------- MODULE TuningProofs -----------------------------
(***************************************************************************)
(* For every scale that satisfies the assumptions of Tuning, the source's  *)
(* among them: the words fit and mean what was asked for.                  *)
(***************************************************************************)
EXTENDS Tuning, TLAPS

-----------------------------------------------------------------------------
(* Arithmetic                                                               *)

\* What a truncating division leaves.
LEMMA DivMod ==
  ASSUME NEW a \in Int, NEW b \in Nat \ {0}
  PROVE  /\ a \div b \in Int
         /\ b * (a \div b) <= a /\ a < b * (a \div b) + b
         /\ a % b \in 0..(b - 1) /\ a = b * (a \div b) + (a % b)
OBVIOUS

\* A quotient is determined by its bounds.
LEMMA DivUnique ==
  ASSUME NEW a \in Int, NEW b \in Nat \ {0}, NEW q \in Int, b * q <= a, a < b * q + b
  PROVE  a \div b = q
OBVIOUS

\* A number that fits is its own remainder.
LEMMA SmallMod ==
  ASSUME NEW a \in Nat, NEW b \in Nat \ {0}, a < b
  PROVE  a % b = a
OBVIOUS

\* Multiplication by a positive number keeps the order, and can be undone.
LEMMA TimesMonotone ==
  ASSUME NEW a \in Int, NEW b \in Int, NEW c \in Nat \ {0}
  PROVE  (a <= b <=> c * a <= c * b) /\ (a < b <=> c * a < c * b)
OBVIOUS

\* A common factor on the right, with the product written from the left.
LEMMA TimesDistributes ==
  ASSUME NEW a \in Int, NEW b \in Int, NEW c \in Int
  PROVE  c * a - c * b = (a - b) * c
OBVIOUS

\* A product of positive numbers is positive.
LEMMA TimesPositive ==
  ASSUME NEW a \in Nat \ {0}, NEW b \in Nat \ {0}
  PROVE  a * b \in Nat \ {0}
OBVIOUS

\* sample_rate: cutting two bits off the divider raises the rate by less than
\* two samples per second, as long as the divider is large enough.
LEMMA RateWord ==
  ASSUME NEW rate \in RATES
  PROVE  SampleRate(rate) \in rate..(rate + 1)
<1> DEFINE n == XTAL_HZ * NCO
           q == n \div rate
           r == Ratio(rate)
<1>1. rate \in Nat \ {0} /\ n \in Nat \ {0} /\ rate * (2 * rate + 3) <= n /\ q < RATIO_WORD
  BY TuningAssumption, TimesPositive
<1> HIDE DEF n
<1>2. q \in Int /\ rate * q <= n /\ n < rate * q + rate
  BY <1>1, DivMod
<1>3. 2 * rate + 3 <= q
  <2>1. rate * (2 * rate + 3) < rate * (q + 1)
    BY <1>1, <1>2
  <2>2. 2 * rate + 3 < q + 1
    BY <2>1, <1>1, <1>2, TimesMonotone
  <2> QED BY <2>2, <1>1, <1>2
<1>4. r = 4 * (q \div 4)
  <2>1. q % RATIO_WORD = q
    <3>1. q \in Nat /\ RATIO_WORD \in Nat \ {0}
      BY <1>1, <1>2, <1>3, TuningAssumption
    <3> HIDE DEF q
    <3> QED BY <3>1, <1>1, SmallMod
  <2> QED BY <2>1 DEF Ratio, n
<1>5. r \in Nat \ {0} /\ q - 3 <= r /\ r <= q
  BY <1>1, <1>2, <1>3, <1>4
<1> HIDE DEF r
<1>6. n \div r \in Int /\ r * (n \div r) <= n /\ n < r * (n \div r) + r
  BY <1>1, <1>5, DivMod
<1>7. rate <= n \div r
  <2>1. rate * r <= rate * q
    BY <1>1, <1>2, <1>5, TimesMonotone
  <2>2. r * rate < r * (n \div r + 1)
    BY <2>1, <1>1, <1>2, <1>5, <1>6
  <2> QED BY <2>2, <1>1, <1>5, <1>6, TimesMonotone
<1>8. n \div r < rate + 2
  <2>1. (rate + 2) * (q - 3) <= (rate + 2) * r
    BY <1>1, <1>2, <1>5, TimesMonotone
  <2>2. n < r * (rate + 2)
    BY <2>1, <1>1, <1>2, <1>3, <1>5
  <2>3. r * (n \div r) < r * (rate + 2)
    BY <2>2, <1>6, <1>5, <1>1
  <2> QED BY <2>3, <1>1, <1>5, <1>6, TimesMonotone
<1> QED BY <1>1, <1>6, <1>7, <1>8 DEF SampleRate, n, r

-----------------------------------------------------------------------------
(* The PLL                                                                  *)

\* The number of halvings is defined, and the VCO runs in its upper octave
\* unless that would take more than six.
LEMMA Halvings ==
  ASSUME NEW hz \in 1..VCO_MAX
  PROVE  /\ Div(hz) \in 0..6
         /\ Pow2(Div(hz)) \in {1, 2, 4, 8, 16, 32, 64}
         /\ Pow2(Div(hz)) * hz <= VCO_MAX
         /\ Div(hz) = 6 \/ VCO_MAX < 2 * (Pow2(Div(hz)) * hz)
<1> DEFINE k == VCO_MAX \div hz
<1>1. VCO_MAX \in Nat \ {0} /\ hz \in Nat \ {0}
  BY TuningAssumption
<1>2. k \in Int /\ hz * k <= VCO_MAX /\ VCO_MAX < hz * k + hz
  BY <1>1, DivMod
<1>3. 1 <= k
  <2>1. hz * 0 < hz * (k + 1)
    BY <1>1, <1>2
  <2> QED BY <2>1, <1>1, <1>2, TimesMonotone
<1> HIDE DEF k
<1>4. \E d \in 0..6 : Pow2(d) <= k /\ (d = 6 \/ k < Pow2(d + 1))
  <2>1. k < 2 \/ k \in 2..3 \/ k \in 4..7 \/ k \in 8..15 \/ k \in 16..31 \/ k \in 32..63 \/ 64 <= k
    BY <1>2, <1>3
  <2> QED BY <2>1, <1>2, <1>3 DEF Pow2
<1>5. /\ Div(hz) \in 0..6 /\ Pow2(Div(hz)) <= k
      /\ Div(hz) = 6 \/ k < Pow2(Div(hz) + 1)
  BY <1>4 DEF Div, k
<1>6. /\ Pow2(Div(hz)) \in {1, 2, 4, 8, 16, 32, 64}
      /\ Div(hz) = 6 \/ Pow2(Div(hz) + 1) = 2 * Pow2(Div(hz))
  BY <1>5 DEF Pow2
<1> DEFINE p == Pow2(Div(hz))
<1> HIDE DEF p
<1>7. p \in Nat /\ p <= k /\ (Div(hz) = 6 \/ k + 1 <= 2 * p)
  BY <1>2, <1>5, <1>6 DEF p
<1>8. hz * p <= hz * k
  BY <1>7, <1>1, <1>2, TimesMonotone
<1>9. Div(hz) = 6 \/ hz * (k + 1) <= hz * (2 * p)
  BY <1>7, <1>1, <1>2, TimesMonotone
<1>10. p * hz <= VCO_MAX /\ (Div(hz) = 6 \/ VCO_MAX < 2 * (p * hz))
  BY <1>1, <1>2, <1>7, <1>8, <1>9
<1> QED BY <1>5, <1>6, <1>10 DEF p

\* pll in numbers: the modulator's steps fit their register without the min,
\* and what the PLL makes of them is at most one step below what is asked for.
LEMMA PllArithmetic ==
  ASSUME NEW l \in Nat \ {0}, NEW c \in Nat \ {0}, NEW p \in Nat \ {0}, NEW h \in Nat \ {0},
         NEW v, NEW i, NEW t, NEW s, NEW a,
         v = l * 2 * p, i = v \div (2 * c), t = v % (2 * c), s = (t * h) \div c,
         a = (2 * c * (i * (2 * h) + s)) \div ((2 * h) * (2 * p))
  PROVE  /\ i \in Int /\ s \in 0..(2 * h - 1) /\ a \in Int
         /\ a <= l /\ (l - a) * ((2 * h) * p) < c + (2 * h) * p
<1>1. v \in Nat /\ 2 * c \in Nat \ {0} /\ (2 * h) * (2 * p) \in Nat \ {0}
  BY TimesPositive
<1>2. i \in Int /\ t \in 0..(2 * c - 1) /\ v = 2 * c * i + t
  <2> DEFINE w == 2 * c
  <2>1. w \in Nat \ {0} /\ i = v \div w /\ t = v % w
    BY <1>1
  <2> HIDE DEF w
  <2>2. v \in Int
    BY <1>1
  <2>3. /\ v \div w \in Int /\ v % w \in 0..(w - 1)
        /\ v = w * (v \div w) + (v % w)
    BY <2>1, <2>2, DivMod
  <2> QED BY <2>1, <2>3 DEF w
<1>3. t * h \in Int /\ s \in Int /\ c * s <= t * h /\ t * h < c * s + c
  <2> DEFINE y == t * h
  <2>1. y \in Int /\ s = y \div c
    BY <1>2
  <2> HIDE DEF y
  <2>2. s \in Int /\ c * s <= y /\ y < c * s + c
    BY <2>1, DivMod
  <2> QED BY <2>1, <2>2 DEF y
<1>4. s \in 0..(2 * h - 1)
  <2>1. h * 0 <= h * t /\ h * t < h * (2 * c)
    BY <1>2, TimesMonotone
  <2>2. c * 0 < c * (s + 1) /\ c * s < c * (2 * h)
    BY <2>1, <1>2, <1>3
  <2>3. 0 < s + 1 /\ s < 2 * h
    BY <2>2, <1>3, TimesMonotone
  <2> QED BY <2>3, <1>3
<1> DEFINE d == (2 * h) * (2 * p)
           x == 2 * c * (i * (2 * h) + s)
<1>5. x \in Int /\ d \in Nat \ {0} /\ a \in Int /\ d * a <= x /\ x < d * a + d
  <2>1. x \in Int /\ d \in Nat \ {0} /\ a = x \div d
    BY <1>1, <1>2, <1>3
  <2> HIDE DEF x, d
  <2> QED BY <2>1, DivMod
<1>6. x <= d * l /\ d * l < x + 2 * c
  <2>1. d * l = (2 * h) * v
    OBVIOUS
  <2> DEFINE z == 2 * c * i
  <2>2. z \in Int /\ (2 * h) * z \in Int /\ x = (2 * h) * z + 2 * (c * s)
    BY <1>2, <1>3
  <2> HIDE DEF z, x, d
  <2>3. (2 * h) * v = (2 * h) * (z + t)
    BY <1>2 DEF z
  <2>4. (2 * h) * (z + t) = (2 * h) * z + 2 * (t * h)
    BY <2>2, <1>2
  <2>5. d * l = (2 * h) * z + 2 * (t * h)
    BY <2>1, <2>3, <2>4
  <2>6. c * s \in Int
    BY <1>3
  <2> QED BY <2>2, <2>5, <2>6, <1>3
<1> HIDE DEF x
<1>7. a <= l
  <2>1. d * a <= d * l
    BY <1>5, <1>6
  <2> HIDE DEF d
  <2> QED BY <2>1, <1>5, TimesMonotone
<1>8. (l - a) * d < d + 2 * c
  BY <1>5, <1>6
<1>9. (l - a) * d = 2 * ((l - a) * ((2 * h) * p)) /\ d = 2 * ((2 * h) * p)
  BY <1>5
<1> QED BY <1>2, <1>4, <1>5, <1>7, <1>8, <1>9

\* The corrected crystal is a positive number in the range the assumptions give.
LEMMA CrystalRange ==
  ASSUME NEW ppm \in -PPM_MAX..PPM_MAX
  PROVE  /\ Crystal(ppm) \in Nat \ {0}
         /\ XTAL_HZ < 2 * Crystal(ppm) /\ IF_HZ < 2 * Crystal(ppm)
         /\ 26 * Crystal(ppm) <= VCO_MAX /\ VCO_MAX < 64 * Crystal(ppm)
         /\ 13 * Crystal(ppm) <= 64 * XTAL_HZ /\ 13 * Crystal(ppm) <= 64 * CALIBRATION
<1> DEFINE n == XTAL_HZ * (MILLION + ppm)
<1>1. ppm \in Int /\ n \in Int /\ MILLION \in Nat \ {0} /\ XTAL_HZ \in Nat \ {0}
  BY TuningAssumption
<1>2. n \div MILLION \in Int
  <2> HIDE DEF n
  <2> QED BY <1>1, DivMod
<1>3. Crystal(ppm) \in Int
  BY <1>2 DEF Crystal
<1> QED BY <1>1, <1>3, TuningAssumption

\* pll with the numbers of the driver.
LEMMA LoClose ==
  ASSUME NEW hz \in 1..VCO_MAX, NEW crystal \in Nat \ {0}
  PROVE  /\ Integer(hz, crystal) \in Int /\ Sdm(hz, crystal) \in 0..(FRACTION - 1)
         /\ ActualLo(hz, crystal) \in Int /\ ActualLo(hz, crystal) <= hz
         /\ (hz - ActualLo(hz, crystal)) * (FRACTION * Pow2(Div(hz)))
              < crystal + FRACTION * Pow2(Div(hz))
<1> DEFINE p == Pow2(Div(hz))
           h == FRACTION \div 2
           i == Vco(hz) \div (2 * crystal)
           t == Vco(hz) % (2 * crystal)
           s == (t * h) \div crystal
           a == (2 * crystal * (i * (2 * h) + s)) \div ((2 * h) * (2 * p))
<1>1. h \in Nat \ {0} /\ FRACTION = 2 * h
  BY TuningAssumption
<1>2. p \in Nat \ {0} /\ hz \in Nat \ {0}
  BY Halvings, TuningAssumption
<1>3. Vco(hz) = hz * 2 * p
  BY DEF Vco
<1> HIDE DEF h, p
<1>4. /\ i \in Int /\ s \in 0..(2 * h - 1) /\ a \in Int
      /\ a <= hz /\ (hz - a) * ((2 * h) * p) < crystal + (2 * h) * p
  BY <1>1, <1>2, <1>3, PllArithmetic
<1>5. Integer(hz, crystal) = i
  BY DEF Integer
<1>6. Sdm(hz, crystal) = s
  <2>1. s < FRACTION
    BY <1>1, <1>4
  <2> QED BY <2>1 DEF Sdm, h
<1>7. ActualLo(hz, crystal) = a
  BY <1>1, <1>5, <1>6 DEF ActualLo, p
<1> HIDE DEF i, s, a
<1> QED BY <1>1, <1>4, <1>5, <1>6, <1>7 DEF p

\* The part of the word that counts the VCO's crystals fits the tuner's range.
LEMMA IntegerRange ==
  ASSUME NEW hz \in 1..VCO_MAX, NEW crystal \in Nat \ {0},
         26 * crystal <= VCO_MAX, VCO_MAX < 64 * crystal, 13 * crystal <= 64 * hz
  PROVE  Integer(hz, crystal) \in 13..63
<1> DEFINE v == Vco(hz)
           w == 2 * crystal
           i == Integer(hz, crystal)
<1>1. Pow2(Div(hz)) \in Nat /\ hz \in Nat /\ VCO_MAX \in Nat
  BY Halvings, TuningAssumption
<1>2. v = 2 * (Pow2(Div(hz)) * hz)
  BY <1>1 DEF Vco
<1>3. v \in Int /\ w \in Nat \ {0} /\ v < 64 * w
  BY <1>1, <1>2, Halvings
<1>4. 13 * w <= v
  <2>1. CASE Div(hz) = 6
    BY <2>1, <1>1, <1>2 DEF Pow2
  <2>2. CASE Div(hz) # 6
    BY <2>2, <1>1, <1>2, Halvings
  <2> QED BY <2>1, <2>2
<1>5. i = v \div w
  BY DEF Integer
<1> HIDE DEF v, w, i
<1>6. i \in Int /\ w * i <= v /\ v < w * i + w
  BY <1>3, <1>5, DivMod
<1>7. w * i < w * 64 /\ w * 13 < w * (i + 1)
  BY <1>3, <1>4, <1>6
<1>8. i < 64 /\ 13 < i + 1
  BY <1>7, <1>6, <1>3, TimesMonotone
<1> QED BY <1>6, <1>8 DEF i

-----------------------------------------------------------------------------
(* Words in two's complement, and of the tuner                              *)

\* A negated number that fits is read back from its two's complement.
LEMMA TwosComplement ==
  ASSUME NEW q \in Int, NEW w \in Nat \ {0}, w % 2 = 0, -(w \div 2) < q, q <= w \div 2
  PROVE  (-q) % w \in 0..(w - 1) /\ Signed((-q) % w, w) = -q
<1> DEFINE r == (-q) % w
<1>1. CASE q <= 0
  <2>1. r = -q
    BY <1>1, SmallMod
  <2> QED BY <1>1, <2>1 DEF Signed
<1>2. CASE q > 0
  <2>1. (-q) \div w = -1
    BY <1>2, DivUnique
  <2>2. r = w - q
    <3>1. -q = w * ((-q) \div w) + r
      BY DivMod
    <3> QED BY <2>1, <3>1
  <2> QED BY <1>2, <2>2 DEF Signed
<1> QED BY <1>1, <1>2

\* Negated twice, a number below twice the width loses at most one width.
LEMMA NegatedTwice ==
  ASSUME NEW q \in Nat, NEW w \in Nat \ {0}, q < 2 * w
  PROVE  (-((-q) % w)) % w \in {q, q - w}
<1> DEFINE r == (-q) % w
           x == (-r) % w
<1>1. CASE q = 0
  BY <1>1, SmallMod
<1>2. CASE q \in 1..w
  <2>1. (-q) \div w = -1
    BY <1>2, DivUnique
  <2>2. r = w - q
    <3>1. -q = w * ((-q) \div w) + r
      BY DivMod
    <3> QED BY <2>1, <3>1
  <2>3. CASE q = w
    BY <2>2, <2>3, SmallMod
  <2>4. CASE q # w
    <3>1. (-r) \div w = -1
      BY <1>2, <2>2, <2>4, DivUnique
    <3>2. -r = w * ((-r) \div w) + x
      BY <2>2, DivMod
    <3> QED BY <2>2, <3>1, <3>2
  <2> QED BY <2>3, <2>4
<1>3. CASE q > w
  <2>1. (-q) \div w = -2
    BY <1>3, DivUnique
  <2>2. r = 2 * w - q
    <3>1. -q = w * ((-q) \div w) + r
      BY DivMod
    <3> QED BY <2>1, <3>1
  <2>3. (-r) \div w = -1
    BY <1>3, <2>2, DivUnique
  <2>4. -r = w * ((-r) \div w) + x
    BY <2>2, DivMod
  <2> QED BY <2>2, <2>3, <2>4
<1> QED BY <1>1, <1>2, <1>3

\* The integer word: six bits of quarters and two bits of remainder.
LEMMA IntegerDecoded ==
  ASSUME NEW n \in 13..63
  PROVE  /\ IntegerWord(n) \in 0..255
         /\ 13 + 4 * (IntegerWord(n) % 64) + IntegerWord(n) \div 64 = n
BY DEF IntegerWord

\* Whatever passes the range checks has a plan for the PLL, but for the range
\* of the divider.
LEMMA Planned ==
  ASSUME NEW s \in Settings, Accepted(s)
  PROVE  /\ s.ppm \in -PPM_MAX..PPM_MAX
         /\ ~Direct(s) => /\ Lo(s) \in 1..VCO_MAX
                          /\ Integer(Lo(s), Crystal(s.ppm)) \in 13..63
<1>1. s.ppm \in -PPM_MAX..PPM_MAX /\ s.hz \in FREQUENCIES
  BY DEF Accepted, Valid
<1>2. SUFFICES ASSUME ~Direct(s)
               PROVE  Lo(s) \in 1..VCO_MAX /\ Integer(Lo(s), Crystal(s.ppm)) \in 13..63
  BY <1>1
<1>3. XTAL_HZ \in Nat /\ IF_HZ \in Nat /\ VCO_MAX \in Nat /\ 2 * XTAL_HZ + IF_HZ <= VCO_MAX
  BY TuningAssumption
<1>4. s.hz \in Int /\ 1 <= s.hz /\ s.hz + IF_HZ <= VCO_MAX
  <2>1. s.hz \in 1..(VCO_MAX - IF_HZ)
    BY <1>1, TuningAssumption
  <2> QED BY <2>1, <1>3
<1>5. s.hz < XTAL_HZ => s.v4
  BY <1>2 DEF Accepted, Direct
<1>6. Lo(s) \in 1..VCO_MAX /\ XTAL_HZ <= Lo(s)
  BY <1>3, <1>4, <1>5 DEF Lo, Offset
<1>7. 13 * Crystal(s.ppm) <= 64 * Lo(s)
  BY <1>1, <1>3, <1>6, CrystalRange
<1> QED BY <1>1, <1>6, <1>7, CrystalRange, IntegerRange

-----------------------------------------------------------------------------
(* The only outcomes                                                        *)

\* What is in `result' was computed for `request', which the checks accepted.
Outcome ==
  /\ request \in Settings
  /\ \/ result \in {Refused("new"), Refused("InvalidConfig")}
     \/ Accepted(request) /\ ~Locked(request) /\ result = Refused("PllUnlocked")
     \/ Accepted(request) /\ Locked(request) /\ result = Configured(request)

LEMMA OutcomeInvariant == Spec => []Outcome
<1>1. Init => Outcome
  BY RequestsAssumption DEF Init, Outcome
<1>2. Outcome /\ [Next]_vars => Outcome'
  <2> SUFFICES ASSUME Outcome, [Next]_vars PROVE Outcome'
    OBVIOUS
  <2>1. CASE Next
    BY <2>1 DEF Next, Configure, Outcome, Locked
  <2>2. CASE UNCHANGED vars
    BY <2>2 DEF vars, Outcome
  <2> QED BY <2>1, <2>2
<1> QED BY <1>1, <1>2, PTL DEF Spec

\* A result that is ok was configured from accepted settings.
LEMMA OkOutcome ==
  ASSUME Outcome, Ok
  PROVE  /\ request \in Settings /\ Accepted(request) /\ Locked(request)
         /\ Got = Words(request)
BY DEF Outcome, Ok, Got, Refused, Configured

-----------------------------------------------------------------------------
(* Theorems: what a successful configuration has set                        *)

\* The rate is the requested one or the next, at every accepted rate.
THEOREM RateSafe == Spec => []RateClose
<1>1. Outcome => RateClose
  <2> SUFFICES ASSUME Outcome, Ok PROVE Got.rate \in request.rate..(request.rate + 1)
    BY DEF RateClose
  <2>1. request.rate \in RATES /\ Got.rate = SampleRate(request.rate)
    BY OkOutcome DEF Accepted, Valid, Words
  <2> QED BY <2>1, RateWord
<1> QED BY <1>1, OutcomeInvariant, PTL

\* The correction register holds minus the correction, at every accepted one.
THEOREM CorrectionSafe == Spec => []CorrectionSigned
<1>1. Outcome => CorrectionSigned
  <2> DEFINE n == request.ppm * PPM_ONE
             q == n \div MILLION
             h == PPM_WORD \div 2
  <2> SUFFICES ASSUME Outcome, Ok PROVE CorrectionSigned
    BY DEF CorrectionSigned
  <2>1. request.ppm \in -PPM_MAX..PPM_MAX /\ Got.correction = CorrectionWord(request.ppm)
    BY OkOutcome, Planned DEF Words
  <2>2. /\ PPM_MAX \in Nat /\ PPM_ONE \in Nat \ {0} /\ MILLION \in Nat \ {0}
        /\ PPM_WORD \in Nat \ {0} /\ PPM_WORD % 2 = 0 /\ h \in Nat
        /\ PPM_MAX * PPM_ONE <= MILLION * (h - 1)
    BY TuningAssumption
  <2>3. n \in Int /\ n <= MILLION * (h - 1) /\ -(MILLION * (h - 1)) <= n
    <3>1. PPM_ONE * request.ppm <= PPM_ONE * PPM_MAX /\ PPM_ONE * (-PPM_MAX) <= PPM_ONE * request.ppm
      BY <2>1, <2>2, TimesMonotone
    <3> QED BY <3>1, <2>1, <2>2
  <2>4. q \in Int /\ MILLION * q <= n /\ n < MILLION * q + MILLION
    <3> HIDE DEF n
    <3> QED BY <2>2, <2>3, DivMod
  <2>5. -h < q /\ q <= h
    <3>1. MILLION * q < MILLION * h /\ MILLION * (-h) < MILLION * q
      BY <2>2, <2>3, <2>4
    <3> QED BY <3>1, <2>2, <2>4, TimesMonotone
  <2>6. Got.correction = (-q) % PPM_WORD
    BY <2>1 DEF CorrectionWord
  <2> HIDE DEF q
  <2>7. Got.correction \in 0..(PPM_WORD - 1) /\ Signed(Got.correction, PPM_WORD) = -q
    BY <2>2, <2>4, <2>5, <2>6, TwosComplement
  <2>8. (-q) * MILLION + n \in 0..(MILLION - 1)
    BY <2>2, <2>3, <2>4
  <2> QED BY <2>2, <2>7, <2>8 DEF CorrectionSigned
<1> QED BY <1>1, OutcomeInvariant, PTL

\* The frequency mixer is told to shift down by what it must, or by its alias.
THEOREM IfSafe == Spec => []IfSigned
<1>1. Outcome => IfSigned
  <2> DEFINE hz == IF Direct(request) THEN request.hz ELSE IF_HZ
             crystal == Crystal(request.ppm)
             n == hz * NCO
             q == n \div crystal
             down == (-Got.if) % NCO
  <2> SUFFICES ASSUME Outcome, Ok PROVE IfSigned
    BY DEF IfSigned
  <2>1. request.ppm \in -PPM_MAX..PPM_MAX /\ Got.if = IfWord(hz, crystal)
    BY OkOutcome, Planned DEF Words
  <2>2. NCO \in Nat \ {0} /\ crystal \in Nat \ {0} /\ XTAL_HZ \in Nat
    BY <2>1, CrystalRange, TuningAssumption
  <2>3. hz \in Nat /\ hz < 2 * crystal
    <3>1. CASE Direct(request)
      <4>1. request.hz \in FREQUENCIES /\ request.hz < XTAL_HZ
        BY <3>1, OkOutcome DEF Accepted, Valid, Direct
      <4>2. request.hz \in Nat
        <5>1. request.hz \in 1..(VCO_MAX - IF_HZ)
          BY <4>1, TuningAssumption
        <5> QED BY <5>1, TuningAssumption
      <4> QED BY <3>1, <4>1, <4>2, <2>1, <2>2, CrystalRange
    <3>2. CASE ~Direct(request)
      BY <3>2, <2>1, CrystalRange, TuningAssumption
    <3> QED BY <3>1, <3>2
  <2> HIDE DEF hz, crystal
  <2>4. n \in Nat /\ n < crystal * (2 * NCO)
    <3>1. NCO * hz < NCO * (2 * crystal)
      BY <2>2, <2>3, TimesMonotone
    <3> QED BY <3>1, <2>2, <2>3
  <2>5. q \in Int /\ crystal * q <= n /\ n < crystal * q + crystal
    <3> HIDE DEF n
    <3> QED BY <2>2, <2>4, DivMod
  <2>6. q \in Nat /\ q < 2 * NCO
    <3>1. crystal * q < crystal * (2 * NCO) /\ crystal * 0 < crystal * (q + 1)
      BY <2>2, <2>4, <2>5
    <3> QED BY <3>1, <2>2, <2>5, TimesMonotone
  <2>7. down \in {q, q - NCO}
    <3> HIDE DEF q
    <3>1. Got.if = (-q) % NCO
      BY <2>1 DEF IfWord, q
    <3> QED BY <3>1, <2>2, <2>6, NegatedTwice
  <2> HIDE DEF n, q, down
  <2>8. \/ n - down * crystal \in 0..(crystal - 1)
        \/ n - down * crystal \in NCO * crystal..(NCO * crystal + crystal - 1)
    BY <2>2, <2>4, <2>5, <2>6, <2>7
  <2> QED BY <2>8 DEF IfSigned, n, down, hz, crystal
<1> QED BY <1>1, OutcomeInvariant, PTL

\* Resampler, clock correction and mixer are programmed with what was asked for.
THEOREM DemodulatorSafe == Spec => []DemodulatorWords
BY RateSafe, CorrectionSafe, IfSafe, PTL DEF DemodulatorWords

\* The words of the PLL fit their registers, and the reported frequency is the
\* one they make.
THEOREM ReportSafe == Spec => []ReportedIsProgrammed
<1>1. Outcome => ReportedIsProgrammed
  <2> DEFINE s == request
             crystal == Crystal(s.ppm)
             lo == Lo(s)
             n == Integer(lo, crystal)
  <2> SUFFICES ASSUME Outcome, Tuned PROVE ReportedIsProgrammed
    BY DEF ReportedIsProgrammed
  <2>1. /\ s \in Settings /\ Accepted(s) /\ Locked(s) /\ ~Direct(s)
        /\ Got = Words(s)
    BY OkOutcome DEF Tuned
  <2>2. /\ Got.integer = IntegerWord(n) /\ Got.sdm = Sdm(lo, crystal)
        /\ Got.divider = Divider(lo, s.fine, PowerRef(s)) /\ Got.hz = Frequency(s)
    BY <2>1 DEF Words
  <2>3. lo \in 1..VCO_MAX /\ crystal \in Nat \ {0} /\ n \in 13..63
    BY <2>1, Planned, CrystalRange
  <2>4. Got.sdm \in 0..(FRACTION - 1)
    BY <2>2, <2>3, LoClose
  <2>5. Got.integer \in 0..255 /\ DecodedInteger = n
    <3> DEFINE w == Got.integer
    <3>1. w = IntegerWord(n) /\ n \in 13..63
      BY <2>2, <2>3
    <3> HIDE DEF n, w
    <3>2. w \in 0..255 /\ 13 + 4 * (w % 64) + w \div 64 = n
      BY <3>1, IntegerDecoded
    <3> QED BY <3>2 DEF DecodedInteger, w
  <2>6. Got.divider \in 0..7
    BY <2>1, <2>2 DEF Locked, Locks
  <2>7. ActualLo(lo, crystal)
          = (2 * crystal * (DecodedInteger * FRACTION + Got.sdm))
              \div (FRACTION * (2 * Pow2(Div(lo))))
    BY <2>2, <2>5 DEF ActualLo
  <2>8. Got.hz = IF ActualLo(lo, crystal) > Offset(s) THEN ActualLo(lo, crystal) - Offset(s) ELSE 0
    BY <2>1, <2>2 DEF Frequency
  <2> QED BY <2>3, <2>4, <2>5, <2>6, <2>7, <2>8 DEF ReportedIsProgrammed
<1> QED BY <1>1, OutcomeInvariant, PTL

\* Rounding twice, to a step and to a Hz, stays within one of each.
LEMMA AliasClose ==
  ASSUME NEW hz \in Nat, NEW w \in Nat \ {0}, NEW c \in Nat \ {0}, NEW q, NEW a,
         q = (hz * w) \div c, a = (q * c) \div w
  PROVE  a \in Int /\ a <= hz /\ (hz - a) * w < c + w
<1> DEFINE n == hz * w
           m == q * c
<1>1. n \in Int /\ q = n \div c
  OBVIOUS
<1> HIDE DEF n
<1>2. q \in Int /\ c * q <= n /\ n < c * q + c
  BY <1>1, DivMod
<1>3. m \in Int /\ a = m \div w /\ m <= n /\ n < m + c
  BY <1>2
<1> HIDE DEF m
<1>4. a \in Int /\ w * a <= m /\ m < w * a + w
  BY <1>3, DivMod
<1>5. w * a <= w * hz /\ w * hz - w * a < c + w
  BY <1>3, <1>4 DEF n
<1>6. w * hz - w * a = (hz - a) * w
  <2>1. a \in Int /\ hz \in Int /\ w \in Int
    BY <1>4
  <2> QED BY ONLY <2>1, TimesDistributes
<1> QED BY <1>4, <1>5, <1>6, TimesMonotone

\* The radio is tuned at most one step, and one Hz, below the request.
THEOREM FrequencySafe == Spec => []FrequencyClose
<1>1. Outcome => FrequencyClose
  <2> DEFINE s == request
             crystal == Crystal(s.ppm)
             a == ActualLo(Lo(s), crystal)
             p == Pow2(Div(Lo(s)))
  <2> SUFFICES ASSUME Outcome, Ok PROVE FrequencyClose
    BY DEF FrequencyClose
  <2>1. s \in Settings /\ Accepted(s) /\ Locked(s) /\ Got.hz = Frequency(s)
    BY OkOutcome DEF Words
  <2>2. crystal \in Nat \ {0} /\ NCO \in Nat \ {0} /\ FRACTION \in Nat \ {0}
    BY <2>1, Planned, CrystalRange, TuningAssumption
  <2>3. s.hz \in Nat \ {0}
    <3>1. s.hz \in 1..(VCO_MAX - IF_HZ)
      BY <2>1, TuningAssumption DEF Accepted, Valid
    <3> QED BY <3>1, TuningAssumption
  <2>4. CASE Direct(s)
    <3>1. Got.hz = (((s.hz * NCO) \div crystal) * crystal) \div NCO
      BY <2>1, <2>4 DEF Frequency
    <3> HIDE DEF crystal
    <3>2. Got.hz <= s.hz /\ (s.hz - Got.hz) * NCO < crystal + NCO
      BY <2>2, <2>3, <3>1, AliasClose
    <3> QED BY <2>4, <3>2 DEF FrequencyClose, crystal
  <2>5. CASE ~Direct(s)
    <3>1. Lo(s) \in 1..VCO_MAX /\ Lo(s) = s.hz + Offset(s) /\ Offset(s) \in Nat
      BY <2>1, <2>5, Planned, TuningAssumption DEF Lo, Offset
    <3>2. /\ a \in Int /\ a <= Lo(s)
          /\ (Lo(s) - a) * (FRACTION * p) < crystal + FRACTION * p
      BY <2>2, <3>1, LoClose
    <3>3. Got.hz = IF a > Offset(s) THEN a - Offset(s) ELSE 0
      BY <2>1, <2>5 DEF Frequency
    <3>4. FRACTION * p \in Nat \ {0}
      <4>1. p \in Nat \ {0}
        BY <3>1, Halvings
      <4> HIDE DEF p
      <4> QED BY <4>1, <2>2, TimesPositive
    <3> DEFINE w == FRACTION * p
    <3> HIDE DEF a, w
    <3>5. Got.hz \in Nat /\ Got.hz <= s.hz /\ s.hz - Got.hz <= Lo(s) - a
      BY <2>3, <3>1, <3>2, <3>3
    <3>6. w * (s.hz - Got.hz) <= w * (Lo(s) - a)
      BY <2>3, <3>1, <3>2, <3>4, <3>5, TimesMonotone DEF w
    <3>7. (s.hz - Got.hz) * w < crystal + w
      BY <2>2, <2>3, <3>1, <3>2, <3>4, <3>5, <3>6 DEF w
    <3> QED BY <2>5, <3>5, <3>7 DEF FrequencyClose, w
  <2> QED BY <2>4, <2>5
<1> QED BY <1>1, OutcomeInvariant, PTL

\* gain_steps, for the numbers of its two steps.
LEMMA StepsClose ==
  ASSUME NEW db \in 0..(15 * Both)
  PROVE  LET lna   == GainSteps(db)[1]
             mixer == GainSteps(db)[2]
             rest  == db - (Lna * lna + (Both - Lna) * mixer)
         IN  lna \in 0..15 /\ mixer \in 0..15 /\ lna - mixer \in {0, 1} /\ rest \in 0..Lna
BY DEF GainSteps, FullSteps, HalfStep, Lna, Both

\* A manual gain is never exceeded and missed by an LNA step at most.
THEOREM GainSafe == Spec => []GainClose
<1>1. Outcome => GainClose
  <2> SUFFICES ASSUME Outcome, Tuned, request.gain # AutoGain PROVE GainClose
    BY DEF GainClose
  <2>1. Accepted(request) /\ ~Direct(request) /\ Got = Words(request)
    BY OkOutcome DEF Tuned
  <2>2. request.gain \in 0..GAIN_MAX
    BY <2>1 DEF Accepted, Valid
  <2>3. Got.gain = GainSteps(request.gain)
    BY <2>1 DEF Words
  <2>4. request.gain \in 0..(15 * Both)
    <3>1. GAIN_MAX \in Nat /\ GAIN_MAX <= 15 * Both
      BY TuningAssumption, RequestsAssumption
    <3> QED BY <2>2, <3>1 DEF Both
  <2> QED BY <2>3, <2>4, StepsClose DEF GainClose
<1> QED BY <1>1, OutcomeInvariant, PTL

\* Only an undivided VCO with a high tuning voltage refuses accepted settings.
THEOREM PlanSafe == Spec => []PlanExists
<1>1. Outcome => PlanExists
  <2> DEFINE s == request
             crystal == Crystal(s.ppm)
             ref == PowerRef(s)
  <2> SUFFICES ASSUME Outcome, result.status = "PllUnlocked" PROVE PlanExists
    BY DEF PlanExists
  <2>1. s \in Settings /\ Accepted(s) /\ ~Locked(s)
    BY DEF Outcome, Refused, Configured
  <2>2. s.fine \in 0..3 /\ ref \in 1..2
    BY <2>1 DEF Settings, PowerRef
  <2>3. crystal \in Nat \ {0} /\ s.ppm \in -PPM_MAX..PPM_MAX
    BY <2>1, Planned, CrystalRange
  <2>4. ASSUME NEW hz \in 1..VCO_MAX, Integer(hz, crystal) \in 13..63,
               ~Locks(hz, crystal, s.fine, ref)
        PROVE  Div(hz) = 0 /\ s.fine > ref
    <3>1. Div(hz) \in 0..6 /\ Divider(hz, s.fine, ref) \notin 0..7
      BY <2>3, <2>4, Halvings DEF Locks
    <3> QED BY <3>1, <2>2 DEF Divider
  <2>5. Locks(CALIBRATION, crystal, s.fine, ref)
    <3>1. CALIBRATION \in 1..VCO_MAX /\ 2 * CALIBRATION <= VCO_MAX
      BY TuningAssumption
    <3>2. Integer(CALIBRATION, crystal) \in 13..63
      BY <2>3, <3>1, CrystalRange, IntegerRange
    <3>3. Div(CALIBRATION) # 0
      <4>1. Pow2(0) = 1
        BY DEF Pow2
      <4>2. CALIBRATION \in Nat /\ VCO_MAX \in Nat /\ CALIBRATION # 0
        BY TuningAssumption
      <4> QED BY <4>1, <4>2, <3>1, Halvings
    <3> QED BY <3>1, <3>2, <3>3, <2>4
  <2>6. ~Direct(s) /\ ~Locks(Lo(s), crystal, s.fine, ref)
    BY <2>1, <2>5 DEF Locked
  <2>7. Div(Lo(s)) = 0 /\ s.fine > ref
    BY <2>1, <2>4, <2>6, Planned
  <2> QED BY <2>7 DEF PlanExists
<1> QED BY <1>1, OutcomeInvariant, PTL
===============================================================================
