-------------------------------- MODULE Tuning --------------------------------
(***************************************************************************)
(* The numbers of a configuration: the words the driver computes for PLL,  *)
(* resampler, IF mixer, sampling clock and gain, and the frequency and     *)
(* rate it reports back (rtl2832u.rs, tuners/mod.rs), behind the range     *)
(* checks of config.rs.                                                    *)
(*                                                                         *)
(* All of it is integer arithmetic that truncates, in 64 bits, and cuts    *)
(* the result to the width of a register.  The scale of every quantity is  *)
(* a constant: the theorems of TuningProofs are about all scales, the      *)
(* source's among them; the numbers behind the names below are its.        *)
(***************************************************************************)
EXTENDS Integers

CONSTANTS
  XTAL_HZ,      \* 28 800 000
  IF_HZ,        \* 3 570 000
  VCO_MAX,      \* 1 770 000 000: the largest frequency of the PLL
  FREQUENCIES,  \* 1..1 766 000 000, the range of frequency_hz
  RATES,        \* 900 001..3 200 000, the range of sample_rate_hz
  PPM_MAX,      \* 488, the bound of correction_ppm
  MILLION,      \* 1 000 000
  FRACTION,     \* 2^16: steps of the PLL's sigma-delta modulator
  NCO,          \* 2^22: steps of the IF mixer, and of the resampler
  RATIO_WORD,   \* 2^28: the resampler's register
  PPM_ONE,      \* 2^24: the clock correction's unit
  PPM_WORD,     \* 2^14: the clock correction's register
  CALIBRATION,  \* 56 000 000: the PLL's frequency in Tuner::calibrate
  GAIN_MAX,     \* 525: the largest manual gain, in tenths of a dB
  Requests      \* the settings to apply, and the radio they are applied to

VARIABLES request, result
vars == <<request, result>>

-----------------------------------------------------------------------------
(* Clock correction and sample rate                                         *)

\* corrected_crystal
Crystal(ppm) == (XTAL_HZ * (MILLION + ppm)) \div MILLION

\* Mutant of CorrectionWord: the correction is not negated.
CorrectionWordUnsigned(ppm) == ((ppm * PPM_ONE) \div MILLION) % PPM_WORD

\* correction_word: negated, in two's complement.
CorrectionWord(ppm) == (-((ppm * PPM_ONE) \div MILLION)) % PPM_WORD

\* sample_rate: the divider, a multiple of four,
Ratio(rate) == 4 * ((((XTAL_HZ * NCO) \div rate) % RATIO_WORD) \div 4)

\* and the rate it makes.
SampleRate(rate) == (XTAL_HZ * NCO) \div Ratio(rate)

\* if_word: the mixer shifts down, so it is negated as well.
IfWord(hz, crystal) == (-((hz * NCO) \div crystal)) % NCO

-----------------------------------------------------------------------------
(* The PLL                                                                  *)

Pow2(d) == <<1, 2, 4, 8, 16, 32, 64, 128>>[d + 1]

\* The number of halvings of the VCO frequency.
Div(hz) == CHOOSE d \in 0..6 : /\ Pow2(d) <= VCO_MAX \div hz
                               /\ d = 6 \/ VCO_MAX \div hz < Pow2(d + 1)
Vco(hz) == hz * 2 * Pow2(Div(hz))

Integer(hz, crystal) == Vco(hz) \div (2 * crystal)

\* Mutant of Sdm: the remainder is rounded up.
SdmUp(hz, crystal) == ((Vco(hz) % (2 * crystal)) * (FRACTION \div 2)) \div crystal + 1

\* The steps of the modulator for what is left of the VCO frequency.
Sdm(hz, crystal) ==
  LET sdm == ((Vco(hz) % (2 * crystal)) * (FRACTION \div 2)) \div crystal
  IN  IF sdm < FRACTION THEN sdm ELSE FRACTION - 1

ActualLo(hz, crystal) ==
  (2 * crystal * (Integer(hz, crystal) * FRACTION + Sdm(hz, crystal)))
    \div (FRACTION * (2 * Pow2(Div(hz))))

\* The divider register follows the measured tuning voltage of the VCO.
Divider(hz, fine, ref) ==
  Div(hz) + (IF fine < ref THEN 1 ELSE IF fine = ref THEN 0 ELSE -1)

\* Mutant of IntegerWord: the two parts of the word overlap.
IntegerWordOverlapping(n) == (n - 13) \div 4 + ((n - 13) % 4) * 8

IntegerWord(n) == (n - 13) \div 4 + ((n - 13) % 4) * 64

\* pll succeeds.
Locks(hz, crystal, fine, ref) ==
  /\ hz \in 1..VCO_MAX /\ crystal # 0
  /\ Divider(hz, fine, ref) \in 0..7
  /\ Integer(hz, crystal) \in 13..63

\* What the ranges and widths above must satisfy for the words to fit: the
\* ranges are as wide as they can be, or nearly so.
ASSUME TuningAssumption ==
  /\ {XTAL_HZ, IF_HZ, VCO_MAX, MILLION, FRACTION, NCO, RATIO_WORD, PPM_ONE, PPM_WORD,
      CALIBRATION} \subseteq Nat \ {0}
  /\ PPM_MAX \in Nat /\ GAIN_MAX \in Nat
  /\ FRACTION % 2 = 0 /\ PPM_WORD % 2 = 0
  /\ FREQUENCIES \subseteq 1..(VCO_MAX - IF_HZ) /\ 2 * XTAL_HZ + IF_HZ <= VCO_MAX
  /\ \A rate \in RATES : /\ rate \in Nat \ {0} /\ rate * (2 * rate + 3) <= XTAL_HZ * NCO
                         /\ (XTAL_HZ * NCO) \div rate < RATIO_WORD
  /\ PPM_MAX * PPM_ONE <= MILLION * (PPM_WORD \div 2 - 1)
  /\ 2 * CALIBRATION <= VCO_MAX
  /\ \A ppm \in -PPM_MAX..PPM_MAX :
       LET crystal == Crystal(ppm)
       IN  /\ XTAL_HZ < 2 * crystal /\ IF_HZ < 2 * crystal
           /\ 26 * crystal <= VCO_MAX /\ VCO_MAX < 64 * crystal
           /\ 13 * crystal <= 64 * XTAL_HZ /\ 13 * crystal <= 64 * CALIBRATION

-----------------------------------------------------------------------------
(* Gain                                                                     *)

\* Tenths of a dB of the LNA's and the mixer's steps, as gain_steps has them.
Lna  == 23
Both == 35

FullSteps(db) == IF db \div Both < 15 THEN db \div Both ELSE 15

\* Mutant of HalfStep: a half step beyond the last full one.
HalfStepBeyond(db) == IF db - Both * FullSteps(db) >= Lna - 1 THEN 1 ELSE 0

\* The comparison is one of f32: 16.3 - 4 * 3.5 is less than 2.3 in it, and so
\* for every later gain that is 2.3 dB above a full step.
HalfStep(db) ==
  LET rest == db - Both * FullSteps(db)
  IN  IF FullSteps(db) < 15 /\ (rest > Lna \/ (rest = Lna /\ FullSteps(db) < 4)) THEN 1 ELSE 0

\* gain_steps: LNA steps and mixer steps.
GainSteps(db) == <<FullSteps(db) + HalfStep(db), FullSteps(db)>>

-----------------------------------------------------------------------------
(* Configurations                                                           *)

AutoGain == -1

\* Settings and the radio they are applied to: its board, its tuner, the tuning
\* voltage that is measured, and whether the tuner is opened first.
Settings == [hz: Int, rate: Int, gain: Int, ppm: Int, direct: BOOLEAN,
             v4: BOOLEAN, r828d: BOOLEAN, fine: 0..3, opens: BOOLEAN]
ASSUME RequestsAssumption == Requests \subseteq Settings /\ GAIN_MAX <= 15 * Both

\* Settings::validate; `gain' is a manual gain or AutoGain.
Valid(s) ==
  /\ s.hz \in FREQUENCIES /\ s.rate \in RATES
  /\ s.gain \in {AutoGain} \cup 0..GAIN_MAX
  /\ s.ppm \in -PPM_MAX..PPM_MAX

\* Mutant of Accepted: a board without upconverter may tune below its range.
AcceptedLow(s) == Valid(s) /\ (s.v4 => ~s.direct)

\* Hardware::validate_device
Accepted(s) ==
  /\ Valid(s)
  /\ s.hz < XTAL_HZ /\ ~s.direct => s.v4
  /\ s.v4 => ~s.direct

Direct(s) == s.hz < XTAL_HZ /\ s.direct
Offset(s) == IF_HZ + (IF s.v4 /\ s.hz < XTAL_HZ THEN XTAL_HZ ELSE 0)
Lo(s)     == s.hz + Offset(s)
PowerRef(s) == IF s.r828d THEN 1 ELSE 2

\* The frequency that Hardware::configure_inner reports.
Frequency(s) ==
  LET crystal == Crystal(s.ppm)
      lo      == ActualLo(Lo(s), crystal)
  IN  IF Direct(s) THEN (((s.hz * NCO) \div crystal) * crystal) \div NCO
      ELSE IF lo > Offset(s) THEN lo - Offset(s) ELSE 0

\* The words of a configuration.
Words(s) ==
  LET crystal == Crystal(s.ppm) IN
  [correction |-> CorrectionWord(s.ppm),
   ratio      |-> Ratio(s.rate),
   if         |-> IfWord(IF Direct(s) THEN s.hz ELSE IF_HZ, crystal),
   integer    |-> IF Direct(s) THEN 0 ELSE IntegerWord(Integer(Lo(s), crystal)),
   sdm        |-> IF Direct(s) THEN 0 ELSE Sdm(Lo(s), crystal),
   divider    |-> IF Direct(s) THEN 0 ELSE Divider(Lo(s), s.fine, PowerRef(s)),
   gain       |-> IF Direct(s) \/ s.gain = AutoGain THEN <<0, 0>> ELSE GainSteps(s.gain),
   hz         |-> Frequency(s),
   rate       |-> SampleRate(s.rate)]
NoWords == [correction |-> 0, ratio |-> 0, if |-> 0, integer |-> 0, sdm |-> 0, divider |-> 0,
            gain |-> <<0, 0>>, hz |-> 0, rate |-> 0]

\* Before anything is written, after a PLL that was asked for the impossible,
\* and after a configuration.
Refused(reason) == [status |-> reason, words |-> NoWords]
Configured(s)   == [status |-> "ok", words |-> Words(s)]

\* A configuration that opens the tuner calibrates it first.
Locked(s) ==
  /\ s.opens => Locks(CALIBRATION, Crystal(s.ppm), s.fine, PowerRef(s))
  /\ Direct(s) \/ Locks(Lo(s), Crystal(s.ppm), s.fine, PowerRef(s))

\* Hardware::configure on a radio whose PLL locks where it can.  Nothing here
\* depends on an earlier call.
Configure(s) ==
  /\ result.status = "new"
  /\ result' =
       IF ~Accepted(s) THEN Refused("InvalidConfig")
       ELSE IF ~Locked(s) THEN Refused("PllUnlocked")
       ELSE Configured(s)
  /\ UNCHANGED request

Init == /\ request \in Requests
        /\ result = Refused("new")

Next == Configure(request)

Spec == Init /\ [][Next]_vars

-----------------------------------------------------------------------------
(* Properties of a configuration that succeeded                             *)

Ok     == result.status = "ok"
Got    == result.words
Tuned  == Ok /\ ~Direct(request)

\* How the tuner and the demodulator read their registers.
DecodedInteger == 13 + 4 * (Got.integer % 64) + Got.integer \div 64
Signed(w, word) == IF w < word \div 2 THEN w ELSE w - word

\* Every word fits its register, and the frequency that is reported is the
\* one the PLL makes of the words in its registers (pll and Applied).
ReportedIsProgrammed ==
  Tuned =>
    LET lo == Lo(request)
        made == (2 * Crystal(request.ppm) * (DecodedInteger * FRACTION + Got.sdm))
                  \div (FRACTION * (2 * Pow2(Div(lo))))
    IN  /\ DecodedInteger \in 13..63
        /\ Got.integer \in 0..255 /\ Got.sdm \in 0..(FRACTION - 1) /\ Got.divider \in 0..7
        /\ Got.hz = (IF made > Offset(request) THEN made - Offset(request) ELSE 0)

\* The radio is never tuned above the requested frequency, and less than one
\* step of the modulator, or of the IF mixer, below it (and the Hz that the
\* last division cuts off), on every board and for every correction.
FrequencyClose ==
  Ok => LET crystal == Crystal(request.ppm)
            steps   == IF Direct(request) THEN NCO ELSE FRACTION * Pow2(Div(Lo(request)))
        IN  /\ Got.hz <= request.hz
            /\ (request.hz - Got.hz) * steps < crystal + steps

\* The sample rate is the requested one or the next: neither the mask of the
\* divider's register nor its two missing bits are noticed at either end of
\* the accepted rates (sample_rate).
RateClose == Ok => Got.rate \in request.rate..(request.rate + 1)

\* In two's complement the correction register holds minus the correction, to
\* its last digit, up to the ends of the accepted range (correction_word).
CorrectionSigned ==
  Ok => LET error == Signed(Got.correction, PPM_WORD) * MILLION + request.ppm * PPM_ONE
        IN  Got.correction \in 0..(PPM_WORD - 1) /\ -MILLION < error /\ error < MILLION

\* The mixer's word, read as a negative one, is the frequency it must shift
\* down, in units of the corrected crystal; a frequency for direct sampling
\* just below the nominal crystal may be above the corrected one, and is then
\* its alias (if_word).
IfSigned ==
  Ok => LET hz      == IF Direct(request) THEN request.hz ELSE IF_HZ
            crystal == Crystal(request.ppm)
            rest    == hz * NCO - ((-Got.if) % NCO) * crystal
        IN  rest \in 0..(crystal - 1) \/ rest \in NCO * crystal..(NCO * crystal + crystal - 1)

\* What the demodulator is programmed with means what was asked for: the
\* resampler, the clock correction and the mixer (configure_inner).
DemodulatorWords == RateClose /\ CorrectionSigned /\ IfSigned

\* A manual gain is never exceeded, is less than a step or just one LNA step
\* above what is set, and fits the registers; LNA and mixer go up by turns.
GainClose ==
  Tuned /\ request.gain # AutoGain =>
    LET lna == Got.gain[1]
        mixer == Got.gain[2]
        rest == request.gain - (Lna * lna + (Both - Lna) * mixer)
    IN  lna \in 0..15 /\ mixer \in 0..15 /\ lna - mixer \in {0, 1} /\ rest \in 0..Lna

\* Whatever passes the range checks of Settings::validate and validate_device
\* has a plan for the PLL, on every board, with every correction and for the
\* calibration: only a tuning voltage above the reference refuses one, where
\* the VCO is not divided (pll).
PlanExists ==
  result.status = "PllUnlocked" => /\ Div(Lo(request)) = 0
                                   /\ request.fine > PowerRef(request)
===============================================================================
