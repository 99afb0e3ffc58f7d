------------------------------- MODULE MCTuning -------------------------------
(***************************************************************************)
(* Tuning with frequencies in kHz, so that no product leaves the integers  *)
(* of TLC: XTAL_HZ * NCO is 2^16 * 28800.  The clock correction is in      *)
(* units of 100 ppm and has the source's unit and register, which leave it *)
(* as little room at the ends: one unit more would not fit.                *)
(***************************************************************************)
EXTENDS Tuning

Edges(S) == UNION {{x - 1, x, x + 1} : x \in S}

\* Where the number of halvings changes, the ends of the range, the crystal,
\* the IF and the antenna bands, and a frequency every StepHz.
StepHz == 9001
Halvings == {VCO_MAX \div Pow2(d) : d \in 0..6}
Frequencies == Edges(Halvings \cup {h - IF_HZ : h \in Halvings} \cup {0, 1, 1766000, XTAL_HZ, 250000})
                 \cup {StepHz * i : i \in 1..196}

MCFrequencies == 1..1766000
MCRates == 901..3200

Base == [hz |-> 100000, rate |-> 2048, ppm |-> 0, gain |-> AutoGain, direct |-> FALSE,
         v4 |-> FALSE, r828d |-> FALSE, fine |-> 1, opens |-> TRUE]

Tunings == {[Base EXCEPT !.hz = hz, !.ppm = ppm, !.direct = b.direct, !.v4 = b.v4, !.r828d = b.r828d,
                         !.fine = fine, !.opens = FALSE] :
              hz \in Frequencies, ppm \in {-4, 0, 3}, fine \in 0..3,
              b \in {[direct |-> d, v4 |-> v, r828d |-> r] : d \in BOOLEAN, v \in BOOLEAN, r \in BOOLEAN}}
Corrections == {[Base EXCEPT !.ppm = ppm, !.hz = hz, !.direct = d] :
                  ppm \in -(PPM_MAX + 1)..(PPM_MAX + 1), hz \in (28785..28800) \cup {100000}, d \in BOOLEAN}
Rates == {[Base EXCEPT !.rate = rate] : rate \in 900..3201}
Gains == {[Base EXCEPT !.gain = gain] : gain \in -1..(GAIN_MAX + 1)}

MCRequests == {s \in Tunings : s.v4 => s.r828d} \cup Corrections \cup Rates \cup Gains
===============================================================================
