------------------------------- MODULE Hardware -------------------------------
(***************************************************************************)
(* The control sequences of the RTL2832U (rtl2832u.rs) and of its R82xx    *)
(* tuner (tuners/mod.rs) at the level of register fields: a complete       *)
(* configuration, a shutdown, and the receiver mode.                       *)
(*                                                                         *)
(* The driver never reads a tuner register back to modify it.  It keeps a  *)
(* copy of each (`shadow'), and a write of some bits sends the copy of the *)
(* others along.  Whether that, the antenna input it remembers and the     *)
(* direct sampling flag still agree with the chip after any history of     *)
(* failed, dropped and repeated sequences is what this module is about.    *)
(*                                                                         *)
(* A sequence is one action: whoever runs it owns the hardware alone       *)
(* (LeaseConserved of Session).  It is a script of transfers that ends     *)
(* where a transfer fails or the future is dropped; the transfer at the    *)
(* end may have reached the radio nevertheless.                            *)
(***************************************************************************)
EXTENDS Integers, Sequences, FiniteSets

CONSTANTS
  Boards,       \* [r828d, v4]: the tuner found, and whether the USB strings say Blog V4
  Configs,      \* Settings that Settings::validate accepts
  Replies,      \* [codes, retry]: what the tuner answers in calibration and locking
  MaxFaults,    \* failed transfers in one call
  MaxFailures   \* failed sequences since the last successful configuration

\* Manual gains are counted in steps; a second calibration code is read only
\* after an invalid first one.
ASSUME HardwareAssumption ==
  /\ Boards \subseteq [r828d : BOOLEAN, v4 : BOOLEAN]
  /\ \A b \in Boards : b.v4 => b.r828d
  /\ Configs \subseteq [hz : Nat, sampling : {"Off", "I", "Q"}, gain : Nat, bias : BOOLEAN,
                        ppm : Int, rate : Nat]
  /\ \A a \in Replies : /\ a.codes \in UNION {[1..n -> 0..15] : n \in 1..2}
                        /\ Len(a.codes) = 2 <=> a.codes[1] \in {0, 15}
                        /\ a.retry \in BOOLEAN
  /\ {MaxFaults, MaxFailures} \subseteq Nat

VARIABLES
  board,        \* the radio that is plugged in
  chip,         \* register fields of demodulator, tuner and GPIOs
  driver,       \* Tuner::shadow by field; tuner is Some (`known'), Tuner::input, Hardware::direct
  valid,        \* Hardware::valid
  receiving,    \* Hardware::receiving
  device,       \* DeviceLifecycle of the session that owns the hardware
  requested,    \* the settings of the last call of configure
  outcome,      \* the last call: its name, its result, the transfers that failed
  failures      \* see MaxFailures

vars == <<board, chip, driver, valid, receiving, device, requested, outcome, failures>>

-----------------------------------------------------------------------------
(* Registers                                                                *)

XTAL_HZ == 28800000
IF_HZ   == 3570000

\* Fields of the tuner and the register each is in.  `power' stands for the
\* bits that only open and standby write, `lnaMode' and `lnaStep' also for
\* the mixer's, `fraction' for the registers 0x14 to 0x16.
Reg == [antenna |-> 5, lnaMode |-> 5, lnaStep |-> 5, hf |-> 6, cap |-> 10, vga |-> 12,
        power |-> 15, divider |-> 16, vco |-> 18, fraction |-> 20, drain |-> 23,
        filter |-> 26, autotune |-> 26, corner |-> 27]
TunerFields == DOMAIN Reg
Registers   == <<5, 6, 10, 12, 15, 16, 18, 20, 23, 26, 27>>
Standbys    == <<6, 5, 10, 12, 15, 23>>
InRegister(r) == {f \in TunerFields : Reg[f] = r}

ChipFields   == TunerFields \cup {"streaming", "clock", "gate", "bias", "notHf", "adc", "spectrum",
                                  "branch", "agc", "ppm", "rate", "if"}
DriverFields == TunerFields \cup {"input", "known", "direct"}

\* c with the fields of w overwritten.
Over(w, c) == [f \in DOMAIN c |-> IF f \in DOMAIN w THEN w[f] ELSE c[f]]

\* Values of a field besides the ones a sequence computes.
Initial == -1    \* its bits in INITIAL
Asleep  == -2    \* its bits in STANDBY
Foreign == -3    \* whatever it had before the driver came
NoInput == -1    \* Tuner::input is None
AutoGain == 0    \* GainConfig::Auto; manual gains are LNA steps above

-----------------------------------------------------------------------------
(* Transfers                                                                *)

\* A step of a script: a write to the radio, or an assignment of the driver.
\* After a failed write a tolerant step lets the script go on.
Radio(w) == [to |-> "radio", set |-> w, tolerant |-> FALSE]
Know(w)  == [to |-> "driver", set |-> w, tolerant |-> FALSE]
Tolerant(s) == [i \in DOMAIN s |-> [s[i] EXCEPT !.tolerant = TRUE]]
Each(ws) == [i \in DOMAIN ws |-> Radio(ws[i])]
Read     == Radio([f \in {} |-> 0])
If(b, s) == IF b THEN s ELSE <<>>

\* The other fields of a tuner register.
Neighbours == [f \in TunerFields |-> {g \in TunerFields : Reg[g] = Reg[f]}]
Beside(w)  == (UNION {Neighbours[f] : f \in DOMAIN w \cap TunerFields}) \ DOMAIN w

\* What a tuner write sends: the new bits, and the copy of the others.
Sent(w, d) == [f \in DOMAIN w \cup Beside(w) |-> IF f \in DOMAIN w THEN w[f] ELSE d[f]]

\* Mutant of Kept: the new bits are stored without the others.
KeptUnmerged(w) == [f \in (DOMAIN w \cap TunerFields) \cup Beside(w) |->
                      IF f \in DOMAIN w THEN w[f] ELSE 0]

\* What Tuner::write stores in the copy once the transfer was ok.
Kept(w) == [f \in DOMAIN w \cap TunerFields |-> w[f]]

\* The tuner hears nothing while the I2C repeater is closed.
Deaf(c, w) == DOMAIN w \cap TunerFields # {} /\ c.gate = "closed"

\* One step of a script in m, a radio and a driver.
Step(m, st, failed, reached) ==
  IF st.to = "driver" THEN [chip |-> m.chip, driver |-> Over(st.set, m.driver)]
  ELSE [chip   |-> IF (failed /\ ~reached) \/ Deaf(m.chip, st.set) THEN m.chip
                   ELSE Over(Sent(st.set, m.driver), m.chip),
        driver |-> IF failed THEN m.driver ELSE Over(Kept(st.set), m.driver)]

\* The radio and the driver before the first and after each step of s, as
\* long as nothing fails.
Course(s) ==
  LET m[k \in 0..Len(s)] ==
        IF k = 0 THEN <<[chip |-> chip, driver |-> driver]>>
        ELSE LET done == m[k - 1]
             IN  Append(done, Step(done[k], s[k], FALSE, FALSE))
  IN  m[Len(s)]

\* The radio and the driver after s, which has the course cs, ended as e says.
Run(s, cs, e) ==
  LET first  == CHOOSE k \in e.failed : \A i \in e.failed : k <= i
      intact == IF e.failed = {} THEN e.last ELSE first - 1
      m[k \in intact..e.last] ==
        IF k = intact THEN cs[k + 1]
        ELSE Step(m[k - 1], s[k], k \in e.failed, k \in e.reached)
  IN  m[e.last]

Transfers(s) == {i \in DOMAIN s : s[i].to = "radio"}
TolerantIn(s) == {i \in Transfers(s) : s[i].tolerant}
Few(S) == {F \in SUBSET S : Cardinality(F) <= MaxFaults}

\* An end: the transfers that failed, the last step run, the result.
End(F, k, r) == [failed : {F}, reached : SUBSET F, last : {k}, result : {r}]

\* A transfer is where the future is dropped; tolerant ones before it in its
\* row of tolerant steps may have failed.
Canceled(s) == UNION {UNION {End(F \cup {k}, k, "canceled") :
                             F \in IF s[k].tolerant THEN Few({i \in TolerantIn(s) : i < k}) ELSE {{}}} :
                      k \in Transfers(s)}

Done(s) == End({}, Len(s), "ok")

\* Mutant of Errors: a tolerant step returns its error at once.
ErrorsAtOnce(s) == UNION {End({k}, k, "err") : k \in Transfers(s)}

\* Errors: of one transfer, or collected in the one row of tolerant steps.
Errors(s) ==
  LET T == TolerantIn(s) IN
  (UNION {End({k}, k, "err") : k \in Transfers(s) \ T})
    \cup (UNION {End(F, CHOOSE k \in T : \A i \in T : i <= k, "err") : F \in Few(T) \ {{}}})

Ends(s) == IF failures < MaxFailures THEN Done(s) \cup Canceled(s) \cup Errors(s) ELSE Done(s)

-----------------------------------------------------------------------------
(* The tuner                                                                *)

\* Mutant of NewTuner: Hardware::direct survives the reset.
NewTunerStillDirect == [f \in DriverFields \ {"direct"} |->
                          IF f = "input" THEN NoInput ELSE IF f = "known" THEN TRUE ELSE Initial]

\* After detection: a fresh Tuner, and not sampling directly.
NewTuner == Over([input |-> NoInput, known |-> TRUE, direct |-> FALSE],
                 [f \in DriverFields |-> Initial])

\* Mutant of Forget: Tuner::open keeps the antenna input.
ForgetNothing == [f \in {} |-> 0]

\* Tuner::open begins with an unknown antenna input.
Forget == [input |-> NoInput]

\* Tuner::set_pll: plan stands for the words of a frequency and a crystal,
\* retry is the second attempt to lock.  That the reads fail, or that the
\* second attempt does not lock, is like losing the write that follows.
SetPll(plan, retry) ==
  Each(<<[autotune |-> 0], [vco |-> 4], [divider |-> plan], [fraction |-> plan]>>) \o
  If(retry, Each(<<[vco |-> 3]>>)) \o Each(<<[autotune |-> 1]>>)

\* Tuner::calibrate: the code 15 counts as 0, invalid.
CalibrationCode(raw) == IF raw = 15 THEN 0 ELSE raw

\* The frequency Tuner::calibrate tunes the PLL to.
CALIBRATION_HZ == 56000000

Calibrate(codes) == If(Len(codes) = 2, SetPll(CALIBRATION_HZ, FALSE)) \o SetPll(CALIBRATION_HZ, FALSE)

\* Tuner::open
Open(codes) ==
  <<Know(Forget)>> \o
  Each([i \in DOMAIN Registers |-> [f \in InRegister(Registers[i]) |-> Initial]]) \o
  Calibrate(codes) \o
  Each(<<[cap |-> CalibrationCode(codes[Len(codes)])],
         [power |-> 1], [antenna |-> 0], [hf |-> 0]>>)

\* Tuner::standby goes on after a failed write.
Standby == Tolerant(Each([i \in DOMAIN Standbys |->
                            [f \in InRegister(Standbys[i]) |-> Asleep]]))

\* Tuner::set_gain
SetGain(gain) ==
  Each(IF gain = AutoGain THEN <<[lnaMode |-> 0], [vga |-> 11]>>
                      ELSE <<[lnaMode |-> 1], [vga |-> 8], [lnaStep |-> gain]>>)

\* STANDARD_MUX: from this local oscillator on, open drain, filter and corner.
STANDARD_MUX == <<
  <<0, 8, 2, 223>>, <<50000000, 8, 2, 190>>, <<55000000, 8, 2, 139>>, <<60000000, 8, 2, 123>>,
  <<65000000, 8, 2, 105>>, <<70000000, 8, 2, 88>>, <<75000000, 0, 2, 68>>, <<90000000, 0, 2, 52>>,
  <<110000000, 0, 2, 36>>, <<140000000, 0, 2, 20>>, <<180000000, 0, 2, 19>>, <<250000000, 0, 2, 17>>,
  <<280000000, 0, 2, 0>>, <<310000000, 0, 65, 0>>, <<588000000, 0, 64, 0>>>>

Upconvert(c) == IF board.v4 /\ c.hz < XTAL_HZ THEN XTAL_HZ ELSE 0
Lo(c) == c.hz + Upconvert(c) + IF_HZ
Mux(c) == LET i == CHOOSE i \in DOMAIN STANDARD_MUX :
                     /\ STANDARD_MUX[i][1] <= Lo(c)
                     /\ i = Len(STANDARD_MUX) \/ STANDARD_MUX[i + 1][1] > Lo(c)
          IN  STANDARD_MUX[i]

\* The V4's notch filters follow the antenna frequency.
Drain(c) == IF ~board.v4 THEN Mux(c)[2]
            ELSE IF \/ c.hz <= 2200000
                    \/ 85000000 <= c.hz /\ c.hz <= 112000000
                    \/ 172000000 <= c.hz /\ c.hz <= 242000000 THEN 0 ELSE 8

\* v4_input, and the inputs of other R828D boards
Input(c) == IF board.v4 THEN IF c.hz < XTAL_HZ THEN 2 ELSE IF c.hz < 250000000 THEN 1 ELSE 0
                        ELSE IF c.hz <= 345000000 THEN 1 ELSE 0
Hf(c) == board.v4 /\ Input(c) = 2

\* The antenna switch for an input: bits of register 5, bit of register 6, GPIO 5.
Switch(input) ==
  IF board.v4 THEN <<[hf |-> IF input = 2 THEN 8 ELSE 0],
                     [antenna |-> IF input = 0 THEN 0 ELSE IF input = 1 THEN 96 ELSE 32],
                     [notHf |-> input # 2]>>
              ELSE <<[antenna |-> IF input = 0 THEN 0 ELSE 96]>>

\* Stands for the words of a frequency with a correction: another word for
\* another frequency, and no arithmetic (that is Tuning's).
Plan(lo, ppm) == lo + ppm

\* Tuner::tune; `remembered' is Tuner::input at its begin.
Tune(c, remembered, retry) ==
  Each(<<[drain |-> Drain(c)], [filter |-> Mux(c)[3]], [corner |-> Mux(c)[4]]>>) \o
  SetPll(Plan(Lo(c), c.ppm), retry) \o
  If(board.r828d,
     If(Hf(c), Each(<<[filter |-> 64], [corner |-> 0]>>)) \o
     If(remembered # Input(c), Each(Switch(Input(c))) \o <<Know([input |-> Input(c)])>>))

-----------------------------------------------------------------------------
(* Hardware::configure                                                      *)

\* Hardware::validate_device
Accepted(c) == /\ c.hz < XTAL_HZ /\ c.sampling = "Off" => board.v4
               /\ board.v4 => c.sampling = "Off"
Direct(c) == c.hz < XTAL_HZ /\ c.sampling # "Off"

\* The reinitialization: receiver off, clocks, DEMOD_INIT, detection.
Reset ==
  Each(<<[streaming |-> FALSE], [clock |-> TRUE], [gate |-> "closed"],
         [spectrum |-> 0], [agc |-> 5], [branch |-> "I"], [gate |-> "open"]>>) \o
  <<Read, Know(NewTuner)>>

\* Mutant of OpenGate: the repeater is taken to be open.
OpenGateNot == <<>>

\* The repeater is opened again when nothing was reinitialized.
OpenGate == Each(<<[gate |-> "open"]>>)

\* The receive path: the ADC inputs for direct sampling, or the tuner.
Path(c) ==
  IF Direct(c)
  THEN Each(<<[adc |-> "both"], [spectrum |-> 0], [branch |-> c.sampling],
              [agc |-> IF c.gain = AutoGain THEN 37 ELSE 5]>>)
  ELSE Each(<<[adc |-> "tuner"], [spectrum |-> 1], [branch |-> "I"], [agc |-> 5]>>)
         \o SetGain(c.gain)

\* Hardware::configure_inner
ConfigureInner(c, reinitialize, codes, retry) ==
  LET before == IF reinitialize THEN Over(NewTuner, driver) ELSE driver
      opens  == reinitialize \/ (before.direct /\ ~Direct(c))
      opened == IF opens THEN Over(Forget, before) ELSE before
  IN  If(reinitialize, Reset) \o OpenGate \o
      If(opens, Open(codes)) \o
      If(Direct(c) /\ ~before.direct, Standby) \o
      Path(c) \o <<Know([direct |-> Direct(c)])>> \o
      Each(<<[ppm |-> c.ppm], [rate |-> c.rate]>>) \o
      If(~Direct(c), Tune(c, opened.input, retry)) \o
      Each(<<[if |-> Plan(IF Direct(c) THEN c.hz ELSE IF_HZ, c.ppm)],
             [gate |-> "closed"], [bias |-> c.bias]>>) \o
      If(reinitialize /\ receiving, Each(<<[streaming |-> FALSE], [streaming |-> TRUE]>>))

\* Mutant of Closes: an error returns before the repeater is closed.
ClosesAfterOk(result) == result = "ok"

\* The repeater is closed unless the future was dropped.
Closes(result) == result # "canceled"

\* How closing it goes after end e.
Closings(e) == IF Closes(e.result) /\ Cardinality(e.failed) < MaxFaults /\ failures < MaxFailures
               THEN {"ok", "lost", "reached"} ELSE {"ok"}

Fails(result) == IF result = "ok" THEN 0 ELSE failures + 1

Configure(c) ==
  /\ device = "Open"
  /\ Accepted(c)
  /\ \E a \in Replies :
       \E s \in {ConfigureInner(c, ~valid, a.codes, a.retry)} : \E cs \in {Course(s)} :
       \E e \in Ends(s) : \E close \in Closings(e) :
       \E m \in {Run(s, cs, e)} :
         LET result == IF e.result = "ok" /\ close # "ok" THEN "err" ELSE e.result IN
         /\ chip' = IF Closes(e.result) /\ close # "lost" THEN [m.chip EXCEPT !.gate = "closed"]
                                                          ELSE m.chip
         /\ driver' = m.driver
         /\ valid' = (result = "ok")
         /\ outcome' = [call |-> "configure", result |-> result,
                        failed |-> IF close = "ok" THEN {} ELSE {[gate |-> "closed"]}]
         /\ failures' = Fails(result)
  /\ requested' = c
  /\ UNCHANGED <<board, receiving, device>>

-----------------------------------------------------------------------------
(* Hardware::shutdown and the receiver mode                                 *)

\* Every part is attempted, only the tuner's standby needs the repeater.
ShutdownScript(gated) ==
  Tolerant(Each(<<[streaming |-> FALSE], [bias |-> FALSE]>>) \o
           If(driver.known, Each(<<[gate |-> "open"]>>) \o If(gated, Standby)) \o
           Each(<<[gate |-> "closed"], [clock |-> FALSE]>>))

Written(s, F) == {s[i].set : i \in F}

\* valid is cleared by the last statement, so that dropping the future leaves
\* it; receiving by the one after the receiver was switched off.
Shutdown ==
  /\ device # "Closed"
  /\ \E gated \in BOOLEAN :
       \E s \in {ShutdownScript(gated)} : \E cs \in {Course(s)} :
       \E e \in Ends(s) :
       \E m \in {Run(s, cs, e)} :
         LET failed == Written(s, e.failed) IN
         /\ [gate |-> "open"] \in failed => ~gated
         /\ gated \/ [gate |-> "open"] \in failed \/ ~driver.known
         /\ chip' = m.chip
         /\ driver' = m.driver
         /\ valid' = (e.result = "canceled" /\ valid)
         /\ receiving' = (e.result = "canceled" /\ e.last = 1 /\ receiving)
         /\ outcome' = [call |-> "shutdown", result |-> e.result, failed |-> failed]
         /\ failures' = Fails(e.result)
         /\ device' = IF e.result = "ok" THEN "Closed" ELSE "Closing"
  /\ UNCHANGED <<board, requested>>

\* Session::receiver_mode, refused without a configuration.
ReceiverMode(enabled) ==
  /\ device = "Open"
  /\ enabled => valid
  /\ receiving' = enabled
  /\ LET s == Each(<<[streaming |-> FALSE]>>) \o If(enabled, Each(<<[streaming |-> TRUE]>>)) IN
     \E e \in Ends(s) :
       chip' = Run(s, Course(s), e).chip
  /\ UNCHANGED <<board, outcome, driver, valid, device, requested, failures>>

-----------------------------------------------------------------------------
(* Specification                                                            *)

\* The radio as another program left it.
Left(on) == Over([streaming |-> on, clock |-> on, bias |-> on, notHf |-> on,
                  gate |-> IF on THEN "open" ELSE "closed", adc |-> "tuner", branch |-> "I"],
                 [f \in ChipFields |-> Foreign])

Init ==
  /\ board \in Boards
  /\ \E on \in BOOLEAN : chip = Left(on)
  /\ driver = Over([input |-> NoInput, known |-> FALSE, direct |-> FALSE],
                   [f \in DriverFields |-> Initial])
  /\ valid = FALSE
  /\ receiving = FALSE
  /\ device = "Open"
  /\ requested = CHOOSE c \in Configs : Accepted(c)
  /\ outcome = [call |-> "none", result |-> "ok", failed |-> {}]
  /\ failures = 0

Closed == device = "Closed" /\ UNCHANGED vars

Next == \/ \E c \in Configs : Configure(c)
        \/ Shutdown
        \/ \E enabled \in BOOLEAN : ReceiverMode(enabled)
        \/ Closed

Spec == Init /\ [][Next]_vars

-----------------------------------------------------------------------------
(* Properties                                                               *)

\* The hardware may be used with the settings last requested.
Ready == valid /\ device = "Open"

\* The copies of the tuner's registers are what the tuner holds whenever the
\* next configuration will rely on them, whatever failed before
\* (Tuner::write, tuners/mod.rs).
ShadowMirrorsChip == Ready => \A f \in TunerFields : driver[f] = chip[f]

\* A valid configuration is in effect in the demodulator and in the tuner,
\* also when the sequence skipped what it took to be set already
\* (Hardware::configure_inner).
SettingsHeld ==
  Ready =>
    LET c == requested IN
    /\ chip.ppm = c.ppm /\ chip.rate = c.rate /\ chip.bias = c.bias
    /\ IF Direct(c)
       THEN /\ chip.adc = "both" /\ chip.spectrum = 0 /\ chip.branch = c.sampling
            /\ chip.agc = IF c.gain = AutoGain THEN 37 ELSE 5
            /\ chip.if = Plan(c.hz, c.ppm)
       ELSE /\ chip.adc = "tuner" /\ chip.spectrum = 1 /\ chip.branch = "I" /\ chip.agc = 5
            /\ chip.if = Plan(IF_HZ, c.ppm)
            /\ chip.divider = Plan(Lo(c), c.ppm) /\ chip.fraction = chip.divider
            /\ chip.autotune = 1
            /\ <<chip.filter, chip.corner>> = IF Hf(c) THEN <<64, 0>> ELSE <<Mux(c)[3], Mux(c)[4]>>
            /\ chip.drain = Drain(c)
            /\ chip.lnaMode = IF c.gain = AutoGain THEN 0 ELSE 1
            /\ c.gain # AutoGain => chip.lnaStep = c.gain

\* The tuner sleeps exactly while sampling directly: entering and leaving it
\* is decided from Hardware::direct (rtl2832u.rs, configure_inner).
TunerRestsWhenDirect ==
  Ready => \A i \in DOMAIN Standbys : \A f \in InRegister(Standbys[i]) :
             (chip[f] = Asleep) <=> Direct(requested)

\* The antenna switch is at the input for the frequency although it is only
\* written when the remembered input differs (Tuner::tune).
AntennaFollowsFrequency ==
  Ready /\ board.r828d /\ ~Direct(requested) =>
    \A i \in DOMAIN Switch(Input(requested)) :
      \A f \in DOMAIN Switch(Input(requested))[i] : chip[f] = Switch(Input(requested))[i][f]

\* "Always close the repeater on returned errors" (rtl2832u.rs:103): unless
\* the future was dropped or the closing itself failed.
GateClosedOnReturn ==
  /\ outcome.call \in {"configure", "shutdown"}
  /\ outcome.result # "canceled"
  /\ [gate |-> "closed"] \notin outcome.failed
  => chip.gate = "closed"

\* A shutdown that returned has switched off every part whose own transfer
\* did not fail, whatever happened to the others (Hardware::shutdown: "Bias
\* cleanup is independent of tuner health").
PartsOffUnlessFailed ==
  outcome.call = "shutdown" /\ outcome.result # "canceled" =>
    /\ [streaming |-> FALSE] \notin outcome.failed => ~chip.streaming
    /\ [bias |-> FALSE] \notin outcome.failed => ~chip.bias
    /\ [clock |-> FALSE] \notin outcome.failed => ~chip.clock
    /\ driver.known /\ [gate |-> "open"] \notin outcome.failed =>
         \A i \in DOMAIN Standbys :
           LET row == [f \in InRegister(Standbys[i]) |-> Asleep] IN
           row \notin outcome.failed => \A f \in DOMAIN row : chip[f] = Asleep

=============================================================================
