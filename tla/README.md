# rtlsdr-nusb in TLA+

rtlsdr-nusb drives an RTL2832U radio with an R820T/R828D tuner over USB. A
program opens one `Device`, configures it, and reads samples from at most one
`RxStream` at a time; both are used blocking or asynchronously, from different
threads or tasks, natively or in a browser. What makes it hard is not the
arithmetic but that every operation is a sequence of control transfers each of
which may fail or be where the caller drops the future, that two handles share
one radio, and that receive buffers submitted before a stop complete after the
restart.

Paths below are those of the repository; line numbers are in `PROJECT.json`
("map": which definition stands for which lines).

## The system

| Part | State it keeps | Operations | Talks to |
| --- | --- | --- | --- |
| Session (`src/session.rs`) | lifecycle and stream claim (one mutex), the `Hardware` value (another mutex, `Option`), an atomic mirror of its validity | `lease`, `configure`, `initialize`, `receiver_mode`, `shutdown`, drop of a lease, of a claim, of the session | Hardware, held by Device and RxStream through an `Arc` |
| Device (`src/device.rs`) | the session, the last applied configuration | `open`, `configure` and setters, `rx_stream`, `shutdown`, drop | Session |
| Receiver (`src/rx/receiver.rs`) | the claim with the receiver state, the queue, the counters of earlier queues | `start`, `stop`, reads, `close`, drop | Session, Queue |
| Queue (`src/rx/queue.rs`) | eight buffers, the current one, how many completions to discard, counters | `initialize`, `pause`, `close`, `accept` under `poll_fill`/`wait_fill` | USB bulk endpoint |
| Conversion (`src/rx/processing.rs`) | offset into the current buffer | `process`, `reset` | Queue |
| Hardware (`src/rtl2832u.rs`) | tuner, `valid`, `receiving`, direct sampling | `configure`, `shutdown` | Com, Tuner |
| Tuner (`src/tuners/`) | shadow registers, crystal, antenna input | `detect`, `open`, `standby`, `set_gain`, `tune`, `calibrate`, `set_pll` | Com |
| Com (`src/protocol.rs`) | none | register, I2C, GPIO and receiver transfers | ControlBackend |
| USB (`src/usb/mod.rs`) | the claimed interface | control transfers, bulk endpoint | nusb |
| Discovery (`src/discovery.rs`) | a selector | `list`, `select`, lazily read strings | nusb |
| Configuration (`src/config.rs`) | settings | `validate`, builders | |
| Combinators (`src/maybe_future.rs`) | the future of an operation | `and_then`, `continue_with`, `defer`, `operation` | every operation |
| Errors, crate root | none | conversions | |

How they interact. Device and RxStream each hold an `Arc` of the session; the
last one to go runs `Session::drop`. An operation that talks to the radio takes
the `Hardware` out of its mutex (`lease`) and puts it back when the lease is
dropped, whatever ended the operation; who finds it taken gets `Busy`. The claim
is a third piece of state, changed under the lifecycle's mutex: `Held` from
`rx_stream` until the stream's close or cleanup has ended. The validity of the
hardware is mirrored in an atomic that reads and starts consult without a lock.
Reads never use the session's locks; they exchange buffers with the endpoint.

What is hard, and what correct means:

* **Session.** Interleavings of a device's and a stream's operations between any
  two transfers; an error, a dropped future, a dropped handle at any of them.
  Correct: the hardware is never lost or used twice; a stream owns the receiver
  alone; a shutdown excludes streams; the mirror never says valid for a
  configuration that was lost; the driver's idea of the radio (running, stopped,
  closed, configured as reported) agrees with the radio.
* **Receiver.** A start, stop or close that fails half way leaves queue,
  receiver mode and stream state in one of many combinations. Correct: whatever
  it is, stop, restart, close and drop lead back to a consistent one.
* **Queue and conversion.** Completions arrive in order but at any time, also
  after a stop. Correct: no stale data after a restart, no fresh data thrown
  away, no buffer lost, the offset always inside the current buffer, every
  completion counted.
* **Hardware and tuner.** Partial register sequences, and decisions taken from
  what the driver remembers of the chip. Correct: the I2C gate is closed after
  an error; a failed sequence is repeated completely; the memory agrees with the
  chip whenever it is relied on; a shutdown attempts every step.
* **Numeric words** (PLL, resampler, IF, ppm). Correct: within their register
  widths and within a step of the requested value over the accepted ranges.
* **Discovery.** Devices come and go and other programs open them between any
  two steps of `open`. Correct: what is opened is what was asked for, its
  descriptor is its own, an error names its cause, and wherever `open` ends, the
  interface is released and the receiver off if that is still possible.
* **Combinators.** Blocking and asynchronous execution are written twice.
  Correct: nothing happens before an operation is waited for or polled, both
  ways do the same in the same order, a continuation runs once and after its
  first operation is released.

The list of hazards with their lines and the properties that cover them is
"hazards" in `PROJECT.json`.

## The modules

| Module | What it models |
| --- | --- |
| `Session` | `session.rs` entire, and the operations of `device.rs`, `receiver.rs`, `rtl2832u.rs` and `queue.rs` that run under it, step by step |
| `DeviceLifecycle` | the promise: an exclusive owner, a receiver that runs only for one, a final shutdown |
| `SessionRefinement` | `Session` implements `DeviceLifecycle` |
| `RxQueue` | `queue.rs`, `processing.rs`, the reads and the counters of `receiver.rs` and `rx/mod.rs` |
| `Hardware` | `rtl2832u.rs` and `tuners/mod.rs`: configuration, shutdown and receiver mode by register fields |
| `Tuning` | the numbers of `rtl2832u.rs` and `tuners/mod.rs`: PLL, resampler, mixer, correction and gain words, behind the checks of `config.rs` |
| `MaybeFuture` | `maybe_future.rs`: blocking and polled execution of a tree of combinators |
| `Operations` | the constructors of `maybe_future.rs`, and operations of the driver put together with them |
| `Discovery` | `discovery.rs`, the builder of `device.rs`, `NusbTransport::open` and error kinds, on a bus that changes |
| `MCSession`, `MCHardware`, `MCTuning`, `MCMaybeFuture`, `MCDiscovery` | the instances for TLC |
| `SessionProofs`, `RadioProofs` | theorems about `Session`: leases, claim and shutdown, then the radio and the refinement of `DeviceLifecycle` |
| `RxQueueProofs`, `TuningProofs` | theorems about `RxQueue` and `Tuning` |
| `HardwareProofs` | theorems about `Hardware` |
| `DiscoveryProofs` | theorems about `Discovery`: interface, receiver and errors, descriptors, the selection |
| `MaybeFutureProofs` | theorems about `MaybeFuture`: order, release and results for every tree, laziness for every deferred one |
| `Induction` | least elements and induction over numbers, as lemmas about a set |

### Session

The actors are the streams and `Dev`. `Dev` stands for the future that opens the
device, then the `Device` handle, whose operations borrow it mutably and so
follow each other, and in the end the thread or task that runs `Session::drop`.
A stream's operations borrow it mutably as well; a dropped stream's cleanup
keeps running as the same actor, in phase `cleanup`, which on WebUSB is a
background task.

`phase[a]` is the operation actor a is in and `pc[a]` its next step; `res[a]` is
its result so far. An operation begins with an action named for it
(`StartBegin`, `ConfigureBegin`, ...), runs through steps shared by all of them
(`LeaseReceiver`, `LeaseBusy`, transfers, `LeaseStore`, `LeaseReturn`) and ends
with the action that runs what the code does with the result (`StartOnDone`,
`CleanupDone`, ...). A step is what happens between two points where another
thread can observe or change something: each mutex section, each atomic access,
each control transfer. `HardwareLease::drop` is therefore two steps and
`receiver_mode(true)` checks the flag in a step before it takes the lease.

A transfer ends `ok`, `err`, or `canceled` (the future is dropped there; not
possible in a cleanup or in `Session::drop`). After one that is not `ok` the
radio may or may not have executed it (`Effect`). Three registers of the radio
are modelled, those whose value the driver's promises are about: whether the
endpoint buffer streams, whether ADC and PLL are powered, and which complete
configuration is programmed. `configure` is grouped into the transfers of the
reinitialization (`ConfigureReset`), those of the configuration
(`ConfigureProgram`), the restored receiver (`Flush`, `On`) and the closing of
the gate (`ConfigureGate`), `shutdown` into receiver-off and all the rest:
within a group every failure has the same consequences for the session.

A read begins with `ensure_running` (`ReadBegin`), and ends with samples, by its
timeout, refused by a later poll or dropped (`ReadEnd`), or with a completion
that failed (`ReadFail`). In between the device may be configured or fail to be:
a blocking read checks the validity only when it begins, so that it may retire
its queue while the configuration is unknown. The samples are `RxQueue`'s.

Left out: which configurations `validate_device` rejects (any may be), device
metadata, the values of `actual_frequency_hz` and `actual_sample_rate_hz`.

### RxQueue

One stream, mutably borrowed by each of its calls, so that a call's control
transfers are one step with their possible results; the endpoint and the end of
a waiting read are what runs concurrently. `endpoint` is the sequence of
submitted buffers; the endpoint completes the oldest pending one at any moment,
with data only while the radio may stream. `old` marks buffers submitted before
the last pause: it is not in the code, and lets the properties speak of stale
data. Nor is `fates`, which counts the completions by what became of them
(discarded as old, accepted, bad, or accepted and given back by a pause) over
the whole life of the stream: the counters of the code move from a queue to the
stream when the queue is retired, and `fates` stays. Lengths and offsets are in
samples. `len` is any number of samples a
completion may carry; odd, empty or oversized completions are `bad`, like those
with an error or canceled. Left out: sample values, and `dropped_samples`.

### Hardware

A control sequence is one action, since its caller owns the hardware alone: that
is `LeaseConserved`, proved for `Session`. Inside the action it is a script, a
sequence of steps that write fields of the radio (`Radio`) or assign to the
driver (`Know`). `Ends` says where a script may end: complete, with an error
after the transfer that failed, or where its future is dropped. The rows of
`Tuner::standby` and all of `Hardware::shutdown` are tolerant: they go on after
a failure and report it at the end. Of the transfer that failed the radio may or
may not have taken notice.

`chip` is what the radio's fields hold, `driver` what the code believes: the
shadow registers of the tuner by field, the antenna input, the direct sampling
flag, whether a tuner was found. A tuner write sends the new bits of a register
together with the driver's copy of its others (`Sent`), reaches the tuner only
through an open repeater (`Deaf`, external), and updates the copy only when it
was `ok` (`Kept`). `Reg` says which fields share a register.

Fields that behave alike are one: `power` for all bits that only `open` and
`standby` write, `lnaMode` and `lnaStep` also for the mixer's, `fraction` for
three PLL registers. `Plan` is a stand-in for the register values computed
from a frequency, a number that differs where the frequency does: nothing here
depends on more than that, and the arithmetic of `pll` is in `Tuning`; the mux table, the band
limits and the bits of the antenna switch are the code's. A board whose USB
strings contradict its tuner is refused after detection like a failed detection
and is left out.

### Tuning

A behaviour applies one request: settings, and the board, tuner and measured
tuning voltage they meet. `Configure` refuses them as `Settings::validate` and
`validate_device` do, fails where the PLL has no plan, or ends with `Words`,
everything `configure_inner` computes. Truncating divisions, masks and the two's
complement of the registers are the code's. Unsigned 64-bit intermediate
products do not overflow over the accepted ranges and are plain integers. The
comparison of `gain_steps` is one of f32: which gains land on which side of a
2.3 dB half step was computed for each of the 526 tenths of a dB, and is the
condition on `FullSteps` in `HalfStep`. Gains between the tenths are left out.

Every scale is a constant, because the products of the source (a frequency in Hz
times 2^22) exceed the integers of TLC. `MCTuning` counts in kHz, with 2^9 steps
of the modulator, 2^16 of the mixer, and 100 ppm as the unit of correction; the
correction's unit 2^24 and its register 2^14 are the source's, so that the ends
of the accepted range have as little room as there. `TuningAssumption` is what
the theorems need of the scales; it holds for the numbers of the source, which
the declarations name, and for those of the instance, where TLC evaluates it.

### MaybeFuture

An operation is a tree of combinators over leaves, built the way the code builds
it: a combinator together with its first operation, what its continuation
returns when it runs. `Operations` has the constructors (`Ready`, `AndThen`,
`ContinueWith`, `Either`, `Defer`, `Operation`) and, put together with them as
the source does, a control transfer, an I2C read, opening a device and starting
a receiver; `MCMaybeFuture` runs these. The owner
either waits (`WaitFirst`, `WaitSecond`, ...), or converts and polls
(`PollCombinator`, `Release`, `PollSecond`, ...), or drops what it has; both
paths share the leaves. When the first operation of a polled combinator is ready
its future is dropped in one step (`self.first = None`), and the second is built
and converted in the next: between them, and if the order were the other way
round, the operation holds something else. A nusb transfer is submitted by being built, a system call of nusb
by being converted: that building is an effect is what `defer` and the laziness
of `continue_with` are there for. nusb's threads, its completions and the
executor are external (`Complete`, `Poll`). Left out: the types (`Send`, browser
or native), and `Ready`'s value beyond `ok` and `err`.

`Proper` says which trees are operations: every node but the root has one
parent, with a smaller number (a value owns its parts, and the parts of an
operation are finite); a combinator has a first operation, `and_then` and
`continue_with` a continuation, and only `continue_with` another one for an
error (`MaybeFutureAssumption`, evaluated by the run). It does not say that an
operation starts lazily. `control_in` and `control_out` of `ControlBackend` must
submit only when waited or polled (`usb/mod.rs:29`), nusb's submit when called,
and `NusbTransport` wraps both in `defer`; opening a device asks for strings
with eager requests of nusb that come to be inside continuations. Whether that
is enough is left to the trees as they are written: with `Defer(op) == op` the
run finds transfers that are submitted by an operation nobody has begun.

### Discovery

Several openers, each a builder and the future of its `open`, on a bus where
devices are attached and removed. An attachment is a device with a number, so
that a device that was replugged is not the one an opener found before.
`op[o].stage` is the next call to the operating system or transfer of o's
`open`; `selector`, `at` and `descriptor` are its data. `asked`, `seen`,
`faults` and `permitted` are not in the code: they record what the builder was
last asked for, the list the selection was taken from, which reads or shutdowns
failed, and what the user picked in the browser's dialog. The operating system
(what it lists, that a claim is exclusive, that a removal ends it) is external.
Configuring and shutting down the radio are one step each that switches the
receiver on, or tries to switch it off: their insides are those of `Session` and
`Hardware`. Left out: the USB speed and bus numbers of a descriptor, and the
wording of errors; of `Error` there is the kind and its context. A call to the
system on a device that is there, and free, may fail with any kind that
`Error::kind` passes through or sums up (`UsbFaults`), and so may the listing.

## What the runs check

| Run | Properties | Instance |
| --- | --- | --- |
| `session_safety` | nine invariants of `Session` | two streams, two configurations, symmetric |
| `session_liveness` | `OperationsEnd`, `LastOwnerFrees` | two streams, one configuration |
| `session_refines` | `ImplementsLifecycle` | two streams, two configurations |
| `session_drop` | `DropFreesClaim`, violated | one stream |
| `hardware_sequences` | six invariants of `Hardware` | two boards, four settings, two failed transfers in a call, one failed call between successful ones |
| `rxqueue_safety` | five invariants and `StatsStepwise` | three buffers of up to three samples, counters to two |
| `rxqueue_liveness` | `ReadAnswered` | the same without counters |
| `rxqueue_counters` | `DroppedNotDelivered`, violated | two buffers |
| `tuning_words` | five invariants of `Tuning` | about 21 000 requests around every limit, in kHz |
| `maybe_future` | four invariants of `MaybeFuture` and `Completes` | seven operations of the driver |
| `discovery_select` | `SelectedAsAsked`, `DescriptorTrue` | one builder in a browser, three devices, two calls on it, two changes of the bus |
| `discovery_open` | `Ownership`, `PoweredIsOwned`, `KindTellsCause` | two openers, two devices, two changes of the bus |

`Session`:

* `LeaseConserved`: neither errors nor dropped futures lose or double the
  hardware. `FinalOwnerFindsHardware`, that the `expect` of `Session::drop`
  holds, follows from it and is proved only.
* `FlagMirrorsHardware`: reads are never allowed on a configuration that the
  last operation lost.
* `ClaimConserved`, `ShutdownAlone`: one stream at a time; a shutdown excludes
  them and never meets `Busy` once it has begun.
* `QuietWhenStopped`: with no stream, or a stopped one, the radio does not
  stream and a later configure will not make it.
* `RunningStreamIsFed`: a running stream's radio streams whenever reads are
  allowed, also after failed and repeated reinitializations.
* `SnapshotIsProgrammed`: `Device::config` is what the radio holds whenever
  reads are allowed and the device is at rest.
* `ClosedIsDown`: a reported shutdown is complete, and final.
* `OperationsEnd`, `LastOwnerFrees`: no operation waits for another one.
* `ImplementsLifecycle`: the receiver is switched on only for a claim that is
  not available, and handed back only when off.

`RxQueue`:

* `DiscardIsOldPrefix`, `NoStaleDelivery`: exactly what was submitted before the
  last stop is discarded.
* `BuffersConserved`: the pool is complete in every state of a live queue.
* `OffsetInCurrent`: the conversion never underflows or skips samples.
* `CompletionsCounted`, `StatsStepwise`: through failed, rebuilt and closed
  queues the counters report each completion once, by what became of it, and no
  call makes one of them go back or jump.
* `ReadAnswered`: discarding ends.

`Hardware`:

* `SettingsHeld`, `ShadowMirrorsChip`: after any history, a configuration that
  was reported valid is in the registers, and the next one may rely on the
  copies.
* `TunerRestsWhenDirect`, `AntennaFollowsFrequency`: two decisions taken from
  remembered state (has the tuner to be put to sleep or opened, has the antenna
  switch to be written) are right although standby and opening change the chip
  behind that memory.
* `GateClosedOnReturn`: a call that returned, with or without an error, leaves
  the I2C repeater closed unless the closing itself failed.
* `PartsOffUnlessFailed`: one broken part does not keep a shutdown from
  switching off the others.

`Tuning`:

* `ReportedIsProgrammed`: the words fit their registers, and the frequency that
  is reported is the one the PLL makes of what its registers hold.
* `FrequencyClose`: it is at most the requested one, and less than a step below.
* `DemodulatorWords`: resampler, correction and mixer mean what was asked for,
  in two's complement, up to the ends of the accepted ranges.
* `GainClose`: a gain is not exceeded, and neither amplifier's register is.
* `PlanExists`: what passes validation has a plan for the PLL on every board;
  only the highest band, which is not divided, depends on the measured voltage.

`MaybeFuture`:

* `LazyUntilBegun`: an operation of the driver that is neither waited for nor
  polled has submitted no transfer, converted or not; a system call of nusb
  starts with the conversion, and not before it.
* `InProgramOrder`, `SameResult`: waiting and polling submit the same transfers
  in the order of the program and end with its result.
* `OneAtATime`: no two transfers of an operation are held together, not even
  while one poll goes on from the first operation to the second.
* `Completes`: no wakeup is lost.

`Discovery`:

* `SelectedAsAsked`: `list`, `request_permission` and `select` agree, after any
  calls on the builder and any change of the bus.
* `DescriptorTrue`: no string is another device's, and none is missing but for a
  failed read; so a board counts as a Blog V4 just if it is one.
* `Ownership`: whoever is between claim and release holds the interface, alone.
* `PoweredIsOwned`: a receiver that was switched on belongs to an open device or
  to one whose shutdown failed, wherever `open` ended or was dropped.
* `KindTellsCause`: `Busy` and `DeviceDisconnected` are reported, through any
  context, for that and nothing else.

Two disagreements with the documentation came up:

* `DropFreesClaim`. A stream retains the claim "until closed or dropped"
  (`src/rx/mod.rs:102`). The cleanup of a drop or of a failed close tries
  receiver-off once; if that fails, or is `Busy` because a `configure` is in
  flight, the claim becomes `CleanupRequired` and stays so until
  `Device::shutdown`. No stream exists and none can be made.
* `DroppedNotDelivered`. `buffers_dropped` is documented as completions "not
  delivered" (`src/rx/mod.rs:31`). A stop counts the current buffer as dropped;
  in raw mode that is the block the reader got last, in f32 mode one it has
  partly read.

### Bounds

Two streams are enough for contention: a third one could only be a second
claimant, which the claim treats like the first. Two configurations tell a new
one from an old one. Nothing in `Session` counts, so its state space is finite
without further bounds. `RxQueue` has three buffers, so that a pause can find
completed, pending and current ones together, and three samples, so that a
buffer can be partly read twice. `StatsBound` caps the counters (64 bits in the
code) by saturation; its value changes no behaviour.

`Hardware` has the two boards with an antenna switch, a Blog V4 and another
R828D (an R820T runs the same sequences without the switch), and settings on
both sides of each limit that selects a path (upconverter, direct sampling,
either antenna input, a notch band). `MaxFaults` bounds the failed transfers of
one call, two, so that an error and a failing cleanup meet. `MaxFailures` bounds
the failed calls between two successful configurations to one: the call after a
failed one reinitializes from scratch, whatever the failure left; with two, on
one board and with one failed transfer in a call, the run was also made and
passes.

`Tuning` needs no bound but its requests: every frequency where the number of
halvings, the antenna or the path changes, with its neighbours and a raster
between them, every correction and every gain with one beyond each end, and
every rate in kHz. `MaybeFuture` is finite. `MaxPlugs` bounds the changes of the bus to two,
a removal and a return, or a device attached before the one that was listed;
`MaxCalls` the calls on a builder to two, so that a later one replaces an
earlier one. The run on opening has no calls: both openers want the first
device.

### Fairness

`FairSpec` of `Session` gives weak fairness to the steps inside an operation,
not to beginning one: control transfers have a 500 ms timeout
(`src/protocol.rs:9`), blocking calls run on, and an executor polls a future
until it is done or dropped. `RxQueue` gives it to the endpoint, which completes
what was submitted as long as the radio streams, and to a reader that was woken.
`MaybeFuture` gives it to a call in progress, to the system, which ends every
transfer (at the latest with its timeout) and every system call, and to the
executor, which polls a task that was woken; to nobody who has not begun.
`Discovery`, `Hardware` and `Tuning` assume none.

## What is proved

Every theorem is about all values of the constants that satisfy the module's
named assumption.

`SessionProofs`, from `SessionAssumption` alone (`Dev` is not a stream,
`Unknown` not a configuration, some configuration exists):

* `TypeCorrect`: `Spec => []TypeOK`
* `LeaseSafe`: `Spec => []LeaseConserved`
* `MirrorSafe`: `Spec => []FlagMirrorsHardware`
* `ClaimSafe`: `Spec => []ClaimConserved`
* `ShutdownSafe`: `Spec => []ShutdownAlone`
* `FinalDropSafe`: `Spec => []FinalOwnerFindsHardware`

The argument is layered. `TypeOK` is inductive alone. `Located` says which steps
an operation consists of, so that an actor without an operation is not in the
middle of one. `LeaseInv` adds to `LeaseConserved` and `FlagMirrorsHardware`
that a lease between its two stores has already published the validity: without
it, returning the hardware would not re-establish the mirror. `ClaimInv` adds to
`ClaimConserved` that a device being opened has no claim yet and that a device
that is not open has no claim any more: without the first, the shutdown after a
failed open could meet a stream; without the second, the commit of a shutdown
could free a stream's claim. The theorems on shutdown and final drop are
consequences of these three.

`RadioProofs` adds, from the same assumption:

* `SnapshotSafe`: `Spec => []SnapshotIsProgrammed`
* `ClosedSafe`: `Spec => []ClosedIsDown`
* `QuietSafe`: `Spec => []QuietWhenStopped`
* `FedSafe`: `Spec => []RunningStreamIsFed`

Each is a layer on the one before. `SnapshotInv` says what a `configure` or an
initialization in flight has already programmed, at each of its steps, so that
the step that publishes a configuration publishes the one in the radio.
`ClosedInv` follows a shutdown from its receiver-off to its commit. `QuietInv`
and `FedInv` are about one flag of the driver and one of the radio, seen by two
actors: they say which of them may be ahead of the claim's state at which step
of a start, a stop, a cleanup and a reinitialization that restores the receiver.

It ends with `SessionImplementsLifecycle`: `Spec => ImplementsLifecycle`, with `OwnersAssumption` (the two owners that are no stream
are different). Every step keeps the abstract state (`Keeps`), or is the one
that reserves, begins or ends an ownership; that the claim in the code is the
owner of the abstraction rests on `ClaimInv` and `QuietInv`.

`RxQueueProofs`, from `QueueAssumption` (at least one buffer and one sample, and
the counters' bound is a number):

* `QueueTypeCorrect`: `Spec => []TypeOK`
* `BuffersSafe`: `Spec => []BuffersConserved`
* `DiscardSafe`: `Spec => []DiscardIsOldPrefix`
* `DeliverySafe`: `Spec => []NoStaleDelivery`
* `OffsetSafe`: `Spec => []OffsetInCurrent`
* `CountsSafe`: `Spec => []CompletionsCounted`
* `StatsSafe`: `Spec => StatsStepwise`

`QueueInv` is inductive: the buffers of a queue are in exactly one of its places
(`PoolInv`), those submitted before the last pause are the first of the
endpoint, as many as are still to be discarded (`MarkInv`), the offset belongs
to the current buffer and is zero in a stream that delivers whole ones
(`OffsetInv`), and the counters of the queue and of the stream, taken
together, are those of the history (`CompletionsCounted`), also where they
saturate: every step moves both alike or neither (`Tallied`), the retirement of
a queue included. The mark needs the pool: what is to be discarded is right
because no buffer is lost.

`DiscoveryProofs`, from `DiscoveryAssumption` (finitely many devices; `None` is
no opener, device, call or string; a call is one of the three a builder has, with
an index, a serial number or a pair of ids):

* `OwnershipSafe`: `Spec => []Ownership`
* `PoweredSafe`: `Spec => []PoweredIsOwned`
* `KindSafe`: `Spec => KindTellsCause`
* `DescriptorSafe`: `Spec => []DescriptorTrue`
* `SelectedSafe`: `Spec => []SelectedAsAsked`

`DiscoveryInv` says that a device is attached once and every attachment has a
number of its own (`BusInv`), that an opener past the selection has an
attachment that exists or existed (`OpInv`), so that a new one is nobody's; then
that the holder is the opener that is past the claim (`HolderInv`), and that one
of those is responsible for every receiver that is on (`PowerInv`). Each step of
an opener is summarised by the stage and attachment it sets (`Sets`), and one
lemma per part of the invariant does the rest. `StringInv` says at which stages
a missing string may still be unread, `HfInv` who has passed the check for a
Blog V4. `SelectionInv` has what the selection relies on: the selector is the one
the last call asked for (`Wanted`), the attachment is the one the selector picks
from the list that was seen (`Picked`), and an error of a selection is one of a
selector that picks nothing (`Found`). The position of an attachment in the list
is a cardinality; that it grows along the list (`IndexGrows`) makes at most one
attachment the asked one, and the first match is a least element.

`TuningProofs`, from `TuningAssumption` and `RequestsAssumption`, for every
scale and so for the numbers of the source:

* `DemodulatorSafe`, `ReportSafe`, `FrequencySafe`, `GainSafe`, `PlanSafe`:
  `Spec => []P` for the five invariants of the run.

The invariant is that a result is one of the three `Configure` can have; the
work is in lemmas on truncating division (what a quotient of a product, a nested
quotient and a remainder are bounded by), on the number of halvings, and on the
words read back from their registers.

`HardwareProofs`, from `HardwareAssumption` (only an R828D is a Blog V4; settings
have the types of `Settings`; a calibration reads one or two four-bit codes), for
every set of boards and configurations and every bound on failures:

* `HardwareInvariant`: `Spec => []HardwareInv`
* `ShadowHolds`: `Spec => []ShadowMirrorsChip`
* `SettingsHold`: `Spec => []SettingsHeld`
* `TunerRests`: `Spec => []TunerRestsWhenDirect`
* `AntennaFollows`: `Spec => []AntennaFollowsFrequency`
* `GateCloses`: `Spec => []GateClosedOnReturn`
* `PartsGoOff`: `Spec => []PartsOffUnlessFailed`

A call runs a script, so the theorems are first about scripts. A script's run is
a recursive function over its steps; `Course` and its companions say that it is
a trace, one effect after the other, and where it may stop. From there the
effect of a row of writes is one lemma for all rows (a field keeps its value or
has the one some step of the row wrote), and one more for each part of a
configuration: detection, opening, standby, the tuner's settings, the
demodulator's. `HardwareInv` says of the state between two calls that a board
that is ready holds the configuration that was requested (`Steady`), that what
the driver remembers has the shape the scripts rely on even after a failure
(`Shaped`), and that after a call of shutdown the session is not open any more. It is inductive because every script that ends without an error brings
`Steady` about from `Shaped` alone: that is the precise sense in which a failed
sequence is repeated completely.

`Induction` proves once what those arguments need: a set of numbers has a least
element (`LeastOf`), and a set that contains zero and, with a number, the next
one, contains all (`InductionOn`). The library's induction rule takes an
operator as its parameter, which the provers used here cannot instantiate; these
lemmas take a set instead and follow from the well-foundedness of the numbers.

`MaybeFutureProofs`, from `MaybeFutureAssumption` (`Trees` are operations in the
sense of `Proper`), for every operation that can be put together from the
combinators, whatever its size:

* `FlowHolds`: `Spec => [](ShapeInv /\ FlowInv)`
* `DeferredIsLazy`: `Spec /\ tree = Defer(op) => []LazyUntilBegun`, for every
  `op` that is `Proper`
* `InProgramOrderHolds`: `Spec => []InProgramOrder`
* `SameResultHolds`: `Spec => []SameResult`
* `OneAtATimeHolds`: `Spec => []OneAtATime`

The invariant has two layers. `ShapeInv` is about what is held: the nodes that
are held form one chain from the root (`Chain`), first the stack of `wait`, then
what is an operation or a future, each the first or the second operation of the
one before, which has been built with it (`Built`); and the call in progress is
made along that chain (`At`, `Ready`). That no `expect` fires is part of it, and
that at most one leaf is held that was submitted follows: a leaf can only be the
end of a chain (`LeafIsLast`). `FlowInv` relates this to the sequential program:
a second operation is the one the program goes on with after this result
(`Chosen`), what returns is what the program returns there (`Returned`), and
what was submitted is how the program's uses begin (`Used`, `Begins`). Neither
is enough alone: that a step submits just what the program uses next is because
what a held node waits for, the root waits for (`Frontier`), which needs both
the chain and the choice of each second operation on it.

`DeferredIsLazy` is about the constructor and not about a given tree: whatever
is deferred, with transfers at its root or none, the nodes built together with
`Defer(op)` are its `ready` and itself, and it takes the first step of a `wait`
or a `poll` to build `op`. It is the claim of `defer`, which the trees of the
driver rest on; for those trees as wholes `LazyUntilBegun` is model-checked.

Behind the steps are lemmas about trees and programs. A recursive function over
a tree is what its equation says (`TreeRecursion`), the uses of a program are
different leaves and all but the last have results (`ProgramTidy`), and another
result only makes programs go on, never changes what they have used or returned
(`ProgramGrows`). They are by induction from the leaves up or from the root down
(`KidInduction`, `ParentInduction`), again over a set of nodes in place of an
operator.

Only model-checked: liveness (`OperationsEnd`, `LastOwnerFrees`, `ReadAnswered`,
`Completes`), since the prover does not do fairness or ENABLED. All other
properties of the passing runs are proved, `LazyUntilBegun` in the form of
`DeferredIsLazy`.

## Plan

In this order:

1. `Session`, `DeviceLifecycle`, `SessionRefinement`, their runs; leases, claim
   and shutdown proved. *Done.*
2. `RxQueue` and its runs. *Done.*
3. `Hardware` and its run. *Done.*
4. `Tuning`, `MaybeFuture`, `Discovery` and their runs. *Done.*
5. Proofs: the four remaining invariants of `Session`, the refinement, the
   safety properties of `RxQueue`, the words of `Tuning`, `Discovery`. *Done.*
6. Proofs: the scripts of `Hardware`, the selection of `Discovery`. *Done.*
7. Proofs: `MaybeFuture`, by induction over its trees. *Done.*
8. `Receiver`: `Session` and `RxQueue` composed. Both have the receiver's part
   of start, stop and close, `Session` with the other actors, `RxQueue` with the
   buffers; the product would show that they fail in the same places.

## Not modelled

The encoding of requests (which bytes make a register or an I2C address),
wording and conversions of errors beyond their kind, the bits of a descriptor
that selection does not use (no state, no order); test support and examples.
Undetected device-side loss of samples cannot be observed by the driver, which
documents that.

## Running

    tlc -config MCSessionSafety.cfg MCSession
    tlc -config RxQueueSafety.cfg RxQueue
    tlc -config MCHardware.cfg MCHardware
    tlc -config MCTuning.cfg MCTuning
    tlc -config MCMaybeFuture.cfg MCMaybeFuture
    tlc -config MCDiscoveryOpen.cfg MCDiscovery
    tlapm SessionProofs.tla
    tlapm DiscoveryProofs.tla
    tlapm MaybeFutureProofs.tla

and so on for every run of `PROJECT.json` and every module of theorems.

`PROJECT.json` lists every run, the mutants that show each property can fail,
and the lines each definition translates.
