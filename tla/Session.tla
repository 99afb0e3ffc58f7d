------------------------------- MODULE Session -------------------------------
(***************************************************************************)
(* Device ownership of the rtlsdr-nusb driver: src/src/session.rs with the *)
(* operations of device.rs, rx/receiver.rs and rtl2832u.rs that run under  *)
(* it.                                                                     *)
(*                                                                         *)
(* One public Device and any number of successive RxStreams share an       *)
(* Arc<Session>.  The session holds three things behind separate locks:    *)
(* the lifecycle and the exclusive stream claim (`device', `claim'), the   *)
(* Hardware value, which an operation takes out of its mutex for as long   *)
(* as it talks to the radio (`slot' is Some or None), and an atomic mirror *)
(* of Hardware::valid (`flag').  An operation is a sequence of steps of    *)
(* its actor; between two steps any other actor may run.  Every control    *)
(* transfer may succeed, fail, or be where its future is dropped; a        *)
(* transfer that did not succeed may still have reached the radio.         *)
(***************************************************************************)
CONSTANTS
  Streams,   \* RxStream handles; each may be reused for a later claim
  Configs,   \* complete configurations accepted by Settings::validate
  Dev,       \* the Device handle, the future that opens it, and Session::drop
  Unknown    \* no configuration

ASSUME SessionAssumption ==
  /\ Dev \notin Streams
  /\ Unknown \notin Configs
  /\ Configs # {}

Actors == Streams \cup {Dev}

VARIABLES
  device,      \* DeviceLifecycle
  claim,       \* ClaimAvailability
  slot,        \* Session::hardware is Some
  flag,        \* Session::configuration_valid
  valid,       \* Hardware::valid
  receiving,   \* Hardware::receiving
  reinit,      \* `reinitialize' of the configure that holds the lease
  streaming,   \* radio: the USB endpoint buffer runs (0x2148 = 0)
  power,       \* radio: ADC and PLL powered (0x3000 = 0xe8)
  programmed,  \* radio: the configuration its registers hold
  phase,       \* the operation each actor is in
  pc,          \* the next step of that operation
  res,         \* Result of that operation so far
  receiver,    \* RxStreamClaim::receiver
  queue,       \* Receiver::queue: None, new, or initialized
  target,      \* the proposed configuration
  snapshot     \* Device::config

shared   == <<device, claim>>
hardware == <<valid, receiving, reinit>>
radio    == <<streaming, power, programmed>>
stream   == <<receiver, queue>>
config   == <<target, snapshot>>
control  == <<phase, pc, res>>
vars     == <<shared, slot, flag, hardware, radio, control, stream, config>>

-----------------------------------------------------------------------------
(* Steps                                                                    *)

StreamPhases == {"absent", "idle", "read", "startOff", "startOn", "startHalt",
                 "startFallback", "stop", "close", "cleanup"}
DevPhases    == {"open", "openFailed", "idle", "configure", "shutdown",
                 "gone", "final", "freed"}
Configuring  == phase[Dev] \in {"open", "configure"}
ShuttingDown == phase[Dev] \in {"openFailed", "shutdown"}

\* The steps during which the actor owns a HardwareLease.
LeaseSteps == {"off", "flush", "on", "reset", "program", "gate",
               "quiesce", "powerdown", "commit", "store", "return"}
InLease(a) == pc[a] \in LeaseSteps

\* A dropped stream's cleanup and the final owner's shutdown are not futures
\* the caller can drop; every other operation is.
Outcomes(a) == IF phase[a] \in {"cleanup", "final"} THEN {"ok", "err"}
                                                    ELSE {"ok", "err", "canceled"}

\* What a register may hold after a write with outcome r.
Effect(r, old, new) == IF r = "ok" THEN {new} ELSE {old, new}

\* a takes step p next.
Goto(a, p) == pc' = [pc EXCEPT ![a] = p]

\* a begins operation ph at step p.
Begin(a, ph, p) == /\ phase' = [phase EXCEPT ![a] = ph]
                   /\ Goto(a, p)
                   /\ res' = [res EXCEPT ![a] = "ok"]

\* a's operation is over and leaves it in ph.
Finish(a, ph) == Begin(a, ph, "idle")

\* a's transfer ended with r.  An error returns from the operation, through
\* the closing of the I2C gate when it is a configure; a drop of the future
\* runs nothing but HardwareLease::drop.
After(a, r, next) ==
  /\ \/ r = "ok" /\ Goto(a, next)
     \/ r = "err" /\ Goto(a, IF a = Dev THEN "gate" ELSE "store")
     \/ r = "canceled" /\ Goto(a, "store")
  /\ res' = [res EXCEPT ![a] = r]
  /\ UNCHANGED phase

-----------------------------------------------------------------------------
(* The lease of the hardware                                                *)

\* Mutant of Take: the Option is cloned instead of taken.
TakeCopy(a, p) == /\ pc[a] = "lease"
                  /\ slot
                  /\ slot' = slot
                  /\ Goto(a, p)

\* Session::lease: take the Option<Hardware> out of its mutex.
Take(a, p) == /\ pc[a] = "lease"
              /\ slot
              /\ slot' = FALSE
              /\ Goto(a, p)

\* Mutant of LeaseBusy: wait for the hardware instead of returning an error.
LeaseWait(a) ==
  /\ pc[a] = "lease"
  /\ ~slot
  /\ UNCHANGED vars

\* It was None: Error::Busy.
LeaseBusy(a) ==
  /\ pc[a] = "lease"
  /\ ~slot
  /\ Goto(a, "done")
  /\ res' = [res EXCEPT ![a] = "err"]
  /\ UNCHANGED <<shared, slot, flag, hardware, radio, phase, stream, config>>

\* Mutant of LeaseStore: a dropped future does not publish that the
\* configuration was lost.
LeaseStoreReturned(a) ==
  /\ pc[a] = "store"
  /\ flag' = IF res[a] = "canceled" THEN flag ELSE valid
  /\ Goto(a, "return")
  /\ UNCHANGED <<shared, slot, hardware, radio, phase, res, stream, config>>

\* HardwareLease::drop, in its two separate stores: the mirror of valid ...
LeaseStore(a) ==
  /\ pc[a] = "store"
  /\ flag' = valid
  /\ Goto(a, "return")
  /\ UNCHANGED <<shared, slot, hardware, radio, phase, res, stream, config>>

\* ... and then the hardware.
LeaseReturn(a) ==
  /\ pc[a] = "return"
  /\ slot' = TRUE
  /\ Goto(a, "done")
  /\ UNCHANGED <<shared, flag, hardware, radio, phase, res, stream, config>>

-----------------------------------------------------------------------------
(* Session::receiver_mode                                                   *)

Enabling(s) == phase[s] = "startOn"

\* ensure_configured, before receiver_mode(true) takes the lease.
Check(s) ==
  /\ pc[s] = "check"
  /\ IF device = "Open" /\ flag
       THEN Goto(s, "lease") /\ UNCHANGED res
       ELSE Goto(s, "done") /\ res' = [res EXCEPT ![s] = "err"]
  /\ UNCHANGED <<shared, slot, flag, hardware, radio, phase, stream, config>>

\* The intent is recorded in the hardware before the first transfer.
LeaseReceiver(s) ==
  /\ Take(s, IF Enabling(s) THEN "flush" ELSE "off")
  /\ receiving' = Enabling(s)
  /\ UNCHANGED <<shared, flag, valid, reinit, radio, phase, res, stream, config>>

\* Com::receiver(false)
Off(s) ==
  /\ pc[s] = "off"
  /\ \E r \in Outcomes(s) :
       /\ streaming' \in Effect(r, streaming, FALSE)
       /\ After(s, r, "store")
  /\ UNCHANGED <<shared, slot, flag, hardware, power, programmed, stream, config>>

\* Com::receiver(true) flushes the endpoint buffer ...
Flush(a) ==
  /\ pc[a] = "flush"
  /\ \E r \in Outcomes(a) :
       /\ streaming' \in Effect(r, streaming, FALSE)
       /\ After(a, r, "on")
  /\ UNCHANGED <<shared, slot, flag, hardware, power, programmed, stream, config>>

\* ... and then lets it run.
On(a) ==
  /\ pc[a] = "on"
  /\ \E r \in Outcomes(a) :
       /\ streaming' \in Effect(r, streaming, TRUE)
       /\ After(a, r, IF a = Dev THEN "gate" ELSE "store")
  /\ UNCHANGED <<shared, slot, flag, hardware, power, programmed, stream, config>>

-----------------------------------------------------------------------------
(* Device::configure and the setters: Session::configure under Device::update *)

ConfigureBegin(c) ==
  /\ phase[Dev] = "idle"
  /\ device = "Open"
  /\ Begin(Dev, "configure", "lease")
  /\ target' = c
  /\ UNCHANGED <<shared, slot, flag, hardware, radio, stream, snapshot>>

\* Hardware::validate_device rejects the configuration and leaves the hardware
\* as it was, or the hardware is invalid until the whole sequence succeeded.
LeaseConfigure ==
  /\ Configuring
  /\ \/ /\ Take(Dev, "store")
        /\ res' = [res EXCEPT ![Dev] = "err"]
        /\ UNCHANGED hardware
     \/ /\ Take(Dev, IF valid THEN "program" ELSE "reset")
        /\ valid' = FALSE
        /\ reinit' = ~valid
        /\ UNCHANGED <<res, receiving>>
  /\ UNCHANGED <<shared, flag, radio, phase, stream, config>>

\* The power, demodulator and tuner initialization of a reinitialization.
ConfigureReset ==
  /\ pc[Dev] = "reset"
  /\ \E r \in Outcomes(Dev) :
       /\ streaming' \in Effect(r, streaming, FALSE)
       /\ power' \in Effect(r, power, TRUE)
       /\ After(Dev, r, "program")
  /\ programmed' = Unknown
  /\ UNCHANGED <<shared, slot, flag, hardware, stream, config>>

\* Mutant of ConfigureProgram: a reinitialization leaves the receiver off.
ConfigureProgramOnly ==
  /\ pc[Dev] = "program"
  /\ \E r \in Outcomes(Dev) :
       /\ programmed' = IF r = "ok" THEN target ELSE Unknown
       /\ After(Dev, r, "gate")
  /\ UNCHANGED <<shared, slot, flag, hardware, streaming, power, stream, config>>

\* Every other register; a reinitialization restores a running receiver.
ConfigureProgram ==
  /\ pc[Dev] = "program"
  /\ \E r \in Outcomes(Dev) :
       /\ programmed' = IF r = "ok" THEN target ELSE Unknown
       /\ After(Dev, r, IF reinit /\ receiving THEN "flush" ELSE "gate")
  /\ UNCHANGED <<shared, slot, flag, hardware, streaming, power, stream, config>>

\* i2c_gate(false) runs after a returned error as well.
ConfigureGate ==
  /\ pc[Dev] = "gate"
  /\ \E r \in Outcomes(Dev) :
       /\ res' = [res EXCEPT ![Dev] = IF r = "ok" THEN @ ELSE r]
       /\ valid' = (res'[Dev] = "ok")
  /\ Goto(Dev, "store")
  /\ UNCHANGED <<shared, slot, flag, receiving, reinit, radio, phase, stream, config>>

\* Mutant of ConfigureDone: the snapshot moves on an error as well.
ConfigureDoneAlways ==
  /\ phase[Dev] = "configure"
  /\ pc[Dev] = "done"
  /\ snapshot' = target
  /\ Finish(Dev, "idle")
  /\ UNCHANGED <<shared, slot, flag, hardware, radio, stream, target>>

\* Only a success moves the snapshot.
ConfigureDone ==
  /\ phase[Dev] = "configure"
  /\ pc[Dev] = "done"
  /\ snapshot' = IF res[Dev] = "ok" THEN target ELSE snapshot
  /\ Finish(Dev, "idle")
  /\ UNCHANGED <<shared, slot, flag, hardware, radio, stream, target>>

\* Session::initialize: the Device exists once its first configure succeeded;
\* a failure shuts the session down, a dropped future just drops it.
OpenDone ==
  /\ phase[Dev] = "open"
  /\ pc[Dev] = "done"
  /\ \/ /\ res[Dev] = "ok"
        /\ Finish(Dev, "idle")
        /\ snapshot' = target
        /\ UNCHANGED device
     \/ /\ res[Dev] = "err"
        /\ Begin(Dev, "openFailed", "lease")
        /\ device' = "Closing"
        /\ UNCHANGED snapshot
     \/ /\ res[Dev] = "canceled"
        /\ Finish(Dev, "gone")
        /\ UNCHANGED <<device, snapshot>>
  /\ UNCHANGED <<claim, slot, flag, hardware, radio, stream, target>>

-----------------------------------------------------------------------------
(* Device::shutdown and the drop of the last owner                          *)

\* Mutant of MayShutdown: the claim is not looked at.
MayShutdownAnyway == device \in {"Open", "Closing"}

\* Session::begin_shutdown: not while a stream holds the claim, and again
\* after an attempt that failed or was dropped.
MayShutdown == \/ device = "Open" /\ claim # "Held"
               \/ device = "Closing"

ShutdownBegin ==
  /\ phase[Dev] = "idle"
  /\ MayShutdown
  /\ device' = "Closing"
  /\ Begin(Dev, "shutdown", "lease")
  /\ UNCHANGED <<claim, slot, flag, hardware, radio, stream, config>>

LeaseShutdown ==
  /\ ShuttingDown
  /\ Take(Dev, "quiesce")
  /\ UNCHANGED <<shared, flag, hardware, radio, phase, res, stream, config>>

\* Mutant of ShutdownQuiesce: its error is lost to the later steps' results.
ShutdownQuiesceForgets ==
  /\ pc[Dev] = "quiesce"
  /\ \E r \in Outcomes(Dev) :
       /\ streaming' \in Effect(r, streaming, FALSE)
       /\ receiving' = IF r = "canceled" THEN receiving ELSE FALSE
       /\ res' = [res EXCEPT ![Dev] = IF r = "err" THEN "ok" ELSE r]
       /\ Goto(Dev, IF r = "canceled" THEN "store" ELSE "powerdown")
  /\ UNCHANGED <<shared, slot, flag, valid, reinit, power, programmed, phase,
                 stream, config>>

\* Hardware::shutdown: the receiver first ...
ShutdownQuiesce ==
  /\ pc[Dev] = "quiesce"
  /\ \E r \in Outcomes(Dev) :
       /\ streaming' \in Effect(r, streaming, FALSE)
       /\ receiving' = IF r = "canceled" THEN receiving ELSE FALSE
       /\ res' = [res EXCEPT ![Dev] = r]
       /\ Goto(Dev, IF r = "canceled" THEN "store" ELSE "powerdown")
  /\ UNCHANGED <<shared, slot, flag, valid, reinit, power, programmed, phase,
                 stream, config>>

\* ... then, whatever its result, bias, tuner, gate and power.
ShutdownPowerDown ==
  /\ pc[Dev] = "powerdown"
  /\ \E r \in Outcomes(Dev) :
       /\ power' \in Effect(r, power, FALSE)
       /\ valid' = IF r = "canceled" THEN valid ELSE FALSE
       /\ res' = [res EXCEPT ![Dev] = IF r = "ok" THEN @ ELSE r]
       /\ IF phase[Dev] = "final"
            THEN Goto(Dev, "idle") /\ phase' = [phase EXCEPT ![Dev] = "freed"]
            ELSE Goto(Dev, IF res'[Dev] = "ok" THEN "commit" ELSE "store")
                 /\ UNCHANGED phase
  /\ programmed' = Unknown
  /\ UNCHANGED <<shared, slot, flag, receiving, reinit, streaming, stream, config>>

\* The lifecycle is closed before the lease is dropped.
ShutdownCommit ==
  /\ pc[Dev] = "commit"
  /\ device' = "Closed"
  /\ claim' = "Available"
  /\ Goto(Dev, "store")
  /\ UNCHANGED <<slot, flag, hardware, radio, phase, res, stream, config>>

ShutdownDone ==
  /\ ShuttingDown
  /\ pc[Dev] = "done"
  /\ Finish(Dev, IF phase[Dev] = "shutdown" THEN "idle" ELSE "gone")
  /\ UNCHANGED <<shared, slot, flag, hardware, radio, stream, config>>

\* The public handle goes; streams keep the session alive.
DropDevice ==
  /\ phase[Dev] = "idle"
  /\ Finish(Dev, "gone")
  /\ UNCHANGED <<shared, slot, flag, hardware, radio, stream, config>>

\* Session::drop: the last Arc is gone.
NoOwner == phase[Dev] = "gone" /\ \A s \in Streams : phase[s] = "absent"

\* Mutant of FinalDrop: only a session that was shut down is taken down.
FinalDropClosed ==
  /\ NoOwner
  /\ IF device = "Closed" THEN Finish(Dev, "freed") ELSE UNCHANGED control
  /\ UNCHANGED <<shared, slot, flag, hardware, radio, stream, config>>

FinalDrop ==
  /\ NoOwner
  /\ IF device = "Closed"
       THEN Finish(Dev, "freed") /\ UNCHANGED slot
       ELSE Begin(Dev, "final", "quiesce") /\ slot' = FALSE
  /\ UNCHANGED <<shared, flag, hardware, radio, stream, config>>

-----------------------------------------------------------------------------
(* The stream claim                                                         *)

SetReceiver(s, st) == receiver' = [receiver EXCEPT ![s] = st]
SetQueue(s, q)     == queue' = [queue EXCEPT ![s] = q]

\* Mutant of MayClaim: only the lifecycle is checked.
MayClaimOpen == device = "Open"

\* RxStreamClaim::acquire
MayClaim == device = "Open" /\ claim = "Available"

RxStream(s) ==
  /\ phase[s] = "absent"
  /\ phase[Dev] = "idle"
  /\ flag
  /\ MayClaim
  /\ claim' = "Held"
  /\ Finish(s, "idle")
  /\ SetReceiver(s, "Stopped")
  /\ SetQueue(s, "none")
  /\ UNCHANGED <<device, slot, flag, hardware, radio, config>>

\* Receiver::start on a stopped stream: only an initialized queue is kept.
StartBegin(s) ==
  /\ phase[s] = "idle"
  /\ receiver[s] = "Stopped"
  /\ SetReceiver(s, "CleanupRequired")
  /\ IF queue[s] = "live"
       THEN Begin(s, "startOn", "check") /\ UNCHANGED queue
       ELSE Begin(s, "startOff", "lease") /\ SetQueue(s, "none")
  /\ UNCHANGED <<shared, slot, flag, hardware, radio, config>>

\* What follows a failed or dropped step of a start.
Abandon(s) == IF res[s] = "err" THEN Begin(s, "startFallback", "lease")
                                ELSE Finish(s, "idle")

\* The fresh endpoint is claimed after receiver-off; that may fail as well.
StartOffDone(s) ==
  /\ phase[s] = "startOff"
  /\ pc[s] = "done"
  /\ \/ /\ res[s] = "ok"
        /\ SetQueue(s, "prepared")
        /\ Begin(s, "startOn", "check")
     \/ /\ res[s] = "ok"
        /\ Begin(s, "startFallback", "lease")
        /\ UNCHANGED queue
     \/ /\ res[s] # "ok"
        /\ Abandon(s)
        /\ UNCHANGED queue
  /\ UNCHANGED <<shared, slot, flag, hardware, radio, receiver, config>>

StartOnDone(s) ==
  /\ phase[s] = "startOn"
  /\ pc[s] = "done"
  /\ IF res[s] = "ok"
       THEN IF queue[s] = "live"
              THEN Finish(s, "idle") /\ SetReceiver(s, "Running")
              ELSE Begin(s, "startHalt", "halt") /\ UNCHANGED receiver
       ELSE Abandon(s) /\ UNCHANGED receiver
  /\ UNCHANGED <<shared, slot, flag, hardware, radio, queue, config>>

\* Queue::initialize: clear_halt, then submit the buffers; no lease is held.
ClearHalt(s) ==
  /\ phase[s] = "startHalt"
  /\ pc[s] = "halt"
  /\ \E r \in Outcomes(s) :
       \/ /\ r = "ok"
          /\ Finish(s, "idle")
          /\ SetQueue(s, "live")
          /\ SetReceiver(s, "Running")
       \/ /\ r = "err"
          /\ Begin(s, "startFallback", "lease")
          /\ UNCHANGED stream
       \/ /\ r = "canceled"
          /\ Finish(s, "idle")
          /\ UNCHANGED stream
  /\ UNCHANGED <<shared, slot, flag, hardware, radio, config>>

\* The start fails whatever the result of the fallback receiver-off.
StartFallbackDone(s) ==
  /\ phase[s] = "startFallback"
  /\ pc[s] = "done"
  /\ Finish(s, "idle")
  /\ UNCHANGED <<shared, slot, flag, hardware, radio, stream, config>>

\* Receiver::stop, on a stream that is not stopped.
StopBegin(s) ==
  /\ phase[s] = "idle"
  /\ receiver[s] # "Stopped"
  /\ SetReceiver(s, "CleanupRequired")
  /\ Begin(s, "stop", "lease")
  /\ UNCHANGED <<shared, slot, flag, hardware, radio, queue, config>>

StopDone(s) ==
  /\ phase[s] = "stop"
  /\ pc[s] = "done"
  /\ SetReceiver(s, IF res[s] = "ok" THEN "Stopped" ELSE receiver[s])
  /\ Finish(s, "idle")
  /\ UNCHANGED <<shared, slot, flag, hardware, radio, queue, config>>

\* Receiver::ensure_running; the read then waits for a completion, during which
\* the device may be configured.
ReadBegin(s) ==
  /\ phase[s] = "idle"
  /\ device = "Open" /\ flag
  /\ receiver[s] = "Running"
  /\ Finish(s, "read")
  /\ UNCHANGED <<shared, slot, flag, hardware, radio, stream, config>>

\* It ends with samples, by its timeout, refused by a later poll, or dropped ...
ReadEnd(s) ==
  /\ phase[s] = "read"
  /\ Finish(s, "idle")
  /\ UNCHANGED <<shared, slot, flag, hardware, radio, stream, config>>

\* ... or with a completion that failed, which retires the queue: a blocking
\* read does not ask again whether reads are still allowed.
ReadFail(s) ==
  /\ phase[s] = "read"
  /\ SetReceiver(s, "CleanupRequired")
  /\ SetQueue(s, "none")
  /\ Finish(s, "idle")
  /\ UNCHANGED <<shared, slot, flag, hardware, radio, config>>

\* The queue is retired first; begin_stop decides if the receiver is switched.
Leave(s, ph) ==
  /\ phase[s] = "idle"
  /\ SetQueue(s, "none")
  /\ IF receiver[s] = "Stopped"
       THEN Begin(s, ph, "done") /\ UNCHANGED receiver
       ELSE Begin(s, ph, "lease") /\ SetReceiver(s, "CleanupRequired")
  /\ UNCHANGED <<shared, slot, flag, hardware, radio, config>>

CloseBegin(s) == Leave(s, "close")

\* Dropping a stream or an unpolled close.
DropBegin(s) == Leave(s, "cleanup")

\* A close that did not succeed drops its claim, whose cleanup tries again.
CloseDone(s) ==
  /\ phase[s] = "close"
  /\ pc[s] = "done"
  /\ IF res[s] = "ok"
       THEN /\ claim' = "Available"
            /\ SetReceiver(s, "Stopped")
            /\ Finish(s, "absent")
       ELSE /\ Begin(s, "cleanup", "lease")
            /\ UNCHANGED <<claim, receiver>>
  /\ UNCHANGED <<device, slot, flag, hardware, radio, queue, config>>

\* Mutants of ClaimAfterCleanup: whatever the attempt did, the claim is free;
\* and the receiver's state is stored for the claim's.
ClaimFreed(s) == "Available"
ClaimAsReceiver(s) == IF res[s] = "ok" THEN "Stopped" ELSE "CleanupRequired"

\* RxStreamClaim::cleanup: a failed attempt leaves the claim unavailable.
ClaimAfterCleanup(s) == IF res[s] = "ok" THEN "Available" ELSE "CleanupRequired"

CleanupDone(s) ==
  /\ phase[s] = "cleanup"
  /\ pc[s] = "done"
  /\ claim' = ClaimAfterCleanup(s)
  /\ SetReceiver(s, "Stopped")
  /\ Finish(s, "absent")
  /\ UNCHANGED <<device, slot, flag, hardware, radio, queue, config>>

-----------------------------------------------------------------------------
(* The radio may be in any state a previous process left it in.             *)
Init ==
  /\ device = "Open"
  /\ claim = "Available"
  /\ slot = TRUE
  /\ flag = FALSE
  /\ valid = FALSE
  /\ receiving = FALSE
  /\ reinit = FALSE
  /\ streaming \in BOOLEAN
  /\ power \in BOOLEAN
  /\ programmed = Unknown
  /\ phase = [a \in Actors |-> IF a = Dev THEN "open" ELSE "absent"]
  /\ pc = [a \in Actors |-> IF a = Dev THEN "lease" ELSE "idle"]
  /\ res = [a \in Actors |-> "ok"]
  /\ receiver = [s \in Streams |-> "Stopped"]
  /\ queue = [s \in Streams |-> "none"]
  /\ target \in Configs
  /\ snapshot = Unknown

\* What an actor does inside an operation, once it has begun.
StreamStep(s) ==
  \/ LeaseBusy(s) \/ LeaseStore(s) \/ LeaseReturn(s)
  \/ Check(s) \/ LeaseReceiver(s) \/ Off(s) \/ Flush(s) \/ On(s)
  \/ StartOffDone(s) \/ StartOnDone(s) \/ ClearHalt(s) \/ StartFallbackDone(s)
  \/ StopDone(s) \/ CloseDone(s) \/ CleanupDone(s)

DevStep ==
  \/ LeaseBusy(Dev) \/ LeaseStore(Dev) \/ LeaseReturn(Dev)
  \/ LeaseConfigure \/ ConfigureReset \/ ConfigureProgram
  \/ Flush(Dev) \/ On(Dev) \/ ConfigureGate \/ ConfigureDone \/ OpenDone
  \/ LeaseShutdown \/ ShutdownQuiesce \/ ShutdownPowerDown \/ ShutdownCommit
  \/ ShutdownDone \/ FinalDrop

\* What a caller may ask for.
StreamCall(s) == \/ RxStream(s) \/ StartBegin(s) \/ StopBegin(s)
                 \/ ReadBegin(s) \/ ReadEnd(s) \/ ReadFail(s)
                 \/ CloseBegin(s) \/ DropBegin(s)
DevCall == \/ \E c \in Configs : ConfigureBegin(c)
           \/ ShutdownBegin \/ DropDevice

\* Nothing is left of the session.
Freed == phase[Dev] = "freed" /\ UNCHANGED vars

Next == \/ \E s \in Streams : StreamStep(s) \/ StreamCall(s)
        \/ DevStep \/ DevCall
        \/ Freed

Spec == Init /\ [][Next]_vars

(***************************************************************************)
(* A control transfer ends by its 500 ms timeout at the latest, blocking   *)
(* calls run on, and an executor polls a future until it is done or        *)
(* dropped: an operation that has begun takes its next step.  Nothing      *)
(* obliges a caller to begin one.                                          *)
(***************************************************************************)
FairSpec == /\ Spec
            /\ \A s \in Streams : WF_vars(StreamStep(s))
            /\ WF_vars(DevStep)

-----------------------------------------------------------------------------
(* Properties                                                               *)

\* Every variable holds a value the program can represent.
TypeOK ==
  /\ device \in {"Open", "Closing", "Closed"}
  /\ claim \in {"Available", "Held", "CleanupRequired"}
  /\ slot \in BOOLEAN /\ flag \in BOOLEAN
  /\ valid \in BOOLEAN /\ receiving \in BOOLEAN /\ reinit \in BOOLEAN
  /\ streaming \in BOOLEAN /\ power \in BOOLEAN
  /\ programmed \in Configs \cup {Unknown}
  /\ phase \in [Actors -> StreamPhases \cup DevPhases]
  /\ pc \in [Actors -> LeaseSteps \cup {"idle", "lease", "check", "halt", "done"}]
  /\ res \in [Actors -> {"ok", "err", "canceled"}]
  /\ receiver \in [Streams -> {"Stopped", "CleanupRequired", "Running"}]
  /\ queue \in [Streams -> {"none", "prepared", "live"}]
  /\ target \in Configs
  /\ snapshot \in Configs \cup {Unknown}

\* The hardware is in its mutex exactly when no operation is between lease()
\* and the drop of its lease, and no two operations ever are: neither an
\* error, a dropped future nor a stream's cleanup loses or doubles it.
LeaseConserved ==
  /\ phase[Dev] # "freed" => (slot <=> \A a \in Actors : ~InLease(a))
  /\ \A a, b \in Actors : InLease(a) /\ InLease(b) => a = b

\* The claim is Held exactly while one stream exists, from rx_stream until the
\* close or the cleanup that follows its drop has ended.
ClaimConserved ==
  /\ claim = "Held" <=> \E s \in Streams : phase[s] # "absent"
  /\ \A s, t \in Streams : phase[s] # "absent" /\ phase[t] # "absent" => s = t

\* Once a shutdown has begun no stream exists or can be made, and the attempt
\* finds the hardware in its place: it never fails with Busy.
ShutdownAlone ==
  /\ device # "Open" => \A s \in Streams : phase[s] = "absent"
  /\ ShuttingDown /\ pc[Dev] = "lease" => slot

\* Session::drop's expect("no lease outlives final owner").
FinalOwnerFindsHardware == NoOwner => slot

\* While the hardware is in its place the atomic mirror agrees with it: a
\* reader never sees a configuration as valid that the last operation lost.
FlagMirrorsHardware == slot => flag = valid

\* With the claim available, or its stream stopped, the radio of an opened
\* device does not stream, and no later configure will make it stream.
QuietWhenStopped ==
  /\ device = "Open"
  /\ snapshot # Unknown
  /\ \/ claim = "Available"
     \/ \E s \in Streams : phase[s] # "absent" /\ receiver[s] = "Stopped"
  => ~streaming /\ ~receiving

\* A running stream has submitted its buffers, will be restored by the next
\* reinitialization, and its radio streams unless reads are refused or an
\* operation is at work on it.
RunningStreamIsFed ==
  \A s \in Streams : receiver[s] = "Running" =>
    /\ queue[s] = "live"
    /\ receiving
    /\ slot /\ flag => streaming

\* What Device::config reports is what the radio's registers hold, whatever
\* failed or was dropped before, whenever reads are allowed and no configure
\* is under way.
SnapshotIsProgrammed ==
  /\ device = "Open"
  /\ flag
  /\ phase[Dev] \in {"idle", "gone"}
  => programmed = snapshot /\ power

\* A shutdown that reported success left nothing running, and nothing that
\* happens later turns it on again.
ClosedIsDown == device = "Closed" => ~streaming /\ ~receiving /\ ~power

\* rx/mod.rs:102: "RX streams retain the device's exclusive stream claim until
\* closed or dropped" -- so with no stream left the claim can be taken again.
DropFreesClaim ==
  /\ device = "Open"
  /\ \A s \in Streams : phase[s] = "absent"
  => claim = "Available"

\* Every operation comes to an end: none waits for another one.
OperationsEnd == \A a \in Actors : pc[a] # "idle" ~> pc[a] = "idle"

\* After the last owner is gone the session is taken down, unless it already was.
LastOwnerFrees == NoOwner ~> phase[Dev] = "freed"
=============================================================================
