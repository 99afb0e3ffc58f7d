----------------------------- MODULE RadioProofs -----------------------------
(***************************************************************************)
(* Theorems about what the radio does under Session, for any number of     *)
(* streams and configurations: that it is configured as the driver says,   *)
(* silent when no stream receives, fed when one does, and off after a      *)
(* shutdown.                                                               *)
(*                                                                         *)
(* They rest on the invariants of SessionProofs: the lease makes the       *)
(* transfers of two actors exclude each other, and the claim the streams.  *)
(* Each property here is one moment of an invariant about every step of    *)
(* the operations that could disturb it.                                   *)
(*                                                                         *)
(* Last, the session implements DeviceLifecycle: the owner of the receiver *)
(* is the only stream that exists (ClaimInv); it is handed back, and the   *)
(* session closed, with the receiver off (QuietInv, ClosedInv); and        *)
(* whoever switches the receiver on does it for an owner.                  *)
(***************************************************************************)
EXTENDS SessionRefinement, SessionProofs

\* The radio's registers hold configuration c, and it is powered.
Programmed(c) == programmed = c /\ power

\* What is known of the configuration at every step of a configure: the
\* hardware is invalid from the first transfer to the last, and valid after
\* it only if it holds the target, or was never touched and holds the snapshot.
SnapshotInv ==
  /\ phase[Dev] # "freed" /\ pc[Dev] \notin LeaseSteps \ {"return"} => flag = valid
  /\ device = "Open" /\ valid /\ phase[Dev] \in {"idle", "gone"} => Programmed(snapshot)
  /\ Configuring =>
       /\ pc[Dev] = "lease" /\ valid => phase[Dev] = "configure" /\ Programmed(snapshot)
       /\ pc[Dev] \in {"reset", "program", "flush", "on", "gate"} => ~valid
       /\ pc[Dev] = "program" => power
       /\ pc[Dev] \in {"flush", "on"} => Programmed(target)
       /\ pc[Dev] = "gate" /\ res[Dev] = "ok" => Programmed(target)
       /\ pc[Dev] \in {"store", "return", "done"} /\ res[Dev] = "ok" => Programmed(target)
       /\ pc[Dev] \in {"store", "return", "done"} /\ res[Dev] # "ok" /\ valid =>
            phase[Dev] = "configure" /\ Programmed(snapshot)

\* A shutdown that commits has switched everything off, and a closed device
\* has nothing under way but the return of that lease.
ClosedInv ==
  /\ ClosedIsDown
  /\ device = "Closed" => \/ phase[Dev] \in {"idle", "gone", "freed"}
                          \/ ShuttingDown /\ pc[Dev] \in {"store", "return", "done"}
  /\ pc[Dev] = "powerdown" => ~receiving /\ (res[Dev] = "ok" => ~streaming)
  /\ pc[Dev] = "commit" => ~streaming /\ ~receiving /\ ~power
  /\ Configuring => device = "Open"

\* The operation of s has switched the receiver off, or found it off.
SwitchedOff(s) == /\ phase[s] \in {"stop", "close", "cleanup"}
                  /\ pc[s] \in {"store", "return", "done"}
                  /\ res[s] = "ok"

\* Nobody receives: the claim is free, its stream is stopped, or about to be.
Silent == \/ claim = "Available"
          \/ \E s \in Streams : phase[s] # "absent" /\ receiver[s] = "Stopped"
          \/ \E s \in Streams : SwitchedOff(s)

\* `receiving' is what the operation under way intends, and a configure
\* restores reception only if it is intended; so a receiver that is switched
\* off stays off for as long as its stream does not start again.
QuietInv ==
  /\ device = "Open" /\ snapshot # Unknown /\ Silent => ~streaming /\ ~receiving
  /\ \A s \in Streams :
       /\ phase[s] \in {"startOff", "startOn", "startHalt", "startFallback", "stop"} =>
            receiver[s] = "CleanupRequired"
       /\ pc[s] = "off" => ~receiving
  /\ pc[Dev] \in {"flush", "on"} => receiving
  /\ phase[Dev] = "open" =>
       /\ ~receiving
       /\ pc[Dev] = "program" => ~streaming
       /\ pc[Dev] \in {"gate", "store", "return", "done"} /\ res[Dev] = "ok" => ~streaming
  /\ device = "Open" /\ phase[Dev] \in {"idle", "configure"} => snapshot # Unknown
  /\ (\E s \in Streams : phase[s] # "absent") => snapshot # Unknown

\* s receives, or has switched the receiver on in order to.
Receives(s) == \/ receiver[s] = "Running"
               \/ phase[s] = "startOn" /\ pc[s] \in {"store", "return", "done"} /\ res[s] = "ok"
               \/ phase[s] = "startHalt"

\* A configure that may end well leaves the radio streaming for such a stream:
\* it restores what it has reset, and does not touch it otherwise.
Fed(s) ==
  /\ receiver[s] = "Running" => phase[s] \in {"idle", "read"} /\ queue[s] = "live"
  /\ phase[s] = "startOn" /\ pc[s] \in {"flush", "on"} => receiving
  /\ Receives(s) => /\ receiving
                    /\ valid => streaming
                    /\ pc[Dev] = "program" /\ ~reinit => streaming
                    /\ pc[Dev] = "gate" /\ res[Dev] = "ok" => streaming
FedInv == (\A s \in Streams : Fed(s)) /\ (pc[Dev] = "reset" => reinit)

USE SessionAssumption DEF Actors

-----------------------------------------------------------------------------
(* Who touches what                                                         *)

\* What only the device's operations change.
Devices == <<device, valid, reinit, power, programmed, target, snapshot,
             phase[Dev], pc[Dev], res[Dev]>>

\* A stream leaves the configuration, and how far the device's operation has
\* come, alone.
LEMMA StreamLeavesDevice ==
  ASSUME TypeOK, NEW s \in Streams, StreamStep(s) \/ StreamCall(s)
  PROVE  UNCHANGED Devices
<1> s # Dev /\ s \in Actors /\ Dev \in Actors
  OBVIOUS
<1> DOMAIN phase = Actors /\ DOMAIN pc = Actors /\ DOMAIN res = Actors
  BY DEF TypeOK
<1> USE DEF Devices, Goto, Begin, Finish, shared, hardware, radio, stream, config, control
<1>1. CASE LeaseBusy(s) \/ LeaseStore(s) \/ LeaseReturn(s)
  BY <1>1 DEF LeaseBusy, LeaseStore, LeaseReturn
<1>2. CASE Check(s) \/ LeaseReceiver(s)
  BY <1>2 DEF Check, LeaseReceiver, Take
<1>3. CASE Off(s) \/ Flush(s) \/ On(s)
  BY <1>3 DEF Off, Flush, On, After
<1>4. CASE StartOffDone(s) \/ StartOnDone(s) \/ ClearHalt(s) \/ StartFallbackDone(s)
  BY <1>4 DEF StartOffDone, StartOnDone, ClearHalt, StartFallbackDone, Abandon
<1>5. CASE StopDone(s) \/ CloseDone(s) \/ CleanupDone(s)
  BY <1>5 DEF StopDone, CloseDone, CleanupDone
<1>6. CASE StreamCall(s)
  BY <1>6 DEF StreamCall, RxStream, StartBegin, StopBegin, ReadBegin, ReadEnd, ReadFail, CloseBegin,
              DropBegin, Leave
<1> QED
  BY <1>1, <1>2, <1>3, <1>4, <1>5, <1>6 DEF StreamStep

\* Of what SnapshotInv is about a stream may only change the flag, to valid.
LEMMA StreamStoresFlag ==
  ASSUME TypeOK, NEW s \in Streams, StreamStep(s) \/ StreamCall(s)
  PROVE  flag' \in {flag, valid}
<1> USE DEF shared, stream, control
<1>1. CASE LeaseBusy(s) \/ LeaseStore(s) \/ LeaseReturn(s)
  BY <1>1 DEF LeaseBusy, LeaseStore, LeaseReturn
<1>2. CASE Check(s) \/ LeaseReceiver(s)
  BY <1>2 DEF Check, LeaseReceiver
<1>3. CASE Off(s) \/ Flush(s) \/ On(s)
  BY <1>3 DEF Off, Flush, On
<1>4. CASE StartOffDone(s) \/ StartOnDone(s) \/ ClearHalt(s) \/ StartFallbackDone(s)
  BY <1>4 DEF StartOffDone, StartOnDone, ClearHalt, StartFallbackDone
<1>5. CASE StopDone(s) \/ CloseDone(s) \/ CleanupDone(s)
  BY <1>5 DEF StopDone, CloseDone, CleanupDone
<1>6. CASE StreamCall(s)
  BY <1>6 DEF StreamCall, RxStream, StartBegin, StopBegin, ReadBegin, ReadEnd, ReadFail, CloseBegin,
              DropBegin, Leave
<1> QED
  BY <1>1, <1>2, <1>3, <1>4, <1>5, <1>6 DEF StreamStep

-----------------------------------------------------------------------------
(* The configuration                                                        *)

LEMMA SnapshotInvariant == Spec => []SnapshotInv
<1>1. Init => SnapshotInv
  BY DEF Init, SnapshotInv, Configuring, LeaseSteps
<1>2. TypeOK /\ Located /\ LeaseInv /\ ClaimInv /\ SnapshotInv /\ [Next]_vars => SnapshotInv'
  <2> SUFFICES ASSUME TypeOK, Located, LeaseInv, ClaimInv, SnapshotInv, [Next]_vars
               PROVE  SnapshotInv'
    OBVIOUS
  <2> /\ DOMAIN phase = Actors /\ DOMAIN pc = Actors /\ DOMAIN res = Actors
      /\ valid \in BOOLEAN /\ flag \in BOOLEAN /\ reinit \in BOOLEAN
      /\ res[Dev] \in {"ok", "err", "canceled"}
      /\ phase[Dev] \in DevPhases
    BY DEF TypeOK, Located
  <2>1. ASSUME NEW s \in Streams, StreamStep(s) \/ StreamCall(s) PROVE SnapshotInv'
    BY <2>1, StreamLeavesDevice, StreamStoresFlag
       DEF Devices, SnapshotInv, Configuring, Programmed
  <2> USE DEF SnapshotInv, Programmed, LeaseSteps, Configuring, DevPhases,
              Goto, Begin, Finish, shared, hardware, radio, stream, config, control, vars
  <2>2. CASE LeaseBusy(Dev)
    BY <2>2 DEF LeaseBusy
  <2>3. CASE LeaseStore(Dev)
    BY <2>3 DEF LeaseStore
  <2>4. CASE LeaseReturn(Dev)
    BY <2>4 DEF LeaseReturn
  <2>5. CASE LeaseConfigure
    BY <2>5 DEF LeaseConfigure, Take
  <2>6. CASE ConfigureReset
    BY <2>6 DEF ConfigureReset, After, Effect, Outcomes, Located, ShuttingDown
  <2>7. CASE ConfigureProgram
    BY <2>7 DEF ConfigureProgram, After, Located, ShuttingDown
  <2>8. CASE Flush(Dev)
    BY <2>8 DEF Flush, After, Located, ShuttingDown
  <2>9. CASE On(Dev)
    BY <2>9 DEF On, After, Located, ShuttingDown
  <2>10. CASE ConfigureGate
    BY <2>10 DEF ConfigureGate, Located, ShuttingDown
  <2>11. CASE ConfigureDone
    BY <2>11 DEF ConfigureDone
  <2>12. CASE OpenDone
    BY <2>12 DEF OpenDone
  <2>13. CASE LeaseShutdown
    BY <2>13 DEF LeaseShutdown, Take, ShuttingDown
  <2>14. CASE ShutdownQuiesce
    BY <2>14 DEF ShutdownQuiesce, Located
  <2>15. CASE ShutdownPowerDown
    BY <2>15 DEF ShutdownPowerDown, Located
  <2>16. CASE ShutdownCommit
    BY <2>16 DEF ShutdownCommit, Located
  <2>17. CASE ShutdownDone
    BY <2>17 DEF ShutdownDone, ClaimInv, ShuttingDown
  <2>18. CASE FinalDrop
    BY <2>18 DEF FinalDrop, NoOwner
  <2>19. CASE DevCall
    BY <2>19 DEF DevCall, ConfigureBegin, ShutdownBegin, DropDevice, Located
  <2>20. CASE UNCHANGED vars
    BY <2>20
  <2> QED
    BY <2>1, <2>2, <2>3, <2>4, <2>5, <2>6, <2>7, <2>8, <2>9, <2>10, <2>11, <2>12,
       <2>13, <2>14, <2>15, <2>16, <2>17, <2>18, <2>19, <2>20 DEF Next, DevStep, Freed
<1> QED
  BY <1>1, <1>2, TypeCorrect, LocatedInvariant, LeaseInvariant, ClaimInvariant, PTL DEF Spec

\* What Device::config reports is what the radio's registers hold.
THEOREM SnapshotSafe == Spec => []SnapshotIsProgrammed
<1>1. Located /\ SnapshotInv => SnapshotIsProgrammed
  BY DEF Located, SnapshotInv, SnapshotIsProgrammed, LeaseSteps, Programmed
<1> QED
  BY <1>1, LocatedInvariant, SnapshotInvariant, PTL

-----------------------------------------------------------------------------
(* Shutdown                                                                 *)

\* Before it holds the claim a stream does nothing to the radio.
LEMMA AbsentIsSilent ==
  ASSUME Located, NEW s \in Streams, phase[s] = "absent", StreamStep(s) \/ StreamCall(s)
  PROVE  UNCHANGED <<streaming, receiving>>
<1>1. pc[s] = "idle"
  BY DEF Located
<1>2. ~StreamStep(s)
  BY <1>1 DEF StreamStep, LeaseBusy, LeaseStore, LeaseReturn, Check, LeaseReceiver, Take, Off,
              Flush, On, StartOffDone, StartOnDone, ClearHalt, StartFallbackDone, StopDone,
              CloseDone, CleanupDone
<1> QED
  BY <1>2 DEF StreamCall, RxStream, StartBegin, StopBegin, ReadBegin, ReadEnd, ReadFail, CloseBegin, DropBegin, Leave,
              hardware, radio

LEMMA ClosedInvariant == Spec => []ClosedInv
<1>1. Init => ClosedInv
  BY DEF Init, ClosedInv, ClosedIsDown
<1>2. TypeOK /\ Located /\ ClaimInv /\ ClosedInv /\ [Next]_vars => ClosedInv'
  <2> SUFFICES ASSUME TypeOK, Located, ClaimInv, ClosedInv, [Next]_vars PROVE ClosedInv'
    OBVIOUS
  <2> /\ DOMAIN phase = Actors /\ DOMAIN pc = Actors /\ DOMAIN res = Actors
      /\ streaming \in BOOLEAN /\ receiving \in BOOLEAN /\ power \in BOOLEAN
      /\ res[Dev] \in {"ok", "err", "canceled"}
    BY DEF TypeOK
  <2>1. ASSUME NEW s \in Streams, StreamStep(s) \/ StreamCall(s) PROVE ClosedInv'
    <3>1. CASE phase[s] = "absent"
      BY <2>1, <3>1, StreamLeavesDevice, AbsentIsSilent
         DEF Devices, ClosedInv, ClosedIsDown, Configuring, ShuttingDown
    <3>2. CASE phase[s] # "absent"
      <4>1. device = "Open" /\ pc[Dev] \notin {"powerdown", "commit"}
        BY <3>2 DEF ClaimInv, ClaimConserved, Located, DevPhases, Configuring, ShuttingDown
      <4> QED
        BY <2>1, <4>1, StreamLeavesDevice DEF Devices, ClosedInv, ClosedIsDown
    <3> QED
      BY <3>1, <3>2
  <2> USE DEF ClosedInv, ClosedIsDown, Located, DevPhases, Configuring, ShuttingDown,
              Goto, Begin, Finish, shared, hardware, radio, stream, config, control, vars
  <2>2. CASE LeaseBusy(Dev) \/ LeaseStore(Dev) \/ LeaseReturn(Dev)
    BY <2>2 DEF LeaseBusy, LeaseStore, LeaseReturn
  <2>3. CASE LeaseConfigure
    BY <2>3 DEF LeaseConfigure, Take
  <2>4. CASE ConfigureReset \/ ConfigureProgram
    BY <2>4 DEF ConfigureReset, ConfigureProgram, After
  <2>5. CASE Flush(Dev) \/ On(Dev)
    BY <2>5 DEF Flush, On, After
  <2>6. CASE ConfigureGate
    BY <2>6 DEF ConfigureGate
  <2>7. CASE ConfigureDone \/ OpenDone
    BY <2>7 DEF ConfigureDone, OpenDone
  <2>8. CASE LeaseShutdown
    BY <2>8 DEF LeaseShutdown, Take
  <2>9. CASE ShutdownQuiesce
    BY <2>9 DEF ShutdownQuiesce, Effect, Outcomes
  <2>10. CASE ShutdownPowerDown
    <3>1. PICK r \in Outcomes(Dev) :
            /\ power' \in Effect(r, power, FALSE)
            /\ res' = [res EXCEPT ![Dev] = IF r = "ok" THEN @ ELSE r]
            /\ IF phase[Dev] = "final"
                 THEN Goto(Dev, "idle") /\ phase' = [phase EXCEPT ![Dev] = "freed"]
                 ELSE Goto(Dev, IF res'[Dev] = "ok" THEN "commit" ELSE "store") /\ UNCHANGED phase
      BY <2>10 DEF ShutdownPowerDown
    <3>2. UNCHANGED <<device, streaming, receiving>> /\ pc[Dev] = "powerdown" /\ device # "Closed"
      BY <2>10 DEF ShutdownPowerDown
    <3>3. CASE phase[Dev] = "final"
      BY <3>1, <3>2, <3>3
    <3>4. CASE phase[Dev] # "final" /\ r = "ok" /\ res[Dev] = "ok"
      BY <3>1, <3>2, <3>4 DEF Effect
    <3>5. CASE phase[Dev] # "final" /\ ~(r = "ok" /\ res[Dev] = "ok")
      BY <3>1, <3>2, <3>5
    <3> QED
      BY <3>3, <3>4, <3>5
  <2>11. CASE ShutdownCommit
    BY <2>11 DEF ShutdownCommit
  <2>12. CASE ShutdownDone
    BY <2>12 DEF ShutdownDone
  <2>13. CASE FinalDrop
    BY <2>13 DEF FinalDrop, NoOwner
  <2>14. CASE DevCall
    BY <2>14 DEF DevCall, ConfigureBegin, ShutdownBegin, MayShutdown, DropDevice
  <2>15. CASE UNCHANGED vars
    BY <2>15
  <2> QED
    BY <2>1, <2>2, <2>3, <2>4, <2>5, <2>6, <2>7, <2>8, <2>9, <2>10, <2>11, <2>12,
       <2>13, <2>14, <2>15 DEF Next, DevStep, Freed
<1> QED
  BY <1>1, <1>2, TypeCorrect, LocatedInvariant, ClaimInvariant, PTL DEF Spec

\* A shutdown that reported success left nothing running, for good.
THEOREM ClosedSafe == Spec => []ClosedIsDown
BY ClosedInvariant, PTL DEF ClosedInv

-----------------------------------------------------------------------------
(* Silence                                                                  *)

\* What only stream s changes.
Own(s) == <<phase[s], pc[s], res[s], receiver[s], queue[s]>>

\* The device leaves every stream where it is, and takes the claim only from
\* a device that is closed.
LEMMA DeviceLeavesStreams ==
  ASSUME TypeOK, DevStep \/ DevCall
  PROVE  (\A s \in Streams : UNCHANGED Own(s)) /\ (claim' = claim \/ device' = "Closed")
<1> Dev \notin Streams /\ Dev \in Actors
  OBVIOUS
<1> DOMAIN phase = Actors /\ DOMAIN pc = Actors /\ DOMAIN res = Actors
  BY DEF TypeOK
<1> USE DEF Own, Goto, Begin, Finish, shared, stream, control
<1>1. CASE LeaseBusy(Dev) \/ LeaseStore(Dev) \/ LeaseReturn(Dev)
  BY <1>1 DEF LeaseBusy, LeaseStore, LeaseReturn
<1>2. CASE LeaseConfigure \/ LeaseShutdown
  BY <1>2 DEF LeaseConfigure, LeaseShutdown, Take
<1>3. CASE ConfigureReset \/ ConfigureProgram
  BY <1>3 DEF ConfigureReset, ConfigureProgram, After
<1>4. CASE Flush(Dev) \/ On(Dev)
  BY <1>4 DEF Flush, On, After
<1>5. CASE ConfigureGate \/ ConfigureDone \/ OpenDone
  BY <1>5 DEF ConfigureGate, ConfigureDone, OpenDone
<1>6. CASE ShutdownQuiesce \/ ShutdownPowerDown
  BY <1>6 DEF ShutdownQuiesce, ShutdownPowerDown
<1>7. CASE ShutdownCommit \/ ShutdownDone \/ FinalDrop
  BY <1>7 DEF ShutdownCommit, ShutdownDone, FinalDrop
<1>8. CASE DevCall
  BY <1>8 DEF DevCall, ConfigureBegin, ShutdownBegin, DropDevice
<1> QED
  BY <1>1, <1>2, <1>3, <1>4, <1>5, <1>6, <1>7, <1>8 DEF DevStep

\* And a stream leaves every other one where it is.
LEMMA StreamLeavesOthers ==
  ASSUME TypeOK, NEW s \in Streams, NEW t \in Streams, t # s, StreamStep(s) \/ StreamCall(s)
  PROVE  UNCHANGED Own(t)
<1> t \in Actors /\ s \in Actors
  OBVIOUS
<1> /\ DOMAIN phase = Actors /\ DOMAIN pc = Actors /\ DOMAIN res = Actors
    /\ DOMAIN receiver = Streams /\ DOMAIN queue = Streams
  BY DEF TypeOK
<1> USE DEF Own, Goto, Begin, Finish, SetReceiver, SetQueue, stream, control
<1>1. CASE LeaseBusy(s) \/ LeaseStore(s) \/ LeaseReturn(s)
  BY <1>1 DEF LeaseBusy, LeaseStore, LeaseReturn
<1>2. CASE Check(s) \/ LeaseReceiver(s)
  BY <1>2 DEF Check, LeaseReceiver, Take
<1>3. CASE Off(s) \/ Flush(s) \/ On(s)
  BY <1>3 DEF Off, Flush, On, After
<1>4. CASE StartOffDone(s) \/ StartOnDone(s) \/ ClearHalt(s) \/ StartFallbackDone(s)
  BY <1>4 DEF StartOffDone, StartOnDone, ClearHalt, StartFallbackDone, Abandon
<1>5. CASE StopDone(s) \/ CloseDone(s) \/ CleanupDone(s)
  BY <1>5 DEF StopDone, CloseDone, CleanupDone
<1>6. CASE StreamCall(s)
  BY <1>6 DEF StreamCall, RxStream, StartBegin, StopBegin, ReadBegin, ReadEnd, ReadFail, CloseBegin,
              DropBegin, Leave
<1> QED
  BY <1>1, <1>2, <1>3, <1>4, <1>5, <1>6 DEF StreamStep

LEMMA QuietInvariant == Spec => []QuietInv
<1>1. Init => QuietInv
  BY DEF Init, QuietInv
<1>2. TypeOK /\ Located /\ LeaseInv /\ ClaimInv /\ SnapshotInv /\ QuietInv /\ [Next]_vars
        => QuietInv'
  <2> SUFFICES ASSUME TypeOK, Located, LeaseInv, ClaimInv, SnapshotInv, QuietInv, [Next]_vars
               PROVE  QuietInv'
    OBVIOUS
  <2> /\ DOMAIN phase = Actors /\ DOMAIN pc = Actors /\ DOMAIN res = Actors
      /\ DOMAIN receiver = Streams
      /\ streaming \in BOOLEAN /\ receiving \in BOOLEAN
      /\ target # Unknown /\ claim \in {"Available", "Held", "CleanupRequired"}
    BY DEF TypeOK
  <2>1. ASSUME DevStep \/ DevCall PROVE QuietInv'
    <3>1. \A s \in Streams : UNCHANGED Own(s)
      BY <2>1, DeviceLeavesStreams
    <3>2. Silent' => Silent \/ device' = "Closed"
      BY <2>1, <3>1, DeviceLeavesStreams DEF Silent, SwitchedOff, Own
    <3>4. \A s \in Streams :
            /\ phase'[s] \in {"startOff", "startOn", "startHalt", "startFallback", "stop"} =>
                 receiver'[s] = "CleanupRequired"
            /\ pc'[s] = "off" => ~receiving
      BY <3>1 DEF Own, QuietInv
    <3> SUFFICES ASSUME Silent' => Silent \/ device' = "Closed"
                 PROVE /\ device' = "Open" /\ snapshot' # Unknown /\ Silent => ~streaming' /\ ~receiving'
                       /\ (receiving' => receiving)
                       /\ pc'[Dev] \in {"flush", "on"} => receiving'
                       /\ phase'[Dev] = "open" =>
                            /\ ~receiving'
                            /\ pc'[Dev] = "program" => ~streaming'
                            /\ pc'[Dev] \in {"gate", "store", "return", "done"} /\ res'[Dev] = "ok"
                                 => ~streaming'
                       /\ device' = "Open" /\ phase'[Dev] \in {"idle", "configure"} =>
                            snapshot' # Unknown
                       /\ snapshot # Unknown => snapshot' # Unknown
      BY <3>1, <3>2, <3>4 DEF QuietInv, Own
    <3> /\ device = "Open" /\ snapshot # Unknown /\ Silent => ~streaming /\ ~receiving
        /\ pc[Dev] \in {"flush", "on"} => receiving
        /\ phase[Dev] = "open" =>
             /\ ~receiving
             /\ pc[Dev] = "program" => ~streaming
             /\ pc[Dev] \in {"gate", "store", "return", "done"} /\ res[Dev] = "ok" => ~streaming
        /\ device = "Open" /\ phase[Dev] \in {"idle", "configure"} => snapshot # Unknown
      BY DEF QuietInv
    <3> USE DEF Goto, Begin, Finish, shared, hardware, radio, config, control
    <3>5. CASE LeaseBusy(Dev) \/ LeaseStore(Dev) \/ LeaseReturn(Dev)
      BY <3>5 DEF LeaseBusy, LeaseStore, LeaseReturn
    <3>6. CASE LeaseConfigure
      BY <3>6 DEF LeaseConfigure, Take, SnapshotInv, Configuring
    <3>7. CASE ConfigureReset
      BY <3>7 DEF ConfigureReset, After, Effect
    <3>8. CASE ConfigureProgram
      BY <3>8 DEF ConfigureProgram, After
    <3>9. CASE Flush(Dev)
      BY <3>9 DEF Flush, After, Effect
    <3>10. CASE On(Dev)
      BY <3>10 DEF On, After, Effect
    <3>11. CASE ConfigureGate
      BY <3>11 DEF ConfigureGate, Outcomes
    <3>12. CASE ConfigureDone
      BY <3>12 DEF ConfigureDone
    <3>13. CASE OpenDone
      BY <3>13 DEF OpenDone
    <3>14. CASE LeaseShutdown
      BY <3>14 DEF LeaseShutdown, Take, ShuttingDown
    <3>15. CASE ShutdownQuiesce
      BY <3>15 DEF ShutdownQuiesce, Effect, Located, Configuring
    <3>16. CASE ShutdownPowerDown
      BY <3>16 DEF ShutdownPowerDown, Located, Configuring
    <3>17. CASE ShutdownCommit
      BY <3>17 DEF ShutdownCommit, Located, Configuring
    <3>18. CASE ShutdownDone
      BY <3>18 DEF ShutdownDone, ShuttingDown, ClaimInv
    <3>19. CASE FinalDrop
      BY <3>19 DEF FinalDrop
    <3>20. CASE DevCall
      BY <3>20 DEF DevCall, ConfigureBegin, ShutdownBegin, DropDevice
    <3> QED
      BY <2>1, <3>5, <3>6, <3>7, <3>8, <3>9, <3>10, <3>11, <3>12, <3>13, <3>14, <3>15,
         <3>16, <3>17, <3>18, <3>19, <3>20 DEF DevStep
  <2>2. ASSUME NEW s \in Streams, StreamStep(s) \/ StreamCall(s), phase[s] = "absent"
        PROVE  QuietInv'
    <3>1. UNCHANGED <<streaming, receiving>>
      BY <2>2, AbsentIsSilent
    <3>2. UNCHANGED Devices
      BY <2>2, StreamLeavesDevice
    <3>3. RxStream(s)
      <4>1. pc[s] = "idle"
        BY <2>2 DEF Located
      <4>2. ~StreamStep(s)
        BY <2>2, <4>1 DEF StreamStep, LeaseBusy, LeaseStore, LeaseReturn, Check, LeaseReceiver,
              Take, Off, Flush, On, StartOffDone, StartOnDone, ClearHalt, StartFallbackDone,
              StopDone, CloseDone, CleanupDone
      <4> QED
        BY <2>2, <4>2 DEF StreamCall, StartBegin, StopBegin, ReadBegin, ReadEnd, ReadFail, CloseBegin, DropBegin, Leave
    <3>4. claim = "Available"
      BY <3>3 DEF RxStream, MayClaim
    <3>5. /\ phase' = [phase EXCEPT ![s] = "idle"] /\ pc' = [pc EXCEPT ![s] = "idle"]
          /\ receiver' = [receiver EXCEPT ![s] = "Stopped"]
      BY <3>3 DEF RxStream, Finish, Begin, Goto, SetReceiver
    <3>6. phase[Dev] = "idle" /\ device = "Open"
      BY <3>3 DEF RxStream, MayClaim
    <3> QED
      BY <3>1, <3>2, <3>4, <3>5, <3>6 DEF QuietInv, Silent, Devices
  <2>3. ASSUME NEW s \in Streams, StreamStep(s) \/ StreamCall(s), phase[s] # "absent"
        PROVE  QuietInv'
    <3>1. UNCHANGED Devices
      BY <2>3, StreamLeavesDevice
    <3>2. /\ claim = "Held" /\ device = "Open" /\ phase[Dev] # "open"
          /\ \A t \in Streams : phase[t] # "absent" => t = s
      BY <2>3 DEF ClaimInv, ClaimConserved
    <3>3. \A t \in Streams : t # s => UNCHANGED Own(t)
      BY <2>3, StreamLeavesOthers
    <3>4. \A t \in Streams : t # s => phase'[t] = "absent" /\ pc'[t] = "idle"
      BY <3>2, <3>3 DEF Own, Located
    <3> DEFINE Kept == /\ snapshot # Unknown /\ \/ claim' = "Available"
                                                \/ phase'[s] # "absent" /\ receiver'[s] = "Stopped"
                                                \/ SwitchedOff(s)'
                            => ~streaming' /\ ~receiving'
                       /\ phase'[s] \in {"startOff", "startOn", "startHalt", "startFallback", "stop"} =>
                            receiver'[s] = "CleanupRequired"
                       /\ pc'[s] = "off" => ~receiving'
                       /\ pc[Dev] \in {"flush", "on"} => receiving'
    <3> SUFFICES Kept
      <4>1. Silent' => \/ claim' = "Available"
                       \/ phase'[s] # "absent" /\ receiver'[s] = "Stopped"
                       \/ SwitchedOff(s)'
        BY <3>4 DEF Silent, SwitchedOff
      <4>2. \A t \in Streams : t # s =>
              /\ phase'[t] \notin {"startOff", "startOn", "startHalt", "startFallback", "stop"}
              /\ pc'[t] # "off"
        BY <3>4
      <4> QED
        BY <2>3, <3>1, <3>2, <4>1, <4>2 DEF QuietInv, Devices
    <3>5. /\ snapshot # Unknown /\ ((phase[s] # "absent" /\ receiver[s] = "Stopped") \/ SwitchedOff(s))
               => ~streaming /\ ~receiving
          /\ phase[s] \in {"startOff", "startOn", "startHalt", "startFallback", "stop"} =>
               receiver[s] = "CleanupRequired"
          /\ pc[s] = "off" => ~receiving
          /\ pc[Dev] \in {"flush", "on"} => receiving
      BY <3>2 DEF QuietInv, Silent
    <3>6. pc[Dev] \in {"flush", "on"} => ~slot /\ pc[s] \notin LeaseSteps
      BY <3>2 DEF LeaseInv, LeaseConserved, InLease, LeaseSteps, Located, Configuring
    <3>7. /\ phase[s] = "idle" => pc[s] = "idle"
          /\ pc[s] \in {"flush", "on"} => phase[s] = "startOn"
          /\ phase[s] \in StreamPhases
      BY <2>3 DEF Located, StreamPhases, LeaseSteps
    <3> USE DEF SwitchedOff, LeaseSteps, StreamPhases, Goto, Begin, Finish, SetReceiver, shared, hardware, radio,
                stream, control
    <3>8. CASE LeaseBusy(s)
      BY <2>3, <3>2, <3>5, <3>8 DEF LeaseBusy
    <3>9. CASE LeaseStore(s) \/ LeaseReturn(s)
      BY <2>3, <3>2, <3>5, <3>9 DEF LeaseStore, LeaseReturn
    <3>10. CASE Check(s)
      BY <2>3, <3>2, <3>5, <3>7, <3>10 DEF Check
    <3>11. CASE LeaseReceiver(s)
      BY <2>3, <3>2, <3>5, <3>6, <3>11 DEF LeaseReceiver, Take, Enabling
    <3>12. CASE Off(s)
      BY <2>3, <3>2, <3>5, <3>7, <3>12 DEF Off, After, Effect
    <3>13. CASE Flush(s)
      BY <2>3, <3>2, <3>5, <3>7, <3>13 DEF Flush, After, Effect
    <3>14. CASE On(s)
      BY <2>3, <3>2, <3>5, <3>7, <3>14 DEF On, After, Effect
    <3>15. CASE StartOffDone(s) \/ StartFallbackDone(s)
      BY <2>3, <3>2, <3>5, <3>15 DEF StartOffDone, StartFallbackDone, Abandon
    <3>16. CASE StartOnDone(s)
      BY <2>3, <3>2, <3>5, <3>16 DEF StartOnDone, Abandon
    <3>17. CASE ClearHalt(s)
      BY <2>3, <3>2, <3>5, <3>17 DEF ClearHalt
    <3>18. CASE StopDone(s)
      BY <2>3, <3>2, <3>5, <3>18 DEF StopDone
    <3>19. CASE CloseDone(s)
      BY <2>3, <3>2, <3>5, <3>19 DEF CloseDone
    <3>20. CASE CleanupDone(s)
      BY <2>3, <3>2, <3>5, <3>20 DEF CleanupDone, ClaimAfterCleanup
    <3>21. CASE RxStream(s)
      BY <2>3, <3>21 DEF RxStream
    <3>22. CASE StartBegin(s) \/ StopBegin(s)
      BY <2>3, <3>2, <3>5, <3>22 DEF StartBegin, StopBegin
    <3>23. CASE ReadBegin(s) \/ ReadEnd(s) \/ ReadFail(s)
      BY <2>3, <3>2, <3>5, <3>7, <3>23 DEF ReadBegin, ReadEnd, ReadFail
    <3>24. CASE CloseBegin(s) \/ DropBegin(s)
      BY <2>3, <3>2, <3>5, <3>24 DEF CloseBegin, DropBegin, Leave
    <3> QED
      BY <2>3, <3>8, <3>9, <3>10, <3>11, <3>12, <3>13, <3>14, <3>15, <3>16, <3>17, <3>18,
         <3>19, <3>20, <3>21, <3>22, <3>23, <3>24 DEF StreamStep, StreamCall
  <2>4. CASE UNCHANGED vars
    BY <2>4 DEF QuietInv, Silent, SwitchedOff, vars, shared, hardware, radio, control, stream, config
  <2> QED
    BY <2>1, <2>2, <2>3, <2>4 DEF Next, Freed
<1> QED
  BY <1>1, <1>2, TypeCorrect, LocatedInvariant, LeaseInvariant, ClaimInvariant,
     SnapshotInvariant, PTL DEF Spec

\* With the claim free, or its stream stopped, the radio is silent.
THEOREM QuietSafe == Spec => []QuietWhenStopped
<1>1. QuietInv => QuietWhenStopped
  BY DEF QuietInv, Silent, QuietWhenStopped
<1> QED
  BY <1>1, QuietInvariant, PTL

-----------------------------------------------------------------------------
(* Reception                                                                *)

LEMMA FedInvariant == Spec => []FedInv
<1>1. Init => FedInv
  BY DEF Init, FedInv, Fed, Receives
<1>2. TypeOK /\ Located /\ LeaseInv /\ ClaimInv /\ SnapshotInv /\ QuietInv /\ FedInv /\ [Next]_vars
        => FedInv'
  <2> SUFFICES ASSUME TypeOK, Located, LeaseInv, ClaimInv, SnapshotInv, QuietInv, FedInv,
                      [Next]_vars
               PROVE  FedInv'
    OBVIOUS
  <2> /\ DOMAIN phase = Actors /\ DOMAIN pc = Actors /\ DOMAIN res = Actors
      /\ DOMAIN receiver = Streams /\ DOMAIN queue = Streams
      /\ streaming \in BOOLEAN /\ receiving \in BOOLEAN /\ valid \in BOOLEAN /\ reinit \in BOOLEAN
    BY DEF TypeOK
  <2>1. ASSUME NEW s \in Streams, phase[s] # "absent"
        PROVE  /\ phase[Dev] \in {"idle", "configure", "gone"} /\ phase[s] \in StreamPhases
               /\ \A t \in Streams : phase[t] # "absent" => t = s
    BY <2>1 DEF ClaimInv, ClaimConserved, Located, DevPhases, ShuttingDown
  <2>2. ASSUME DevStep \/ DevCall PROVE FedInv'
    <3>1. pc'[Dev] = "reset" => reinit'
      <4>1. pc[Dev] = "reset" => reinit
        BY DEF FedInv
      <4> USE DEF Goto, Begin, Finish, hardware, radio, control
      <4>2. CASE LeaseConfigure
        BY <4>2 DEF LeaseConfigure, Take
      <4>3. CASE ConfigureReset \/ ConfigureProgram \/ Flush(Dev) \/ On(Dev) \/ ConfigureGate
        BY <4>3 DEF ConfigureReset, ConfigureProgram, Flush, On, After, ConfigureGate
      <4>4. CASE LeaseBusy(Dev) \/ LeaseStore(Dev) \/ LeaseReturn(Dev) \/ ConfigureDone \/ OpenDone
        BY <4>4 DEF LeaseBusy, LeaseStore, LeaseReturn, ConfigureDone, OpenDone
      <4>5. CASE \/ LeaseShutdown \/ ShutdownQuiesce \/ ShutdownPowerDown \/ ShutdownCommit
                 \/ ShutdownDone \/ FinalDrop
        BY <4>1, <4>5 DEF LeaseShutdown, Take, ShutdownQuiesce, ShutdownPowerDown, ShutdownCommit,
                          ShutdownDone, FinalDrop
      <4>6. CASE DevCall
        BY <4>1, <4>6 DEF DevCall, ConfigureBegin, ShutdownBegin, DropDevice
      <4> QED
        BY <2>2, <4>2, <4>3, <4>4, <4>5, <4>6 DEF DevStep
    <3>2. ASSUME NEW s \in Streams PROVE Fed(s)'
      <4>1. UNCHANGED Own(s)
        BY <2>2, DeviceLeavesStreams
      <4>2. Receives(s)' <=> Receives(s)
        BY <4>1 DEF Receives, Own
      <4> SUFFICES ASSUME phase[s] # "absent"
                   PROVE  /\ phase[s] = "startOn" /\ pc[s] \in {"flush", "on"} => receiving'
                          /\ Receives(s) => /\ receiving'
                                            /\ valid' => streaming'
                                            /\ pc'[Dev] = "program" /\ ~reinit' => streaming'
                                            /\ pc'[Dev] = "gate" /\ res'[Dev] = "ok" => streaming'
        <5>1. phase[s] = "absent" => ~Receives(s) /\ phase[s] # "startOn"
          BY DEF Receives, FedInv, Fed
        <5>2. receiver[s] = "Running" => phase[s] \in {"idle", "read"} /\ queue[s] = "live"
          BY DEF FedInv, Fed
        <5> QED
          BY <4>1, <4>2, <5>1, <5>2 DEF Fed, Own
      <4>3. phase[Dev] \in {"idle", "configure", "gone"}
        BY <2>1
      <4>4. ~ShuttingDown /\ phase[Dev] # "open"
        BY <4>3 DEF ShuttingDown
      <4>5. /\ phase[s] = "startOn" /\ pc[s] \in {"flush", "on"} => receiving
            /\ Receives(s) => /\ receiving
                              /\ valid => streaming
                              /\ pc[Dev] = "program" /\ ~reinit => streaming
                              /\ pc[Dev] = "gate" /\ res[Dev] = "ok" => streaming
            /\ pc[Dev] = "reset" => reinit
        BY DEF FedInv, Fed
      <4>6. pc[Dev] \in {"reset", "program", "flush", "on", "gate"} => ~valid
        BY <4>3 DEF SnapshotInv, Configuring, Located
      <4>7. pc[Dev] \notin {"quiesce", "powerdown", "commit"}
        BY <4>3 DEF Located, Configuring
      <4> HIDE DEF Receives
      <4> USE DEF Goto, Begin, Finish, hardware, radio, control
      <4>8. CASE LeaseBusy(Dev) \/ LeaseStore(Dev) \/ LeaseReturn(Dev)
        BY <4>5, <4>8 DEF LeaseBusy, LeaseStore, LeaseReturn
      <4>9. CASE LeaseConfigure
        BY <4>5, <4>9 DEF LeaseConfigure, Take
      <4>10. CASE ConfigureReset
        BY <4>5, <4>6, <4>10 DEF ConfigureReset, After
      <4>11. CASE ConfigureProgram
        BY <4>5, <4>6, <4>11 DEF ConfigureProgram, After
      <4>12. CASE Flush(Dev)
        BY <4>5, <4>6, <4>12 DEF Flush, After
      <4>13. CASE On(Dev)
        BY <4>5, <4>6, <4>13 DEF On, After, Effect
      <4>14. CASE ConfigureGate
        BY <4>5, <4>14 DEF ConfigureGate
      <4>15. CASE ConfigureDone
        BY <4>5, <4>15 DEF ConfigureDone
      <4>16. CASE OpenDone
        BY <4>4, <4>16 DEF OpenDone
      <4>17. CASE LeaseShutdown \/ ShutdownDone
        BY <4>4, <4>17 DEF LeaseShutdown, ShutdownDone
      <4>18. CASE ShutdownQuiesce \/ ShutdownPowerDown \/ ShutdownCommit
        BY <4>7, <4>18 DEF ShutdownQuiesce, ShutdownPowerDown, ShutdownCommit
      <4>19. CASE FinalDrop
        BY <4>19 DEF FinalDrop, NoOwner
      <4>20. CASE DevCall
        BY <4>5, <4>20 DEF DevCall, ConfigureBegin, ShutdownBegin, DropDevice
      <4> QED
        BY <2>2, <4>8, <4>9, <4>10, <4>11, <4>12, <4>13, <4>14, <4>15, <4>16, <4>17, <4>18,
           <4>19, <4>20 DEF DevStep
    <3> QED
      BY <3>1, <3>2 DEF FedInv
  <2>3. ASSUME NEW s \in Streams, StreamStep(s) \/ StreamCall(s) PROVE FedInv'
    <3>1. UNCHANGED Devices
      BY <2>3, StreamLeavesDevice
    <3>2. ASSUME NEW t \in Streams, t # s PROVE Fed(t)'
      <4>1. UNCHANGED Own(t)
        BY <2>3, <3>2, StreamLeavesOthers
      <4>2. CASE phase[s] = "absent"
        BY <2>3, <3>1, <4>1, <4>2, AbsentIsSilent DEF FedInv, Fed, Receives, Own, Devices
      <4>3. CASE phase[s] # "absent"
        <5>1. phase[t] = "absent"
          BY <2>1, <3>2, <4>3
        <5> QED
          BY <4>1, <5>1 DEF FedInv, Fed, Receives, Own
      <4> QED
        BY <4>2, <4>3
    <3>3. Fed(s)'
      <4>1. /\ receiver[s] = "Running" => phase[s] \in {"idle", "read"} /\ queue[s] = "live"
            /\ phase[s] = "startOn" /\ pc[s] \in {"flush", "on"} => receiving
            /\ Receives(s) => /\ receiving
                              /\ valid => streaming
                              /\ pc[Dev] = "program" /\ ~reinit => streaming
                              /\ pc[Dev] = "gate" /\ res[Dev] = "ok" => streaming
        BY DEF FedInv, Fed
      <4>2. UNCHANGED <<valid, reinit>> /\ pc'[Dev] = pc[Dev] /\ res'[Dev] = res[Dev]
        BY <3>1 DEF Devices
      <4>3. /\ phase[s] \in {"absent", "idle", "read"} => pc[s] = "idle"
            /\ pc[s] \in {"flush", "on"} => phase[s] = "startOn"
            /\ pc[s] = "off" => phase[s] \in {"startOff", "startFallback", "stop", "close", "cleanup"}
            /\ phase[s] = "startHalt" => pc[s] = "halt"
            /\ phase[s] \in StreamPhases
        BY DEF Located, StreamPhases
      <4>4. pc[s] \in LeaseSteps => pc[Dev] \notin {"program", "gate"}
        BY DEF LeaseInv, LeaseConserved, InLease, LeaseSteps
      <4>5. phase[s] \in {"startOff", "startOn", "startHalt", "startFallback", "stop"} =>
              receiver[s] = "CleanupRequired"
        BY DEF QuietInv
      <4> USE DEF Fed, Receives, LeaseSteps, StreamPhases, Goto, Begin, Finish, SetReceiver,
                  SetQueue, hardware, radio, stream, control
      <4>6. CASE LeaseBusy(s) \/ LeaseStore(s) \/ LeaseReturn(s)
        BY <4>1, <4>2, <4>3, <4>6 DEF LeaseBusy, LeaseStore, LeaseReturn
      <4>7. CASE Check(s)
        BY <4>1, <4>2, <4>3, <4>7 DEF Check
      <4>8. CASE LeaseReceiver(s)
        BY <4>1, <4>2, <4>3, <4>8 DEF LeaseReceiver, Take, Enabling
      <4>9. CASE Off(s)
        BY <4>1, <4>2, <4>3, <4>9 DEF Off, After
      <4>10. CASE Flush(s)
        BY <4>1, <4>2, <4>3, <4>5, <4>10 DEF Flush, After
      <4>11. CASE On(s)
        BY <4>1, <4>2, <4>3, <4>4, <4>5, <4>11 DEF On, After, Effect
      <4>12. CASE StartOffDone(s) \/ StartFallbackDone(s)
        BY <4>1, <4>2, <4>5, <4>12 DEF StartOffDone, StartFallbackDone, Abandon
      <4>13. CASE StartOnDone(s)
        BY <4>1, <4>2, <4>5, <4>13 DEF StartOnDone, Abandon
      <4>14. CASE ClearHalt(s)
        BY <4>1, <4>2, <4>5, <4>14 DEF ClearHalt
      <4>15. CASE StopDone(s) \/ CloseDone(s) \/ CleanupDone(s)
        BY <4>1, <4>2, <4>5, <4>15 DEF StopDone, CloseDone, CleanupDone
      <4>16. CASE RxStream(s) \/ ReadBegin(s) \/ ReadEnd(s) \/ ReadFail(s)
        BY <4>1, <4>2, <4>3, <4>16 DEF RxStream, ReadBegin, ReadEnd, ReadFail
      <4>17. CASE StartBegin(s) \/ StopBegin(s)
        BY <4>1, <4>2, <4>17 DEF StartBegin, StopBegin
      <4>18. CASE CloseBegin(s) \/ DropBegin(s)
        BY <4>1, <4>2, <4>18 DEF CloseBegin, DropBegin, Leave
      <4> QED
        BY <2>3, <4>6, <4>7, <4>8, <4>9, <4>10, <4>11, <4>12, <4>13, <4>14, <4>15, <4>16,
           <4>17, <4>18 DEF StreamStep, StreamCall
    <3>4. pc'[Dev] = "reset" => reinit'
      BY <3>1 DEF FedInv, Devices
    <3> QED
      BY <3>2, <3>3, <3>4 DEF FedInv
  <2>4. CASE UNCHANGED vars
    BY <2>4 DEF FedInv, Fed, Receives, vars, hardware, radio, control, stream
  <2> QED
    BY <2>2, <2>3, <2>4 DEF Next, Freed
<1> QED
  BY <1>1, <1>2, TypeCorrect, LocatedInvariant, LeaseInvariant, ClaimInvariant,
     SnapshotInvariant, QuietInvariant, PTL DEF Spec

\* A running stream has its buffers submitted and a radio that feeds it.
THEOREM FedSafe == Spec => []RunningStreamIsFed
<1>1. LeaseInv /\ FedInv => RunningStreamIsFed
  BY DEF LeaseInv, FlagMirrorsHardware, FedInv, Fed, Receives, RunningStreamIsFed
<1> QED
  BY <1>1, LeaseInvariant, FedInvariant, PTL

-----------------------------------------------------------------------------
(* The implementation of DeviceLifecycle: the owner                         *)

USE OwnersAssumption

\* With the claim held by s the owner is s.
LEMMA OwnerIsStream ==
  ASSUME NEW s \in Streams, claim = "Held", phase[s] # "absent",
         \A t \in Streams : phase[t] # "absent" => t = s
  PROVE  Owner = s
BY DEF Owner

\* With the claim free nobody is, with a failed cleanup it is reserved.
LEMMA OwnerIsNone ==
  (claim = "Available" => Owner = Nobody) /\ (claim = "CleanupRequired" => Owner = Reserved)
BY DEF Owner

\* The only stream there is, as the owner.
LEMMA OwnerIsThere ==
  ASSUME ClaimInv, NEW s \in Streams, phase[s] # "absent"
  PROVE  claim = "Held" /\ Owner = s /\ device = "Open"
<1>1. claim = "Held" /\ device = "Open" /\ \A t \in Streams : phase[t] # "absent" => t = s
  BY DEF ClaimInv, ClaimConserved
<1> QED
  BY <1>1, OwnerIsStream

\* The same of the state a step leads to.
LEMMA NextOwnerIsNone ==
  (claim' = "Available" => Owner' = Nobody) /\ (claim' = "CleanupRequired" => Owner' = Reserved)
BY DEF Owner

LEMMA NextOwnerIsStream ==
  ASSUME NEW s \in Streams, claim' = "Held", phase'[s] # "absent",
         \A t \in Streams : phase'[t] # "absent" => t = s
  PROVE  Owner' = s
BY DEF Owner

LEMMA NextOwnerIsThere ==
  ASSUME ClaimInv', NEW s \in Streams, phase'[s] # "absent"
  PROVE  Owner' = s
<1>1. claim' = "Held" /\ \A t \in Streams : phase'[t] # "absent" => t = s
  BY DEF ClaimInv, ClaimConserved
<1> QED
  BY <1>1, NextOwnerIsStream

-----------------------------------------------------------------------------
(* The steps                                                                *)

\* A receiver that an owner has, or that is switched off, changes as the
\* lifecycle allows.
LEMMA Switches ==
  ASSUME UNCHANGED <<device, Owner>>, streaming' \in BOOLEAN,
         streaming' => streaming \/ (device = "Open" /\ Owner # Nobody),
         streaming \in BOOLEAN
  PROVE  [Lifecycle!Next]_(Lifecycle!vars)
<1>1. CASE streaming' = streaming
  BY <1>1 DEF Lifecycle!vars
<1>2. CASE streaming' = FALSE
  BY <1>2 DEF Lifecycle!Next, Lifecycle!SwitchOff
<1>3. CASE streaming' = TRUE /\ device = "Open" /\ Owner # Nobody
  BY <1>3 DEF Lifecycle!Next, Lifecycle!SwitchOn
<1> QED
  BY <1>1, <1>2, <1>3

\* A stream claims the receiver, uses it, and hands it back or abandons it.
LEMMA StreamSimulates ==
  ASSUME TypeOK, TypeOK', Located, ClaimInv, ClaimInv', QuietInv,
         NEW s \in Streams, StreamStep(s) \/ StreamCall(s)
  PROVE  [Lifecycle!Next]_(Lifecycle!vars)
<1> USE DEF Goto, Begin, Finish
<1> /\ DOMAIN phase = Actors /\ DOMAIN pc = Actors /\ DOMAIN res = Actors
    /\ streaming \in BOOLEAN /\ streaming' \in BOOLEAN
  BY DEF TypeOK
<1>1. UNCHANGED <<device, snapshot>>
  BY StreamLeavesDevice DEF Devices
<1>2. CASE phase[s] = "absent"
  <2>1. RxStream(s)
    <3>1. pc[s] = "idle"
      BY <1>2 DEF Located
    <3>2. ~StreamStep(s)
      BY <1>2, <3>1 DEF StreamStep, LeaseBusy, LeaseStore, LeaseReturn, Check, LeaseReceiver, Take,
            Off, Flush, On, StartOffDone, StartOnDone, ClearHalt, StartFallbackDone, StopDone,
            CloseDone, CleanupDone
    <3> QED
      BY <1>2, <3>2 DEF StreamCall, StartBegin, StopBegin, ReadBegin, ReadEnd, ReadFail, CloseBegin, DropBegin, Leave
  <2>2. claim = "Available" /\ device = "Open" /\ phase'[s] = "idle" /\ streaming' = streaming
    BY <2>1 DEF RxStream, MayClaim, radio
  <2>3. Owner = Nobody
    BY <2>2, OwnerIsNone
  <2>4. Owner' = s
    BY <2>2, NextOwnerIsThere
  <2> QED
    BY <1>1, <2>2, <2>3, <2>4 DEF Lifecycle!Next, Lifecycle!Claim
<1>3. CASE phase[s] # "absent" /\ phase'[s] # "absent"
  <2>1. Owner = s /\ device = "Open"
    BY <1>3, OwnerIsThere
  <2>2. Owner' = s
    BY <1>3, NextOwnerIsThere
  <2> QED
    BY <1>1, <2>1, <2>2, Switches
<1>4. CASE phase[s] # "absent" /\ phase'[s] = "absent"
  <2>1. Owner = s /\ claim = "Held" /\ device = "Open" /\ snapshot # Unknown
    BY <1>4, OwnerIsThere DEF QuietInv
  <2>2. CloseDone(s) \/ CleanupDone(s)
    <3>1. ~LeaseBusy(s) /\ ~LeaseStore(s) /\ ~LeaseReturn(s) /\ ~Check(s) /\ ~LeaseReceiver(s)
      BY <1>4 DEF LeaseBusy, LeaseStore, LeaseReturn, Check, LeaseReceiver
    <3>2. ~Off(s) /\ ~Flush(s) /\ ~On(s)
      BY <1>4 DEF Off, Flush, On, After
    <3>3. ~StartOffDone(s) /\ ~StartOnDone(s) /\ ~ClearHalt(s) /\ ~StartFallbackDone(s) /\ ~StopDone(s)
      BY <1>4 DEF StartOffDone, StartOnDone, ClearHalt, StartFallbackDone, StopDone, Abandon
    <3>4. ~StreamCall(s)
      BY <1>4 DEF StreamCall, RxStream, StartBegin, StopBegin, ReadBegin, ReadEnd, ReadFail, CloseBegin, DropBegin,
                  Leave, control
    <3> QED
      BY <3>1, <3>2, <3>3, <3>4 DEF StreamStep
  <2>3. streaming' = streaming /\ phase[s] \in {"close", "cleanup"} /\ pc[s] = "done"
    BY <2>2 DEF CloseDone, CleanupDone, radio
  <2>4. CASE res[s] = "ok"
    <3>1. claim' = "Available"
      BY <2>2, <2>4 DEF CloseDone, CleanupDone, ClaimAfterCleanup
    <3>2. ~streaming
      BY <2>1, <2>3, <2>4 DEF QuietInv, Silent, SwitchedOff
    <3>3. Owner' = Nobody
      BY <3>1, NextOwnerIsNone
    <3> QED
      BY <1>1, <2>1, <2>3, <3>2, <3>3 DEF Lifecycle!Next, Lifecycle!HandBack
  <2>5. CASE res[s] # "ok"
    <3>1. claim' = "CleanupRequired"
      BY <1>4, <2>2, <2>5 DEF CloseDone, CleanupDone, ClaimAfterCleanup
    <3>2. Owner' = Reserved
      BY <3>1, NextOwnerIsNone
    <3> QED
      BY <1>1, <2>1, <2>3, <3>2 DEF Lifecycle!Next, Lifecycle!Abandon
  <2> QED
    BY <2>4, <2>5
<1> QED
  BY <1>2, <1>3, <1>4

\* While the device works, the owner stays.
LEMMA DeviceKeepsOwner ==
  ASSUME TypeOK, ClaimInv, DevStep \/ DevCall, claim' = claim
  PROVE  Owner' = Owner
<1>1. \A s \in Streams : phase'[s] = phase[s]
  BY DeviceLeavesStreams DEF Own
<1>2. CASE claim = "Held"
  <2>1. PICK s \in Streams : phase[s] # "absent" /\ \A t \in Streams : phase[t] # "absent" => t = s
    BY <1>2 DEF ClaimInv, ClaimConserved
  <2>2. Owner = s
    BY <1>2, <2>1, OwnerIsStream
  <2>3. Owner' = s
    BY <1>1, <1>2, <2>1, NextOwnerIsStream
  <2> QED
    BY <2>2, <2>3
<1>3. CASE claim # "Held"
  BY <1>3, OwnerIsNone, NextOwnerIsNone DEF TypeOK
<1> QED
  BY <1>2, <1>3

\* What the device does to lifecycle, claim and stream endpoint: it keeps the
\* first two and restores reception only for a claim, ...
Keeps == /\ UNCHANGED <<device, claim>>
         /\ streaming' => streaming \/ (device = "Open" /\ claim # "Available")

\* ... or begins a shutdown without a stream, ...
Begins == /\ device = "Open" /\ device' = "Closing"
          /\ claim # "Held"
          /\ UNCHANGED <<claim, streaming>>

\* ... or completes it with the endpoint stopped.
Ends == /\ device = "Closing" /\ device' = "Closed"
        /\ claim' = "Available"
        /\ ~streaming /\ UNCHANGED streaming

LEMMA DeviceKeepsBeginsOrEnds ==
  ASSUME TypeOK, Located, ClaimInv, ClosedInv, QuietInv, DevStep \/ DevCall
  PROVE  Keeps \/ Begins \/ Ends
<1> USE DEF shared, radio, config
<1> streaming \in BOOLEAN
  BY DEF TypeOK
<1>1. CASE LeaseBusy(Dev) \/ LeaseStore(Dev) \/ LeaseReturn(Dev) \/ LeaseConfigure \/ LeaseShutdown
  BY <1>1 DEF LeaseBusy, LeaseStore, LeaseReturn, LeaseConfigure, LeaseShutdown, Keeps
<1>2. CASE ConfigureReset \/ Flush(Dev) \/ ShutdownQuiesce
  BY <1>2 DEF ConfigureReset, Flush, ShutdownQuiesce, Effect, Keeps
<1>3. CASE ConfigureProgram \/ ConfigureGate \/ ConfigureDone \/ ShutdownPowerDown
  BY <1>3 DEF ConfigureProgram, ConfigureGate, ConfigureDone, ShutdownPowerDown, Keeps
<1>4. CASE On(Dev)
  <2>1. UNCHANGED <<device, claim>> /\ pc[Dev] = "on"
    BY <1>4 DEF On
  <2>2. receiving /\ Configuring
    BY <2>1 DEF QuietInv, Located, DevPhases, Configuring, ShuttingDown
  <2>3. device = "Open" /\ phase[Dev] = "configure"
    BY <2>2 DEF ClosedInv, QuietInv, Configuring
  <2>4. claim # "Available"
    BY <2>2, <2>3 DEF QuietInv, Silent
  <2> QED
    BY <2>1, <2>3, <2>4 DEF Keeps
<1>5. CASE OpenDone
  BY <1>5 DEF OpenDone, ClosedInv, ClaimInv, Configuring, Keeps, Begins
<1>6. CASE ShutdownBegin
  BY <1>6 DEF ShutdownBegin, MayShutdown, Keeps, Begins
<1>7. CASE ShutdownCommit
  <2>1. /\ device' = "Closed" /\ claim' = "Available" /\ streaming' = streaming
        /\ pc[Dev] = "commit"
    BY <1>7 DEF ShutdownCommit
  <2>2. ~streaming /\ device = "Closing"
    BY <2>1 DEF ClosedInv, ClaimInv, Located, DevPhases, Configuring, ShuttingDown, TypeOK
  <2> QED
    BY <2>1, <2>2 DEF Ends
<1>8. CASE ShutdownDone \/ FinalDrop \/ DropDevice \/ \E c \in Configs : ConfigureBegin(c)
  BY <1>8 DEF ShutdownDone, FinalDrop, DropDevice, ConfigureBegin, Keeps
<1> QED
  BY <1>1, <1>2, <1>3, <1>4, <1>5, <1>6, <1>7, <1>8 DEF DevStep, DevCall

\* Each of the three is a step of the lifecycle.
LEMMA DeviceSimulates ==
  ASSUME TypeOK, TypeOK', Located, ClaimInv, ClosedInv, QuietInv, DevStep \/ DevCall
  PROVE  [Lifecycle!Next]_(Lifecycle!vars)
<1> /\ streaming \in BOOLEAN /\ streaming' \in BOOLEAN
    /\ claim \in {"Available", "Held", "CleanupRequired"}
  BY DEF TypeOK
<1>1. claim # "Held" => Owner \notin Streams
  BY OwnerIsNone
<1>2. claim # "Available" => Owner # Nobody
  <2>1. CASE claim = "Held"
    <3>1. PICK s \in Streams : phase[s] # "absent"
      BY <2>1 DEF ClaimInv, ClaimConserved
    <3> QED
      BY <3>1, OwnerIsThere
  <2> QED
    BY <2>1, OwnerIsNone
<1>3. CASE Keeps
  <2>1. UNCHANGED <<device, Owner>> /\ (streaming' => streaming \/ (device = "Open" /\ Owner # Nobody))
    BY <1>2, <1>3, DeviceKeepsOwner DEF Keeps
  <2> QED
    BY <2>1, Switches
<1>4. CASE Begins
  BY <1>1, <1>4, DeviceKeepsOwner DEF Begins, Lifecycle!Next, Lifecycle!BeginShutdown
<1>5. CASE Ends
  BY <1>5, NextOwnerIsNone DEF Ends, Lifecycle!Next, Lifecycle!EndShutdown
<1> QED
  BY <1>3, <1>4, <1>5, DeviceKeepsBeginsOrEnds

\* One owner at a time, a receiver switched on for an owner only, and an end
\* that cannot be undone: the session is an implementation of the lifecycle.
THEOREM SessionImplementsLifecycle == Spec => ImplementsLifecycle
<1>1. Init => Lifecycle!Init
  BY OwnerIsNone DEF Init, Lifecycle!Init
<1>2. TypeOK /\ TypeOK' /\ Located /\ ClaimInv /\ ClaimInv' /\ ClosedInv /\ QuietInv /\ [Next]_vars
        => [Lifecycle!Next]_(Lifecycle!vars)
  <2> SUFFICES ASSUME TypeOK, TypeOK', Located, ClaimInv, ClaimInv', ClosedInv, QuietInv,
                      [Next]_vars
               PROVE  [Lifecycle!Next]_(Lifecycle!vars)
    OBVIOUS
  <2>1. CASE UNCHANGED vars
    BY <2>1 DEF vars, shared, radio, control, Owner, Lifecycle!vars
  <2> QED
    BY <2>1, StreamSimulates, DeviceSimulates DEF Next, Freed
<1> QED
  BY <1>1, <1>2, TypeCorrect, LocatedInvariant, ClaimInvariant, ClosedInvariant, QuietInvariant,
     PTL DEF Spec, ImplementsLifecycle, Lifecycle!Spec
===============================================================================
