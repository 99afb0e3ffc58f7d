---------------------------- MODULE SessionProofs ----------------------------
(***************************************************************************)
(* Theorems about Session for any number of streams and configurations:    *)
(* the leasing of the hardware and the stream claim.                       *)
(*                                                                         *)
(* The invariants are layered.  TypeOK stands alone; Located says where in *)
(* its operation an actor can be; with that, LeaseInv and ClaimInv are     *)
(* inductive, and the properties of Session that are about leases, claim   *)
(* and shutdown follow.                                                    *)
(***************************************************************************)
EXTENDS Session, TLAPS

\* The steps each operation is made of.
Located ==
  /\ phase[Dev] \in DevPhases
  /\ phase[Dev] \in {"idle", "gone", "freed"} => pc[Dev] = "idle"
  /\ phase[Dev] = "final" => pc[Dev] \in {"quiesce", "powerdown"}
  /\ Configuring => pc[Dev] \in {"lease", "reset", "program", "flush", "on",
                                "gate", "store", "return", "done"}
  /\ ShuttingDown => pc[Dev] \in {"lease", "quiesce", "powerdown", "commit",
                                 "store", "return", "done"}
  /\ phase[Dev] \in {"final", "freed"} => \A s \in Streams : phase[s] = "absent"
  /\ \A s \in Streams :
       /\ phase[s] \in StreamPhases
       /\ phase[s] \in {"absent", "idle", "read"} => pc[s] = "idle"
       /\ phase[s] = "startHalt" => pc[s] = "halt"
       /\ phase[s] = "startOn" => pc[s] \in {"check", "lease", "flush", "on",
                                           "store", "return", "done"}
       /\ phase[s] \in {"startOff", "startFallback", "stop", "close", "cleanup"}
            => pc[s] \in {"lease", "off", "store", "return", "done"}

\* Between the two stores of its drop, a lease has already published the
\* validity of the hardware it is about to return.
LeaseInv == /\ LeaseConserved
            /\ FlagMirrorsHardware
            /\ \A a \in Actors : pc[a] = "return" => flag = valid

\* A device that is being opened has no stream yet, and one that is being shut
\* down has none any more.
ClaimInv == /\ ClaimConserved
            /\ phase[Dev] = "open" => claim # "Held"
            /\ ShuttingDown => device # "Open"
            /\ device # "Open" => claim # "Held"

USE SessionAssumption DEF Actors

-----------------------------------------------------------------------------
\* A register of the radio keeps a Boolean value.
LEMMA EffectBoolean ==
  ASSUME NEW r, NEW old \in BOOLEAN, NEW new \in BOOLEAN
  PROVE  Effect(r, old, new) \subseteq BOOLEAN
BY DEF Effect

\* Type correctness of every step of every operation of session.rs.
THEOREM TypeCorrect == Spec => []TypeOK
<1>1. Init => TypeOK
  <2> SUFFICES ASSUME Init PROVE TypeOK
    OBVIOUS
  <2>1. /\ slot \in BOOLEAN /\ flag \in BOOLEAN
        /\ valid \in BOOLEAN /\ receiving \in BOOLEAN /\ reinit \in BOOLEAN
        /\ streaming \in BOOLEAN /\ power \in BOOLEAN
    BY Zenon DEF Init
  <2> QED
    BY <2>1 DEF Init, TypeOK, StreamPhases, DevPhases, LeaseSteps
<1>2. TypeOK /\ [Next]_vars => TypeOK'
  <2> SUFFICES ASSUME TypeOK, [Next]_vars PROVE TypeOK'
    OBVIOUS
  <2> USE DEF TypeOK, StreamPhases, DevPhases, LeaseSteps, Goto, Begin, Finish,
              SetReceiver, SetQueue, shared, hardware, radio, stream, config,
              control, vars
  <2>1. ASSUME NEW a \in Actors, LeaseBusy(a) PROVE TypeOK'
    BY <2>1 DEF LeaseBusy
  <2>2. ASSUME NEW a \in Actors, LeaseStore(a) PROVE TypeOK'
    BY <2>2 DEF LeaseStore
  <2>3. ASSUME NEW a \in Actors, LeaseReturn(a) PROVE TypeOK'
    <3>1. /\ slot' \in BOOLEAN
          /\ pc' \in [Actors -> LeaseSteps \cup {"idle", "lease", "check", "halt", "done"}]
      BY <2>3 DEF LeaseReturn
    <3>2. UNCHANGED <<flag, res, hardware, radio, phase, stream, config, shared>>
      BY <2>3 DEF LeaseReturn
    <3> QED
      BY <3>1, <3>2
  <2>4. ASSUME NEW s \in Streams, Check(s) PROVE TypeOK'
    BY <2>4 DEF Check
  <2>5. ASSUME NEW s \in Streams, LeaseReceiver(s) PROVE TypeOK'
    <3>1. slot' \in BOOLEAN /\ receiving' \in BOOLEAN
      BY <2>5, Zenon DEF LeaseReceiver, Take, Enabling
    <3> QED
      BY <2>5, <3>1 DEF LeaseReceiver, Take
  <2>6. ASSUME NEW s \in Streams, Off(s) PROVE TypeOK'
    <3>1. streaming' \in BOOLEAN
      BY <2>6, EffectBoolean, Zenon DEF Off
    <3> QED
      BY <2>6, <3>1 DEF Off, After, Outcomes
  <2>7. ASSUME NEW a \in Actors, Flush(a) PROVE TypeOK'
    <3>1. streaming' \in BOOLEAN
      BY <2>7, EffectBoolean, Zenon DEF Flush
    <3> QED
      BY <2>7, <3>1 DEF Flush, After, Outcomes
  <2>8. ASSUME NEW a \in Actors, On(a) PROVE TypeOK'
    <3>1. streaming' \in BOOLEAN
      BY <2>8, EffectBoolean, Zenon DEF On
    <3> QED
      BY <2>8, <3>1 DEF On, After, Outcomes
  <2>9. ASSUME NEW c \in Configs, ConfigureBegin(c) PROVE TypeOK'
    BY <2>9 DEF ConfigureBegin
  <2>10. CASE LeaseConfigure
    <3>1. slot' \in BOOLEAN /\ valid' \in BOOLEAN /\ reinit' \in BOOLEAN
      BY <2>10, Zenon DEF LeaseConfigure, Take
    <3> QED
      BY <2>10, <3>1 DEF LeaseConfigure, Take
  <2>11. CASE ConfigureReset
    <3>1. streaming' \in BOOLEAN /\ power' \in BOOLEAN
      BY <2>11, EffectBoolean, Zenon DEF ConfigureReset
    <3> QED
      BY <2>11, <3>1 DEF ConfigureReset, After, Outcomes
  <2>12. CASE ConfigureProgram
    BY <2>12 DEF ConfigureProgram, After, Outcomes
  <2>13. CASE ConfigureGate
    BY <2>13 DEF ConfigureGate, Outcomes
  <2>14. CASE ConfigureDone
    BY <2>14 DEF ConfigureDone
  <2>15. CASE OpenDone
    BY <2>15 DEF OpenDone
  <2>16. CASE ShutdownBegin
    BY <2>16 DEF ShutdownBegin, MayShutdown
  <2>17. CASE LeaseShutdown
    <3>1. slot' \in BOOLEAN
      BY <2>17, Zenon DEF LeaseShutdown, Take
    <3> QED
      BY <2>17, <3>1 DEF LeaseShutdown, Take
  <2>18. CASE ShutdownQuiesce
    <3>1. streaming' \in BOOLEAN /\ receiving' \in BOOLEAN
      BY <2>18, EffectBoolean, Zenon DEF ShutdownQuiesce
    <3>2. PICK r \in {"ok", "err", "canceled"} :
            /\ res' = [res EXCEPT ![Dev] = r]
            /\ pc' = [pc EXCEPT ![Dev] = IF r = "canceled" THEN "store" ELSE "powerdown"]
      BY <2>18 DEF ShutdownQuiesce, Outcomes
    <3> QED
      <4>1. /\ pc' \in [Actors -> LeaseSteps \cup {"idle", "lease", "check", "halt", "done"}]
            /\ res' \in [Actors -> {"ok", "err", "canceled"}]
        BY <3>2
      <4>2. UNCHANGED <<shared, slot, flag, valid, reinit, power, programmed, phase, stream, config>>
        BY <2>18 DEF ShutdownQuiesce
      <4> QED
        BY <3>1, <4>1, <4>2
  <2>19. CASE ShutdownPowerDown
    <3>1. power' \in BOOLEAN /\ valid' \in BOOLEAN
      BY <2>19, EffectBoolean, Zenon DEF ShutdownPowerDown
    <3>2. res' \in [Actors -> {"ok", "err", "canceled"}]
      BY <2>19 DEF ShutdownPowerDown, Outcomes
    <3>3. pc' \in [Actors -> LeaseSteps \cup {"idle", "lease", "check", "halt", "done"}]
      BY <2>19 DEF ShutdownPowerDown
    <3>4. phase' \in [Actors -> StreamPhases \cup DevPhases]
      BY <2>19 DEF ShutdownPowerDown
    <3> QED
      BY <2>19, <3>1, <3>2, <3>3, <3>4 DEF ShutdownPowerDown
  <2>20. CASE ShutdownCommit
    BY <2>20 DEF ShutdownCommit
  <2>21. CASE ShutdownDone
    BY <2>21 DEF ShutdownDone
  <2>22. CASE DropDevice
    BY <2>22 DEF DropDevice
  <2>23. CASE FinalDrop
    <3>1. slot' \in BOOLEAN
      BY <2>23, Zenon DEF FinalDrop
    <3> QED
      BY <2>23, <3>1 DEF FinalDrop
  <2>24. ASSUME NEW s \in Streams, RxStream(s) PROVE TypeOK'
    BY <2>24 DEF RxStream, MayClaim
  <2>25. ASSUME NEW s \in Streams, StartBegin(s) PROVE TypeOK'
    BY <2>25 DEF StartBegin
  <2>26. ASSUME NEW s \in Streams, StartOffDone(s) PROVE TypeOK'
    BY <2>26 DEF StartOffDone, Abandon
  <2>27. ASSUME NEW s \in Streams, StartOnDone(s) PROVE TypeOK'
    BY <2>27 DEF StartOnDone, Abandon
  <2>28. ASSUME NEW s \in Streams, ClearHalt(s) PROVE TypeOK'
    BY <2>28 DEF ClearHalt, Outcomes
  <2>29. ASSUME NEW s \in Streams, StartFallbackDone(s) PROVE TypeOK'
    BY <2>29 DEF StartFallbackDone
  <2>30. ASSUME NEW s \in Streams, StopBegin(s) PROVE TypeOK'
    BY <2>30 DEF StopBegin
  <2>31. ASSUME NEW s \in Streams, StopDone(s) PROVE TypeOK'
    BY <2>31 DEF StopDone
  <2>32. ASSUME NEW s \in Streams, ReadBegin(s) \/ ReadEnd(s) \/ ReadFail(s) PROVE TypeOK'
    BY <2>32 DEF ReadBegin, ReadEnd, ReadFail
  <2>33. ASSUME NEW s \in Streams, CloseBegin(s) \/ DropBegin(s) PROVE TypeOK'
    BY <2>33 DEF CloseBegin, DropBegin, Leave
  <2>34. ASSUME NEW s \in Streams, CloseDone(s) PROVE TypeOK'
    BY <2>34 DEF CloseDone
  <2>35. ASSUME NEW s \in Streams, CleanupDone(s) PROVE TypeOK'
    BY <2>35 DEF CleanupDone, ClaimAfterCleanup
  <2>36. CASE UNCHANGED vars
    BY <2>36
  <2> QED
    BY <2>1, <2>2, <2>3, <2>4, <2>5, <2>6, <2>7, <2>8, <2>9, <2>10, <2>11,
       <2>12, <2>13, <2>14, <2>15, <2>16, <2>17, <2>18, <2>19, <2>20, <2>21,
       <2>22, <2>23, <2>24, <2>25, <2>26, <2>27, <2>28, <2>29, <2>30, <2>31,
       <2>32, <2>33, <2>34, <2>35, <2>36
       DEF Next, StreamStep, StreamCall, DevStep, DevCall, Freed
<1> QED
  BY <1>1, <1>2, PTL DEF Spec

-----------------------------------------------------------------------------
\* An actor is only ever at a step of the operation it is in.
LEMMA LocatedInvariant == Spec => []Located
<1>1. Init => Located
  BY DEF Init, Located, StreamPhases, DevPhases, Configuring, ShuttingDown
<1>2. TypeOK /\ Located /\ [Next]_vars => Located'
  <2> SUFFICES ASSUME TypeOK, Located, [Next]_vars PROVE Located'
    OBVIOUS
  <2> phase \in [Actors -> StreamPhases \cup DevPhases] /\ DOMAIN pc = Actors
    BY DEF TypeOK
  <2> res \in [Actors -> {"ok", "err", "canceled"}]
    BY DEF TypeOK
  <2> USE DEF Located, StreamPhases, DevPhases, Configuring, ShuttingDown,
              Goto, Begin, Finish, control, vars
  <2>1. ASSUME NEW a \in Actors, LeaseBusy(a) PROVE Located'
    BY <2>1 DEF LeaseBusy
  <2>2. ASSUME NEW a \in Actors, LeaseStore(a) PROVE Located'
    BY <2>2 DEF LeaseStore
  <2>3. ASSUME NEW a \in Actors, LeaseReturn(a) PROVE Located'
    BY <2>3 DEF LeaseReturn
  <2>4. ASSUME NEW s \in Streams, Check(s) PROVE Located'
    BY <2>4 DEF Check
  <2>5. ASSUME NEW s \in Streams, LeaseReceiver(s) PROVE Located'
    BY <2>5 DEF LeaseReceiver, Take, Enabling
  <2>6. ASSUME NEW s \in Streams, Off(s) PROVE Located'
    BY <2>6 DEF Off, After
  <2>7. ASSUME NEW a \in Actors, Flush(a) PROVE Located'
    BY <2>7 DEF Flush, After
  <2>8. ASSUME NEW a \in Actors, On(a) PROVE Located'
    BY <2>8 DEF On, After
  <2>9. ASSUME NEW c \in Configs, ConfigureBegin(c) PROVE Located'
    BY <2>9 DEF ConfigureBegin
  <2>10. CASE LeaseConfigure
    BY <2>10 DEF LeaseConfigure, Take
  <2>11. CASE ConfigureReset
    BY <2>11 DEF ConfigureReset, After
  <2>12. CASE ConfigureProgram
    BY <2>12 DEF ConfigureProgram, After
  <2>13. CASE ConfigureGate
    BY <2>13 DEF ConfigureGate
  <2>14. CASE ConfigureDone
    BY <2>14 DEF ConfigureDone
  <2>15. CASE OpenDone
    BY <2>15 DEF OpenDone
  <2>16. CASE ShutdownBegin
    BY <2>16 DEF ShutdownBegin, MayShutdown
  <2>17. CASE LeaseShutdown
    BY <2>17 DEF LeaseShutdown, Take
  <2>18. CASE ShutdownQuiesce
    BY <2>18 DEF ShutdownQuiesce, Outcomes
  <2>19. CASE ShutdownPowerDown
    <3>1. CASE phase[Dev] = "final"
      <4>1. phase' = [phase EXCEPT ![Dev] = "freed"] /\ pc' = [pc EXCEPT ![Dev] = "idle"]
        BY <2>19, <3>1 DEF ShutdownPowerDown
      <4> QED
        BY <3>1, <4>1
    <3>2. CASE phase[Dev] # "final"
      <4>1. PICK p \in {"commit", "store"} : pc' = [pc EXCEPT ![Dev] = p]
        BY <2>19, <3>2 DEF ShutdownPowerDown
      <4>2. phase' = phase
        BY <2>19, <3>2 DEF ShutdownPowerDown
      <4> QED
        BY <2>19, <3>2, <4>1, <4>2 DEF ShutdownPowerDown
    <3> QED
      BY <3>1, <3>2
  <2>20. CASE ShutdownCommit
    BY <2>20 DEF ShutdownCommit
  <2>21. CASE ShutdownDone
    BY <2>21 DEF ShutdownDone
  <2>22. CASE DropDevice
    BY <2>22 DEF DropDevice
  <2>23. CASE FinalDrop
    BY <2>23 DEF FinalDrop, NoOwner
  <2>24. ASSUME NEW s \in Streams, RxStream(s) PROVE Located'
    BY <2>24 DEF RxStream, MayClaim
  <2>25. ASSUME NEW s \in Streams, StartBegin(s) PROVE Located'
    BY <2>25 DEF StartBegin
  <2>26. ASSUME NEW s \in Streams, StartOffDone(s) PROVE Located'
    BY <2>26 DEF StartOffDone, Abandon
  <2>27. ASSUME NEW s \in Streams, StartOnDone(s) PROVE Located'
    BY <2>27 DEF StartOnDone, Abandon
  <2>28. ASSUME NEW s \in Streams, ClearHalt(s) PROVE Located'
    BY <2>28 DEF ClearHalt
  <2>29. ASSUME NEW s \in Streams, StartFallbackDone(s) PROVE Located'
    BY <2>29 DEF StartFallbackDone
  <2>30. ASSUME NEW s \in Streams, StopBegin(s) PROVE Located'
    BY <2>30 DEF StopBegin
  <2>31. ASSUME NEW s \in Streams, StopDone(s) PROVE Located'
    BY <2>31 DEF StopDone
  <2>32. ASSUME NEW s \in Streams, ReadBegin(s) \/ ReadEnd(s) \/ ReadFail(s) PROVE Located'
    BY <2>32 DEF ReadBegin, ReadEnd, ReadFail
  <2>33. ASSUME NEW s \in Streams, CloseBegin(s) \/ DropBegin(s) PROVE Located'
    BY <2>33 DEF CloseBegin, DropBegin, Leave
  <2>34. ASSUME NEW s \in Streams, CloseDone(s) PROVE Located'
    BY <2>34 DEF CloseDone
  <2>35. ASSUME NEW s \in Streams, CleanupDone(s) PROVE Located'
    BY <2>35 DEF CleanupDone, ClaimAfterCleanup
  <2>36. CASE UNCHANGED vars
    BY <2>36
  <2> QED
    BY <2>1, <2>2, <2>3, <2>4, <2>5, <2>6, <2>7, <2>8, <2>9, <2>10, <2>11,
       <2>12, <2>13, <2>14, <2>15, <2>16, <2>17, <2>18, <2>19, <2>20, <2>21,
       <2>22, <2>23, <2>24, <2>25, <2>26, <2>27, <2>28, <2>29, <2>30, <2>31,
       <2>32, <2>33, <2>34, <2>35, <2>36
       DEF Next, StreamStep, StreamCall, DevStep, DevCall, Freed
<1> QED
  BY <1>1, <1>2, TypeCorrect, PTL DEF Spec

-----------------------------------------------------------------------------
\* HardwareLease: the hardware is in its mutex or with exactly one operation,
\* and the atomic mirror of its validity is up to date whenever it is back.
LEMMA LeaseInvariant == Spec => []LeaseInv
<1>1. Init => LeaseInv
  <2> SUFFICES ASSUME Init PROVE LeaseInv
    OBVIOUS
  <2>1. \A a \in Actors : pc[a] \in {"lease", "idle"}
    BY DEF Init
  <2>2. \A a \in Actors : ~InLease(a) /\ pc[a] # "return"
    BY <2>1 DEF InLease, LeaseSteps
  <2>3. slot = TRUE /\ flag = FALSE /\ valid = FALSE
    BY DEF Init
  <2>4. LeaseConserved
    BY <2>2, <2>3, Zenon DEF LeaseConserved
  <2> QED
    BY <2>2, <2>3, <2>4, Zenon DEF LeaseInv, FlagMirrorsHardware
<1>2. TypeOK /\ Located /\ LeaseInv /\ [Next]_vars => LeaseInv'
  <2> SUFFICES ASSUME TypeOK, Located, LeaseInv, [Next]_vars PROVE LeaseInv'
    OBVIOUS
  <2> phase \in [Actors -> StreamPhases \cup DevPhases] /\ DOMAIN pc = Actors
    BY DEF TypeOK
  <2> slot \in BOOLEAN /\ flag \in BOOLEAN /\ valid \in BOOLEAN
    BY DEF TypeOK
  <2> USE DEF Located, LeaseInv, LeaseConserved, FlagMirrorsHardware, InLease,
              LeaseSteps, StreamPhases, DevPhases, Configuring, ShuttingDown,
              Goto, Begin, Finish, hardware, control, vars
  <2>1. ASSUME NEW a \in Actors, LeaseBusy(a) PROVE LeaseInv'
    BY <2>1 DEF LeaseBusy
  <2>2. ASSUME NEW a \in Actors, LeaseStore(a) PROVE LeaseInv'
    BY <2>2 DEF LeaseStore
  <2>3. ASSUME NEW a \in Actors, LeaseReturn(a) PROVE LeaseInv'
    BY <2>3 DEF LeaseReturn
  <2>4. ASSUME NEW s \in Streams, Check(s) PROVE LeaseInv'
    BY <2>4 DEF Check
  <2>5. ASSUME NEW s \in Streams, LeaseReceiver(s) PROVE LeaseInv'
    <3>1. pc[s] = "lease" /\ slot /\ ~slot'
      BY <2>5 DEF LeaseReceiver, Take
    <3>2. PICK p \in {"flush", "off"} : pc' = [pc EXCEPT ![s] = p]
      BY <2>5 DEF LeaseReceiver, Take
    <3>3. UNCHANGED <<phase, flag, valid>>
      BY <2>5 DEF LeaseReceiver
    <3> QED
      BY <3>1, <3>2, <3>3
  <2>6. ASSUME NEW s \in Streams, Off(s) PROVE LeaseInv'
    BY <2>6 DEF Off, After
  <2>7. ASSUME NEW a \in Actors, Flush(a) PROVE LeaseInv'
    BY <2>7 DEF Flush, After
  <2>8. ASSUME NEW a \in Actors, On(a) PROVE LeaseInv'
    BY <2>8 DEF On, After
  <2>9. ASSUME NEW c \in Configs, ConfigureBegin(c) PROVE LeaseInv'
    BY <2>9 DEF ConfigureBegin
  <2>10. CASE LeaseConfigure
    BY <2>10 DEF LeaseConfigure, Take
  <2>11. CASE ConfigureReset
    BY <2>11 DEF ConfigureReset, After
  <2>12. CASE ConfigureProgram
    BY <2>12 DEF ConfigureProgram, After
  <2>13. CASE ConfigureGate
    BY <2>13 DEF ConfigureGate
  <2>14. CASE ConfigureDone
    BY <2>14 DEF ConfigureDone
  <2>15. CASE OpenDone
    BY <2>15 DEF OpenDone
  <2>16. CASE ShutdownBegin
    BY <2>16 DEF ShutdownBegin, MayShutdown
  <2>17. CASE LeaseShutdown
    BY <2>17 DEF LeaseShutdown, Take
  <2>18. CASE ShutdownQuiesce
    BY <2>18 DEF ShutdownQuiesce
  <2>19. CASE ShutdownPowerDown
    <3>1. UNCHANGED <<slot, flag>> /\ InLease(Dev)
      BY <2>19 DEF ShutdownPowerDown
    <3>2. CASE phase[Dev] = "final"
      <4>1. phase' = [phase EXCEPT ![Dev] = "freed"] /\ pc' = [pc EXCEPT ![Dev] = "idle"]
        BY <2>19, <3>2 DEF ShutdownPowerDown
      <4> QED
        BY <3>1, <3>2, <4>1
    <3>3. CASE phase[Dev] # "final"
      <4>1. PICK p \in {"commit", "store"} : pc' = [pc EXCEPT ![Dev] = p]
        BY <2>19, <3>3 DEF ShutdownPowerDown
      <4>2. phase' = phase
        BY <2>19, <3>3 DEF ShutdownPowerDown
      <4> QED
        BY <3>1, <3>3, <4>1, <4>2
    <3> QED
      BY <3>2, <3>3
  <2>20. CASE ShutdownCommit
    BY <2>20 DEF ShutdownCommit
  <2>21. CASE ShutdownDone
    BY <2>21 DEF ShutdownDone
  <2>22. CASE DropDevice
    BY <2>22 DEF DropDevice
  <2>23. CASE FinalDrop
    BY <2>23 DEF FinalDrop, NoOwner
  <2>24. ASSUME NEW s \in Streams, RxStream(s) PROVE LeaseInv'
    BY <2>24 DEF RxStream, MayClaim
  <2>25. ASSUME NEW s \in Streams, StartBegin(s) PROVE LeaseInv'
    BY <2>25 DEF StartBegin
  <2>26. ASSUME NEW s \in Streams, StartOffDone(s) PROVE LeaseInv'
    BY <2>26 DEF StartOffDone, Abandon
  <2>27. ASSUME NEW s \in Streams, StartOnDone(s) PROVE LeaseInv'
    BY <2>27 DEF StartOnDone, Abandon
  <2>28. ASSUME NEW s \in Streams, ClearHalt(s) PROVE LeaseInv'
    BY <2>28 DEF ClearHalt
  <2>29. ASSUME NEW s \in Streams, StartFallbackDone(s) PROVE LeaseInv'
    BY <2>29 DEF StartFallbackDone
  <2>30. ASSUME NEW s \in Streams, StopBegin(s) PROVE LeaseInv'
    BY <2>30 DEF StopBegin
  <2>31. ASSUME NEW s \in Streams, StopDone(s) PROVE LeaseInv'
    BY <2>31 DEF StopDone
  <2>32. ASSUME NEW s \in Streams, ReadBegin(s) \/ ReadEnd(s) \/ ReadFail(s) PROVE LeaseInv'
    BY <2>32 DEF ReadBegin, ReadEnd, ReadFail
  <2>33. ASSUME NEW s \in Streams, CloseBegin(s) \/ DropBegin(s) PROVE LeaseInv'
    BY <2>33 DEF CloseBegin, DropBegin, Leave
  <2>34. ASSUME NEW s \in Streams, CloseDone(s) PROVE LeaseInv'
    BY <2>34 DEF CloseDone
  <2>35. ASSUME NEW s \in Streams, CleanupDone(s) PROVE LeaseInv'
    BY <2>35 DEF CleanupDone, ClaimAfterCleanup
  <2>36. CASE UNCHANGED vars
    BY <2>36
  <2> QED
    BY <2>1, <2>2, <2>3, <2>4, <2>5, <2>6, <2>7, <2>8, <2>9, <2>10, <2>11,
       <2>12, <2>13, <2>14, <2>15, <2>16, <2>17, <2>18, <2>19, <2>20, <2>21,
       <2>22, <2>23, <2>24, <2>25, <2>26, <2>27, <2>28, <2>29, <2>30, <2>31,
       <2>32, <2>33, <2>34, <2>35, <2>36
       DEF Next, StreamStep, StreamCall, DevStep, DevCall, Freed
<1> QED
  BY <1>1, <1>2, TypeCorrect, LocatedInvariant, PTL DEF Spec

-----------------------------------------------------------------------------
\* RxStreamClaim and the lifecycle that excludes it.
LEMMA ClaimInvariant == Spec => []ClaimInv
<1>1. Init => ClaimInv
  BY DEF Init, ClaimInv, ClaimConserved, ShuttingDown
<1>2. TypeOK /\ Located /\ ClaimInv /\ [Next]_vars => ClaimInv'
  <2> SUFFICES ASSUME TypeOK, Located, ClaimInv, [Next]_vars PROVE ClaimInv'
    OBVIOUS
  <2> phase \in [Actors -> StreamPhases \cup DevPhases] /\ DOMAIN pc = Actors
    BY DEF TypeOK
  <2> USE DEF Located, ClaimInv, ClaimConserved, StreamPhases, DevPhases,
              Configuring, ShuttingDown, Goto, Begin, Finish, shared, control, vars
  <2>1. ASSUME NEW a \in Actors, LeaseBusy(a) PROVE ClaimInv'
    BY <2>1 DEF LeaseBusy
  <2>2. ASSUME NEW a \in Actors, LeaseStore(a) PROVE ClaimInv'
    BY <2>2 DEF LeaseStore
  <2>3. ASSUME NEW a \in Actors, LeaseReturn(a) PROVE ClaimInv'
    BY <2>3 DEF LeaseReturn
  <2>4. ASSUME NEW s \in Streams, Check(s) PROVE ClaimInv'
    BY <2>4 DEF Check
  <2>5. ASSUME NEW s \in Streams, LeaseReceiver(s) PROVE ClaimInv'
    BY <2>5 DEF LeaseReceiver, Take, Enabling
  <2>6. ASSUME NEW s \in Streams, Off(s) PROVE ClaimInv'
    BY <2>6 DEF Off, After
  <2>7. ASSUME NEW a \in Actors, Flush(a) PROVE ClaimInv'
    BY <2>7 DEF Flush, After
  <2>8. ASSUME NEW a \in Actors, On(a) PROVE ClaimInv'
    BY <2>8 DEF On, After
  <2>9. ASSUME NEW c \in Configs, ConfigureBegin(c) PROVE ClaimInv'
    BY <2>9 DEF ConfigureBegin
  <2>10. CASE LeaseConfigure
    BY <2>10 DEF LeaseConfigure, Take
  <2>11. CASE ConfigureReset
    BY <2>11 DEF ConfigureReset, After
  <2>12. CASE ConfigureProgram
    BY <2>12 DEF ConfigureProgram, After
  <2>13. CASE ConfigureGate
    BY <2>13 DEF ConfigureGate
  <2>14. CASE ConfigureDone
    BY <2>14 DEF ConfigureDone
  <2>15. CASE OpenDone
    BY <2>15 DEF OpenDone
  <2>16. CASE ShutdownBegin
    BY <2>16 DEF ShutdownBegin, MayShutdown
  <2>17. CASE LeaseShutdown
    BY <2>17 DEF LeaseShutdown, Take
  <2>18. CASE ShutdownQuiesce
    BY <2>18 DEF ShutdownQuiesce
  <2>19. CASE ShutdownPowerDown
    BY <2>19 DEF ShutdownPowerDown
  <2>20. CASE ShutdownCommit
    BY <2>20 DEF ShutdownCommit
  <2>21. CASE ShutdownDone
    BY <2>21 DEF ShutdownDone
  <2>22. CASE DropDevice
    BY <2>22 DEF DropDevice
  <2>23. CASE FinalDrop
    BY <2>23 DEF FinalDrop, NoOwner
  <2>24. ASSUME NEW s \in Streams, RxStream(s) PROVE ClaimInv'
    BY <2>24 DEF RxStream, MayClaim
  <2>25. ASSUME NEW s \in Streams, StartBegin(s) PROVE ClaimInv'
    BY <2>25 DEF StartBegin
  <2>26. ASSUME NEW s \in Streams, StartOffDone(s) PROVE ClaimInv'
    BY <2>26 DEF StartOffDone, Abandon
  <2>27. ASSUME NEW s \in Streams, StartOnDone(s) PROVE ClaimInv'
    BY <2>27 DEF StartOnDone, Abandon
  <2>28. ASSUME NEW s \in Streams, ClearHalt(s) PROVE ClaimInv'
    BY <2>28 DEF ClearHalt
  <2>29. ASSUME NEW s \in Streams, StartFallbackDone(s) PROVE ClaimInv'
    BY <2>29 DEF StartFallbackDone
  <2>30. ASSUME NEW s \in Streams, StopBegin(s) PROVE ClaimInv'
    BY <2>30 DEF StopBegin
  <2>31. ASSUME NEW s \in Streams, StopDone(s) PROVE ClaimInv'
    BY <2>31 DEF StopDone
  <2>32. ASSUME NEW s \in Streams, ReadBegin(s) \/ ReadEnd(s) \/ ReadFail(s) PROVE ClaimInv'
    BY <2>32 DEF ReadBegin, ReadEnd, ReadFail
  <2>33. ASSUME NEW s \in Streams, CloseBegin(s) \/ DropBegin(s) PROVE ClaimInv'
    BY <2>33 DEF CloseBegin, DropBegin, Leave
  <2>34. ASSUME NEW s \in Streams, CloseDone(s) PROVE ClaimInv'
    BY <2>34 DEF CloseDone
  <2>35. ASSUME NEW s \in Streams, CleanupDone(s) PROVE ClaimInv'
    BY <2>35 DEF CleanupDone, ClaimAfterCleanup
  <2>36. CASE UNCHANGED vars
    BY <2>36
  <2> QED
    BY <2>1, <2>2, <2>3, <2>4, <2>5, <2>6, <2>7, <2>8, <2>9, <2>10, <2>11,
       <2>12, <2>13, <2>14, <2>15, <2>16, <2>17, <2>18, <2>19, <2>20, <2>21,
       <2>22, <2>23, <2>24, <2>25, <2>26, <2>27, <2>28, <2>29, <2>30, <2>31,
       <2>32, <2>33, <2>34, <2>35, <2>36
       DEF Next, StreamStep, StreamCall, DevStep, DevCall, Freed
<1> QED
  BY <1>1, <1>2, TypeCorrect, LocatedInvariant, PTL DEF Spec

-----------------------------------------------------------------------------
\* No operation, error or dropped future loses or doubles the Hardware value.
THEOREM LeaseSafe == Spec => []LeaseConserved
BY LeaseInvariant, PTL DEF LeaseInv

\* A reader of configuration_valid never trusts a configuration that the last
\* operation on the hardware lost.
THEOREM MirrorSafe == Spec => []FlagMirrorsHardware
BY LeaseInvariant, PTL DEF LeaseInv

\* At most one stream exists, and the claim is Held exactly as long.
THEOREM ClaimSafe == Spec => []ClaimConserved
BY ClaimInvariant, PTL DEF ClaimInv

\* A shutdown that has begun has no stream beside it and gets the hardware at
\* its first attempt.
THEOREM ShutdownSafe == Spec => []ShutdownAlone
<1>1. Located /\ LeaseInv /\ ClaimInv => ShutdownAlone
  BY DEF Located, LeaseInv, LeaseConserved, ClaimInv, ClaimConserved, InLease,
         LeaseSteps, ShutdownAlone, ShuttingDown
<1> QED
  BY <1>1, LocatedInvariant, LeaseInvariant, ClaimInvariant, PTL

\* Session::drop never meets its expect("no lease outlives final owner").
THEOREM FinalDropSafe == Spec => []FinalOwnerFindsHardware
<1>1. Located /\ LeaseInv => FinalOwnerFindsHardware
  BY DEF Located, LeaseInv, LeaseConserved, InLease, LeaseSteps,
         FinalOwnerFindsHardware, NoOwner
<1> QED
  BY <1>1, LocatedInvariant, LeaseInvariant, PTL
=============================================================================
