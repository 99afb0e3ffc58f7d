----------------------------- MODULE RxQueueProofs -----------------------------
(***************************************************************************)
(* Proofs about RxQueue, for pools, buffers and counters of any size.      *)
(* PoolInv says where the buffers are in each state of the queue, MarkInv  *)
(* which of the endpoint's are from before the last pause, OffsetInv where *)
(* the reader is in its buffer.  CompletionsCounted is inductive as it is: *)
(* a step either moves counters and leaves their sum, or counts one fate.  *)
(***************************************************************************)
EXTENDS RxQueue, SequenceTheorems, TLAPS

\* A queue that is gone or has not submitted its buffers has nothing with the
\* endpoint or the reader; a running stream has submitted all of them, and a
\* reader waits only with its last buffer given back.
PoolInv ==
  /\ BuffersConserved
  /\ queue # "live" => endpoint = <<>> /\ current = None /\ discard = 0
  /\ queue = "live" => buffers = 0
  /\ receiver = "Running" => queue = "live"
  /\ reading => receiver = "Running" /\ current = None

MarkInv == DiscardIsOldPrefix /\ NoStaleDelivery

\* A raw stream hands out whole buffers.
OffsetInv == OffsetInCurrent /\ (mode = "raw" => offset = 0)

USE QueueAssumption

-----------------------------------------------------------------------------
(* Sequences of transfers                                                   *)

LEMMA SubmittedIsTransfer == Submitted \in Transfer
BY DEF Submitted, Transfer

\* Giving a buffer back makes the endpoint's queue one longer and keeps what
\* was before it.
LEMMA Given ==
  ASSUME NEW e \in Seq(Transfer)
  PROVE  /\ Append(e, Submitted) \in Seq(Transfer)
         /\ Len(Append(e, Submitted)) = Len(e) + 1
         /\ \A i \in 1..Len(e) : Append(e, Submitted)[i] = e[i]
         /\ Append(e, Submitted)[Len(e) + 1] = Submitted
BY SubmittedIsTransfer

\* A fresh queue has all its buffers with the endpoint.
LEMMA Allocated ==
  ASSUME NEW f, f = [i \in 1..TransferCount |-> Submitted]
  PROVE  /\ f \in Seq(Transfer)
         /\ Len(f) = TransferCount
         /\ \A i \in 1..TransferCount : f[i].old = FALSE
<1>1. f \in [1..TransferCount -> Transfer]
  BY SubmittedIsTransfer
<1>2. f \in Seq(Transfer)
  BY <1>1, SeqDef
<1>3. DOMAIN f = 1..TransferCount
  OBVIOUS
<1>4. Len(f) = TransferCount
  BY <1>2, <1>3, LenProperties
<1> QED
  BY <1>2, <1>4 DEF Submitted

LEMMA NothingThere == <<>> \in Seq(Transfer) /\ Len(<<>>) = 0 /\ DOMAIN <<>> = 1..0
BY EmptySeq, LenProperties

\* Taking the oldest one moves the others up.
LEMMA Taken ==
  ASSUME NEW e \in Seq(Transfer), e # <<>>
  PROVE  /\ Head(e) = e[1] /\ Head(e) \in Transfer
         /\ Tail(e) \in Seq(Transfer)
         /\ Len(Tail(e)) = Len(e) - 1 /\ Len(e) \in Nat \ {0}
         /\ \A i \in 1..(Len(e) - 1) : Tail(e)[i] = e[i + 1]
BY EmptySeq

\* The marking of a pause reaches every transfer.
LEMMA Marked ==
  ASSUME NEW e \in Seq(Transfer)
  PROVE  LET f == [i \in DOMAIN e |-> [e[i] EXCEPT !.old = TRUE]]
         IN  /\ f \in Seq(Transfer)
             /\ Len(f) = Len(e)
             /\ \A j \in 1..Len(e) : f[j].old = TRUE
<1> DEFINE f == [i \in 1..Len(e) |-> [e[i] EXCEPT !.old = TRUE]]
<1>1. Len(e) \in Nat /\ DOMAIN e = 1..Len(e)
  BY LenProperties
<1>2. \A i \in 1..Len(e) : [e[i] EXCEPT !.old = TRUE] \in Transfer /\ [e[i] EXCEPT !.old = TRUE].old = TRUE
  <2> TAKE i \in 1..Len(e)
  <2>1. e[i] \in Transfer
    BY ElementOfSeq
  <2> QED
    BY <2>1 DEF Transfer
<1>3. f \in [1..Len(e) -> Transfer]
  BY <1>2
<1>4. f \in Seq(Transfer) /\ Len(f) = Len(e)
  BY <1>1, <1>3, SeqDef, LenProperties
<1> QED
  BY <1>1, <1>2, <1>4

-----------------------------------------------------------------------------
(* Counters                                                                 *)

LEMMA CountersBounded ==
  ASSUME NEW a \in [Counters -> 0..StatsBound], NEW b \in [Counters -> 0..StatsBound],
         NEW cs
  PROVE  /\ Bump(a, cs) \in [Counters -> 0..StatsBound]
         /\ Combined(a, b) \in [Counters -> 0..StatsBound]
BY DEF Bump, Combined, AtBound

LEMMA ZeroBounded == Zero \in [Counters -> 0..StatsBound]
BY DEF Zero

\* Counting in a queue is counting in the stream, ...
LEMMA CombinedBump ==
  ASSUME NEW a \in [Counters -> 0..StatsBound], NEW b \in [Counters -> 0..StatsBound], NEW cs
  PROVE  Combined(a, Bump(b, cs)) = Bump(Combined(a, b), cs)
<1>1. \A m, n \in 0..StatsBound : AtBound(m + AtBound(n + 1)) = AtBound(AtBound(m + n) + 1)
  BY DEF AtBound
<1> HIDE DEF AtBound
<1> QED
  BY <1>1 DEF Combined, Bump

\* ... and what the stream has taken over from it, the queue counts no longer.
LEMMA CombinedZero ==
  ASSUME NEW a \in [Counters -> 0..StatsBound], NEW b \in [Counters -> 0..StatsBound]
  PROVE  Combined(Combined(a, b), Zero) = Combined(a, b)
BY DEF Combined, Zero, AtBound

\* A fate, and the counters that it counts in.
Told(f, cs) == \/ f = "old" /\ cs = {"received", "dropped", "discarded"}
               \/ f = "data" /\ cs = {"received", "processed"}
               \/ f = "bad" /\ cs = {"received", "dropped"}
               \/ f = "returned" /\ cs = {"dropped"}

\* A completion that meets its fate is counted by it.
LEMMA CountStep ==
  ASSUME TypeOK, CompletionsCounted, NEW f \in Fates, NEW cs, Told(f, cs), Meet(f),
         CurrentStats' = Bump(CurrentStats, cs)
  PROVE  CompletionsCounted' /\ fates' \in [Fates -> 0..StatsBound]
<1> fates \in [Fates -> 0..StatsBound]
  BY DEF TypeOK
<1>1. /\ fates' \in [Fates -> 0..StatsBound]
      /\ \A g \in Fates : fates'[g] = IF g = f THEN AtBound(fates[g] + 1) ELSE fates[g]
  BY DEF Meet, AtBound
<1>2. \A c \in Counters : CurrentStats'[c] = IF c \in cs THEN AtBound(CurrentStats[c] + 1) ELSE CurrentStats[c]
  BY DEF Bump
<1>3. CASE f = "old" /\ cs = {"received", "dropped", "discarded"}
  BY <1>1, <1>2, <1>3 DEF CompletionsCounted, AtBound, Fates, Counters
<1>4. CASE f = "data" /\ cs = {"received", "processed"}
  BY <1>1, <1>2, <1>4 DEF CompletionsCounted, AtBound, Fates, Counters
<1>5. CASE f = "bad" /\ cs = {"received", "dropped"}
  BY <1>1, <1>2, <1>5 DEF CompletionsCounted, AtBound, Fates, Counters
<1>6. CASE f = "returned" /\ cs = {"dropped"}
  BY <1>1, <1>2, <1>6 DEF CompletionsCounted, AtBound, Fates, Counters
<1> QED
  BY <1>1, <1>3, <1>4, <1>5, <1>6 DEF Told

\* What a step does to the counters of the stream: nothing, or one fate.
Tallies(f, cs) == Told(f, cs) /\ Meet(f) /\ CurrentStats' = Bump(CurrentStats, cs)
Tallied == \/ CurrentStats' = CurrentStats /\ fates' = fates
           \/ \E f \in Fates : \E cs \in SUBSET Counters : Tallies(f, cs)

LEMMA TallyKeeps ==
  ASSUME TypeOK, CompletionsCounted, Tallied
  PROVE  CompletionsCounted' /\ fates' \in [Fates -> 0..StatsBound]
<1>1. CASE CurrentStats' = CurrentStats /\ fates' = fates
  BY <1>1 DEF CompletionsCounted, TypeOK
<1>2. ASSUME NEW f \in Fates, NEW cs \in SUBSET Counters, Tallies(f, cs)
      PROVE  CompletionsCounted' /\ fates' \in [Fates -> 0..StatsBound]
  BY <1>2, CountStep DEF Tallies
<1> QED
  BY <1>1, <1>2 DEF Tallied

\* Every step of every call does.
LEMMA StepTallies ==
  ASSUME TypeOK, [Next]_vars
  PROVE  Tallied
<1> stats \in [Counters -> 0..StatsBound] /\ retired \in [Counters -> 0..StatsBound]
  BY DEF TypeOK
<1> USE DEF count, pool, vars
<1>1. CASE UNCHANGED count
  BY <1>1, Zenon DEF Tallied, CurrentStats
<1>2. ASSUME NEW f \in Fates, NEW cs \in SUBSET Counters, Told(f, cs), Meet(f),
             stats' = Bump(stats, cs), UNCHANGED retired
      PROVE  Tallied
  <2>1. CurrentStats' = Bump(CurrentStats, cs)
    BY <1>2, CombinedBump DEF CurrentStats
  <2> QED
    BY <1>2, <2>1 DEF Tallied, Tallies
<1>3. ASSUME retired' = Combined(retired, stats), stats' = Zero, UNCHANGED fates
      PROVE  Tallied
  BY <1>3, CombinedZero DEF CurrentStats, Tallied
<1>4. CASE StartFresh
  BY <1>3, <1>4 DEF StartFresh, CurrentStats
<1>5. CASE Stop
  <2>1. CASE UNCHANGED <<stats, fates>>
    BY <1>1, <1>5, <2>1 DEF Stop
  <2>2. CASE Pause /\ current # None
    <3>1. stats' = Bump(stats, {"dropped"}) /\ Meet("returned") /\ UNCHANGED retired
      BY <1>5, <2>2 DEF Stop, Pause, Forgo
    <3> QED
      BY <1>2, <3>1 DEF Told, Fates, Counters
  <2> QED
    BY <1>5, <2>1, <2>2 DEF Stop, Pause, Forgo
<1>6. CASE Close
  BY <1>3, <1>6 DEF Close, Retire
<1>7. CASE AcceptOld
  <2>1. stats' = Bump(stats, {"received", "dropped", "discarded"}) /\ Meet("old") /\ UNCHANGED retired
    BY <1>7 DEF AcceptOld
  <2> QED
    BY <1>2, <2>1 DEF Told, Fates, Counters
<1>8. CASE AcceptData
  <2>1. stats' = Bump(stats, {"received", "processed"}) /\ Meet("data") /\ UNCHANGED retired
    BY <1>8 DEF AcceptData
  <2> QED
    BY <1>2, <2>1 DEF Told, Fates, Counters
<1>9. CASE AcceptBad
  <2> DEFINE cs == {"received", "dropped"}
  <2>1. retired' = Combined(retired, Bump(stats, cs)) /\ stats' = Zero /\ Meet("bad")
    BY <1>9 DEF AcceptBad, Retire
  <2>2. Bump(stats, cs) \in [Counters -> 0..StatsBound]
    BY CountersBounded
  <2>3. CurrentStats' = Combined(retired, Bump(stats, cs))
    <3>1. CurrentStats' = Combined(Combined(retired, Bump(stats, cs)), Zero)
      BY <2>1 DEF CurrentStats
    <3> HIDE DEF cs
    <3> QED
      BY <2>2, <3>1, CombinedZero
  <2>4. CurrentStats' = Bump(CurrentStats, cs)
    BY <2>3, CombinedBump DEF CurrentStats
  <2>5. Told("bad", cs) /\ "bad" \in Fates /\ cs \in SUBSET Counters
    BY DEF Told, Fates, Counters
  <2> HIDE DEF cs
  <2> QED
    BY <2>1, <2>4, <2>5 DEF Tallied, Tallies
<1>10. CASE \/ \E st \in {"data", "bad"} : UsbComplete(st)
            \/ StartAgain \/ StopFail \/ NextBlock \/ Read \/ ReadEnds \/ UNCHANGED vars
  BY <1>1, <1>10 DEF UsbComplete, StartAgain, StopFail, NextBlock, Read, ReadEnds
<1> QED
  BY <1>4, <1>5, <1>6, <1>7, <1>8, <1>9, <1>10 DEF Next, Accept, Consumed

-----------------------------------------------------------------------------
(* Type correctness                                                         *)

LEMMA ReleasedTyped ==
  ASSUME TypeOK
  PROVE  /\ Released \in Seq(Transfer)
         /\ Len(Released) = Len(endpoint) + Len(current)
         /\ Len(Released) \in Nat
         /\ \A i \in 1..Len(Released) : Released[i] = IF i <= Len(endpoint) THEN endpoint[i] ELSE Submitted
<1>1. endpoint \in Seq(Transfer) /\ Len(endpoint) \in Nat
  BY LenProperties DEF TypeOK
<1>2. CASE current = None
  BY <1>1, <1>2, NothingThere DEF Released, None
<1>3. CASE current # None
  <2>1. Len(current) = 1
    BY <1>3 DEF TypeOK
  <2>2. Released = Append(endpoint, Submitted)
    BY <1>3 DEF Released
  <2> QED
    BY <1>1, <2>1, <2>2, Given
<1> QED
  BY <1>2, <1>3

LEMMA PauseTyped ==
  ASSUME TypeOK, Pause
  PROVE  /\ endpoint' \in Seq(Transfer) /\ current' = None /\ len' = 0
         /\ Len(endpoint') = Len(Released) /\ discard' = Len(Released)
         /\ \A i \in 1..Len(endpoint') : endpoint'[i].old = TRUE
         /\ stats' \in [Counters -> 0..StatsBound]
<1>1. stats' \in [Counters -> 0..StatsBound]
  <2>1. stats \in [Counters -> 0..StatsBound] /\ stats' \in {stats, Bump(stats, {"dropped"})}
    BY DEF Pause, Forgo, TypeOK
  <2> QED
    BY <2>1, CountersBounded
<1>2. Released \in Seq(Transfer)
  BY ReleasedTyped
<1> QED
  BY <1>1, <1>2, Marked DEF Pause, NoCurrent

\* The reader is handed n samples of b, or what is left of them, with e at the
\* endpoint: it uses them up, and b goes back, or keeps b.
Handed(b, n, e) ==
  \/ /\ endpoint' = Append(e, Submitted)
     /\ current' = None /\ len' = 0 /\ offset' = 0
  \/ /\ endpoint' = e
     /\ current' = <<b>> /\ len' = n /\ offset' \in 0..(n - 1)
     /\ mode = "raw" => offset' = 0

LEMMA ProcessHands ==
  ASSUME mode # "raw", NEW b, NEW n \in Nat, NEW used \in Nat, NEW e, Process(b, n, used, e)
  PROVE  Handed(b, n, e)
<1>1. PICK m \in 1..(n - used) : IF used + m = n
                               THEN /\ endpoint' = Append(e, Submitted)
                                    /\ NoCurrent
                                    /\ offset' = 0
                               ELSE /\ endpoint' = e
                                    /\ current' = <<b>>
                                    /\ len' = n
                                    /\ offset' = used + m
  BY DEF Process
<1>2. CASE used + m = n
  BY <1>1, <1>2, Zenon DEF Handed, NoCurrent
<1>3. CASE used + m # n
  <2>1. used + m \in 0..(n - 1)
    BY <1>3
  <2>2. endpoint' = e /\ current' = <<b>> /\ len' = n /\ offset' = used + m
    BY <1>1, <1>3, Zenon
  <2> QED
    BY <2>1, <2>2, Zenon DEF Handed
<1> QED
  BY <1>2, <1>3

\* A step of the reader or the endpoint keeps the types.
LEMMA MoveTyped ==
  ASSUME TypeOK, UNCHANGED <<mode, receiver, queue, buffers, retired>>, reading' \in BOOLEAN,
         endpoint' \in Seq(Transfer), current' \in {None} \cup {<<b>> : b \in Transfer},
         len' \in 0..MaxSamples, offset' \in 0..MaxSamples, discard' \in Nat,
         stats' \in [Counters -> 0..StatsBound], fates' \in [Fates -> 0..StatsBound]
  PROVE  TypeOK'
<1>1. mode' \in Modes /\ buffers' \in Nat /\ retired' \in [Counters -> 0..StatsBound]
  BY DEF TypeOK
<1>2. /\ receiver' \in {"Stopped", "CleanupRequired", "Running", "closed"}
      /\ queue' \in {"none", "prepared", "live"}
  BY DEF TypeOK
<1> QED
  BY <1>1, <1>2 DEF TypeOK

-----------------------------------------------------------------------------
(* The invariant                                                            *)

QueueInv == TypeOK /\ PoolInv /\ MarkInv /\ OffsetInv /\ CompletionsCounted

\* Handing b over keeps the invariant when b and e are the whole pool and b is new.
LEMMA HandedKeeps ==
  ASSUME QueueInv, NEW b \in Transfer, NEW n \in 1..MaxSamples, NEW e \in Seq(Transfer),
         Handed(b, n, e), UNCHANGED <<mode, receiver, queue, buffers, discard, retired>>,
         reading' = FALSE, queue = "live", buffers = 0, Len(e) = TransferCount - 1,
         ~b.old, discard <= Len(e), \A i \in 1..Len(e) : e[i].old <=> i <= discard,
         stats' \in [Counters -> 0..StatsBound], fates' \in [Fates -> 0..StatsBound],
         CompletionsCounted'
  PROVE  QueueInv'
<1> TypeOK /\ PoolInv /\ MarkInv /\ OffsetInv
  BY DEF QueueInv
<1> Len(e) \in Nat /\ DOMAIN e = 1..Len(e) /\ discard \in Nat
  BY LenProperties DEF TypeOK
<1>1. CASE endpoint' = Append(e, Submitted) /\ current' = None /\ len' = 0 /\ offset' = 0
  <2>1. /\ endpoint' \in Seq(Transfer) /\ Len(endpoint') = TransferCount
        /\ \A i \in 1..Len(e) : endpoint'[i] = e[i]
        /\ endpoint'[Len(e) + 1] = Submitted
    BY <1>1, Given
  <2>2. DOMAIN endpoint' = 1..(Len(e) + 1)
    BY <2>1, LenProperties
  <2>3. TypeOK'
    <3>1. current' \in {None} \cup {<<x>> : x \in Transfer}
      BY <1>1
    <3>2. endpoint' \in Seq(Transfer)
      BY <1>1, <2>1
    <3>3. len' \in 0..MaxSamples /\ offset' \in 0..MaxSamples /\ discard' \in Nat
      BY <1>1
    <3>4. reading' \in BOOLEAN
      OBVIOUS
    <3> QED
      BY <3>1, <3>2, <3>3, <3>4, MoveTyped
  <2>4. PoolInv'
    BY <1>1, <2>1, NothingThere DEF PoolInv, BuffersConserved, None
  <2>5. MarkInv'
    BY <1>1, <2>1, <2>2 DEF MarkInv, DiscardIsOldPrefix, NoStaleDelivery, Submitted
  <2> QED
    BY <1>1, <2>3, <2>4, <2>5 DEF QueueInv, OffsetInv, OffsetInCurrent
<1>2. CASE /\ endpoint' = e /\ current' = <<b>> /\ len' = n /\ offset' \in 0..(n - 1)
           /\ mode = "raw" => offset' = 0
  <2>1. current' # None /\ Len(current') = 1 /\ current'[1] = b
    BY <1>2 DEF None
  <2>2. TypeOK'
    <3>1. current' \in {None} \cup {<<x>> : x \in Transfer}
      BY <1>2
    <3>2. endpoint' \in Seq(Transfer)
      BY <1>2
    <3>3. len' \in 0..MaxSamples /\ offset' \in 0..MaxSamples /\ discard' \in Nat
      BY <1>2
    <3>4. reading' \in BOOLEAN
      OBVIOUS
    <3> QED
      BY <3>1, <3>2, <3>3, <3>4, MoveTyped
  <2>3. PoolInv'
    BY <1>2, <2>1 DEF PoolInv, BuffersConserved
  <2>4. MarkInv'
    BY <1>2, <2>1 DEF MarkInv, DiscardIsOldPrefix, NoStaleDelivery
  <2> QED
    BY <1>2, <2>1, <2>2, <2>3, <2>4 DEF QueueInv, OffsetInv, OffsetInCurrent
<1> QED
  BY <1>1, <1>2 DEF Handed

LEMMA QueueInvariant == Spec => []QueueInv
<1>1. Init => QueueInv
  <2> SUFFICES ASSUME Init PROVE QueueInv
    OBVIOUS
  <2>1. TypeOK
    <3>1. endpoint \in Seq(Transfer)
      BY NothingThere DEF Init
    <3>2. mode \in Modes /\ receiver = "Stopped" /\ queue = "none" /\ reading = FALSE
      BY DEF Init
    <3>3. buffers \in Nat /\ len \in 0..MaxSamples /\ offset \in 0..MaxSamples /\ discard \in Nat
      BY DEF Init
    <3>4. stats \in [Counters -> 0..StatsBound] /\ retired \in [Counters -> 0..StatsBound]
      BY ZeroBounded DEF Init
    <3>5. current = None
      BY DEF Init
    <3>6. fates \in [Fates -> 0..StatsBound]
      BY DEF Init
    <3> QED
      BY <3>1, <3>2, <3>3, <3>4, <3>5, <3>6 DEF TypeOK
  <2>2. PoolInv /\ MarkInv /\ OffsetInv
    BY NothingThere DEF Init, PoolInv, BuffersConserved, MarkInv, DiscardIsOldPrefix, NoStaleDelivery, OffsetInv,
           OffsetInCurrent, None
  <2>3. CompletionsCounted
    BY DEF Init, CompletionsCounted, CurrentStats, Combined, Zero, AtBound, Fates, Counters
  <2> QED
    BY <2>1, <2>2, <2>3 DEF QueueInv
<1>2. QueueInv /\ [Next]_vars => QueueInv'
  <2> SUFFICES ASSUME QueueInv, [Next]_vars PROVE QueueInv'
    OBVIOUS
  <2> TypeOK /\ PoolInv /\ MarkInv /\ OffsetInv
    BY DEF QueueInv
  <2> CompletionsCounted' /\ fates' \in [Fates -> 0..StatsBound]
    BY StepTallies, TallyKeeps DEF QueueInv
  <2> /\ endpoint \in Seq(Transfer) /\ Len(endpoint) \in Nat /\ DOMAIN endpoint = 1..Len(endpoint)
      /\ len \in 0..MaxSamples /\ offset \in 0..MaxSamples /\ discard \in Nat /\ buffers \in Nat
      /\ stats \in [Counters -> 0..StatsBound] /\ retired \in [Counters -> 0..StatsBound]
      /\ reading \in BOOLEAN
      /\ Len(None) = 0 /\ (\A b \in Transfer : Len(<<b>>) = 1 /\ <<b>> # None /\ <<b>>[1] = b)
    BY LenProperties, NothingThere DEF TypeOK, None
  <2> USE DEF pool, count, vars, NoCurrent, Idle
  <2>1. CASE \E st \in {"data", "bad"} : UsbComplete(st)
    <3>1. PICK st \in {"data", "bad"}, i \in 1..Len(endpoint) :
             endpoint' = [endpoint EXCEPT ![i].status = st]
      BY <2>1 DEF UsbComplete
    <3>2. /\ endpoint' \in Seq(Transfer) /\ Len(endpoint') = Len(endpoint)
          /\ \A j \in 1..Len(endpoint) : endpoint'[j].old = endpoint[j].old
      <4> DEFINE t == [endpoint[i] EXCEPT !.status = st]
      <4>1. endpoint[i] \in Transfer
        BY ElementOfSeq
      <4>2. t \in Transfer /\ t.old = endpoint[i].old
        BY <4>1 DEF Transfer
      <4>3. endpoint' = [endpoint EXCEPT ![i] = t]
        BY <3>1
      <4> HIDE DEF t
      <4> QED
        BY <4>2, <4>3, ExceptSeq
    <3>3. UNCHANGED <<mode, receiver, queue, buffers, current, len, offset, discard, count, reading>>
      BY <2>1 DEF UsbComplete
    <3>4. TypeOK'
      BY <3>2, <3>3 DEF TypeOK
    <3>5. PoolInv'
      BY <3>1, <3>2, <3>3, EmptySeq DEF PoolInv, BuffersConserved
    <3>6. MarkInv'
      <4>1. DOMAIN endpoint' = 1..Len(endpoint)
        BY <3>2, LenProperties
      <4>2. DiscardIsOldPrefix'
        BY <3>2, <3>3, <4>1 DEF MarkInv, DiscardIsOldPrefix
      <4> QED
        BY <3>3, <4>2 DEF MarkInv, NoStaleDelivery
    <3> QED
      BY <3>3, <3>4, <3>5, <3>6 DEF QueueInv, OffsetInv, OffsetInCurrent
  <2>2. CASE StartFresh
    <3>1. \/ endpoint' = <<>>
          \/ /\ endpoint' = [i \in 1..TransferCount |-> Submitted]
             /\ queue' = "live" /\ buffers' = 0
      BY <2>2 DEF StartFresh
    <3>2. \/ endpoint' = <<>>
          \/ /\ Len(endpoint') = TransferCount /\ queue' = "live" /\ buffers' = 0
             /\ \A i \in 1..TransferCount : endpoint'[i].old = FALSE
      BY <3>1, Allocated
    <3>3. endpoint' \in Seq(Transfer)
      BY <3>1, Allocated, NothingThere
    <3>4. retired' \in [Counters -> 0..StatsBound] /\ stats' \in [Counters -> 0..StatsBound]
      BY <2>2, CountersBounded, ZeroBounded DEF StartFresh, CurrentStats
    <3>5. TypeOK'
      BY <2>2, <3>3, <3>4 DEF StartFresh, TypeOK
    <3>6. PoolInv'
      BY <2>2, <3>2, NothingThere DEF StartFresh, PoolInv, BuffersConserved
    <3>7. MarkInv'
      BY <2>2, <3>2, <3>3, LenProperties, NothingThere
      DEF StartFresh, MarkInv, DiscardIsOldPrefix, NoStaleDelivery
    <3>8. OffsetInv'
      BY <2>2 DEF StartFresh, OffsetInv, OffsetInCurrent
    <3> QED
      BY <3>5, <3>6, <3>7, <3>8 DEF QueueInv
  <2>3. CASE StartAgain
    BY <2>3 DEF StartAgain, QueueInv, TypeOK, PoolInv, BuffersConserved, MarkInv, DiscardIsOldPrefix,
                NoStaleDelivery, OffsetInv, OffsetInCurrent
  <2>4. CASE Stop
    <3>1. UNCHANGED <<mode, queue, buffers, retired, reading>> /\ ~reading
          /\ receiver' = "Stopped" /\ offset' = 0
      BY <2>4 DEF Stop
    <3>2. CASE queue = "none"
      BY <2>4, <3>1, <3>2 DEF Stop, QueueInv, TypeOK, PoolInv, BuffersConserved, MarkInv,
         DiscardIsOldPrefix, NoStaleDelivery, OffsetInv, OffsetInCurrent
    <3>3. CASE queue # "none"
      <4>1. Pause
        BY <2>4, <3>3 DEF Stop
      <4>2. /\ endpoint' \in Seq(Transfer) /\ current' = None /\ len' = 0
            /\ Len(endpoint') = Len(Released) /\ discard' = Len(Released)
            /\ \A i \in 1..Len(endpoint') : endpoint'[i].old = TRUE
            /\ stats' \in [Counters -> 0..StatsBound]
        BY <4>1, PauseTyped
      <4>3. Len(endpoint') \in Nat /\ Len(Released) = Len(endpoint) + Len(current)
        BY <4>2, ReleasedTyped
      <4>4. TypeOK'
        BY <3>1, <4>2, <4>3 DEF TypeOK
      <4>5. PoolInv'
        BY <3>1, <3>3, <4>2, <4>3, EmptySeq DEF PoolInv, BuffersConserved
      <4>6. MarkInv'
        BY <4>2, <4>3, LenProperties DEF MarkInv, DiscardIsOldPrefix, NoStaleDelivery
      <4>7. OffsetInv'
        BY <3>1, <4>2 DEF OffsetInv, OffsetInCurrent
      <4> QED
        BY <4>4, <4>5, <4>6, <4>7 DEF QueueInv
    <3> QED
      BY <3>2, <3>3
  <2>5. CASE StopFail
    BY <2>5 DEF StopFail, QueueInv, TypeOK, PoolInv, BuffersConserved, MarkInv, DiscardIsOldPrefix,
                NoStaleDelivery, OffsetInv, OffsetInCurrent
  <2>6. ASSUME NEW st \in [Counters -> 0..StatsBound], Retire(st),
               UNCHANGED mode, receiver' \in {"closed", "CleanupRequired"}, reading' = FALSE
        PROVE  QueueInv'
    <3>1. TypeOK'
      <4>1. endpoint' \in Seq(Transfer) /\ current' = None
        BY <2>6, NothingThere DEF Retire
      <4>2. buffers' = 0 /\ len' = 0 /\ offset' = 0 /\ discard' = 0 /\ queue' = "none"
        BY <2>6 DEF Retire
      <4>3. stats' \in [Counters -> 0..StatsBound] /\ retired' \in [Counters -> 0..StatsBound]
        BY <2>6, CountersBounded, ZeroBounded DEF Retire
      <4> QED
        <5>1. mode' \in Modes
          BY <2>6 DEF TypeOK
        <5>2. receiver' \in {"Stopped", "CleanupRequired", "Running", "closed"} /\ reading' \in BOOLEAN
          BY <2>6
        <5>3. len' \in 0..MaxSamples /\ offset' \in 0..MaxSamples /\ buffers' \in Nat /\ discard' \in Nat
          BY <4>2
        <5> QED
          BY <4>1, <4>2, <4>3, <5>1, <5>2, <5>3 DEF TypeOK
    <3>2. PoolInv' /\ MarkInv' /\ OffsetInv'
      BY <2>6, NothingThere DEF Retire, PoolInv, BuffersConserved, MarkInv, DiscardIsOldPrefix,
         NoStaleDelivery, OffsetInv, OffsetInCurrent, None
    <3> QED
      BY <3>1, <3>2 DEF QueueInv
  <2>7. CASE Close
    BY <2>6, <2>7 DEF Close
  <2>8. CASE NextBlock
    <3>1. endpoint' = Released /\ current' = None /\ len' = 0
          /\ UNCHANGED <<mode, receiver, queue, buffers, offset, discard, count>>
          /\ reading' = TRUE /\ receiver = "Running" /\ mode = "raw"
      BY <2>8 DEF NextBlock
    <3>2. endpoint' \in Seq(Transfer) /\ Len(endpoint') = Len(endpoint) + Len(current)
      BY <3>1, ReleasedTyped
    <3>3. \A i \in 1..Len(endpoint') : endpoint'[i].old <=> i <= discard
      <4> TAKE i \in 1..Len(endpoint')
      <4>1. CASE i <= Len(endpoint)
        <5>1. i \in 1..Len(endpoint) /\ endpoint'[i] = endpoint[i]
          BY <3>1, <4>1, ReleasedTyped
        <5>2. endpoint[i].old <=> i <= discard
          BY <5>1 DEF MarkInv, DiscardIsOldPrefix
        <5> QED
          BY <3>1, <5>1, <5>2, Zenon
      <4>2. CASE i > Len(endpoint)
        <5>1. endpoint'[i] = Submitted /\ ~(i <= discard)
          BY <3>1, <3>2, <4>2, ReleasedTyped DEF MarkInv, DiscardIsOldPrefix
        <5> QED
          BY <5>1 DEF Submitted
      <4> QED
        BY <3>2, <4>1, <4>2
    <3>4. TypeOK'
      BY <3>1, <3>2 DEF TypeOK
    <3>5. PoolInv'
      BY <3>1, <3>2 DEF PoolInv, BuffersConserved
    <3>6. MarkInv'
      BY <3>1, <3>2, <3>3, LenProperties DEF MarkInv, DiscardIsOldPrefix, NoStaleDelivery, TypeOK
    <3>7. OffsetInv'
      BY <3>1 DEF OffsetInv, OffsetInCurrent
    <3> QED
      BY <3>4, <3>5, <3>6, <3>7 DEF QueueInv
  <2>9. CASE Read
    <3>1. CASE current = None
      BY <2>9, <3>1 DEF Read, QueueInv, TypeOK, PoolInv, BuffersConserved, MarkInv, DiscardIsOldPrefix,
                        NoStaleDelivery, OffsetInv, OffsetInCurrent
    <3>2. CASE current # None
      <4>1. /\ UNCHANGED <<mode, receiver, queue, buffers, discard, count, reading>>
            /\ mode = "f32" /\ receiver = "Running"
            /\ Process(current[1], len, offset, endpoint)
        BY <2>9, <3>2 DEF Read
      <4>2. /\ current[1] \in Transfer /\ current = <<current[1]>>
            /\ Len(current) = 1
            /\ len \in 1..MaxSamples /\ offset \in 0..(len - 1)
        BY <3>2 DEF TypeOK, OffsetInv, OffsetInCurrent
      <4>3. Handed(current[1], len, endpoint)
        <5>1. mode # "raw" /\ len \in Nat /\ offset \in Nat /\ Process(current[1], len, offset, endpoint)
          BY <2>9, <3>2, <4>1, <4>2 DEF Read
        <5> QED
          BY <5>1, ProcessHands, Zenon
      <4>4. Len(endpoint) = TransferCount - 1 /\ queue = "live" /\ buffers = 0 /\ reading' = FALSE
        BY <4>1, <4>2, <2>9 DEF PoolInv, BuffersConserved, Read
      <4>5. ~current[1].old /\ discard <= Len(endpoint)
            /\ \A i \in 1..Len(endpoint) : endpoint[i].old <=> i <= discard
        BY <3>2 DEF MarkInv, DiscardIsOldPrefix, NoStaleDelivery
      <4>6. /\ UNCHANGED <<mode, receiver, queue, buffers, discard, retired>>
            /\ stats' \in [Counters -> 0..StatsBound]
        BY <4>1
      <4> QED
        BY <4>2, <4>3, <4>4, <4>5, <4>6, HandedKeeps
    <3> QED
      BY <3>1, <3>2
  <2>10. CASE AcceptOld
    <3>1. /\ UNCHANGED <<mode, receiver, queue, buffers, current, len, offset, retired, reading>>
          /\ endpoint # <<>> /\ reading /\ discard # 0 /\ discard' = discard - 1
          /\ endpoint' = Append(Tail(endpoint), Submitted)
          /\ stats' = Bump(stats, {"received", "dropped", "discarded"})
      BY <2>10 DEF AcceptOld, Reap
    <3>2. /\ endpoint' \in Seq(Transfer) /\ Len(endpoint') = Len(endpoint)
          /\ \A i \in 1..(Len(endpoint) - 1) : endpoint'[i] = endpoint[i + 1]
          /\ endpoint'[Len(endpoint)] = Submitted
      <4>1. /\ Tail(endpoint) \in Seq(Transfer)
            /\ Len(Tail(endpoint)) = Len(endpoint) - 1 /\ Len(endpoint) \in Nat \ {0}
            /\ \A i \in 1..(Len(endpoint) - 1) : Tail(endpoint)[i] = endpoint[i + 1]
        BY <3>1, Taken
      <4> QED
        BY <3>1, <4>1, Given
    <3>3. TypeOK'
      <4>1. stats' \in [Counters -> 0..StatsBound]
        BY <3>1, CountersBounded, Zenon
      <4>2. current' \in {None} \cup {<<b>> : b \in Transfer} /\ len' \in 0..MaxSamples
            /\ offset' \in 0..MaxSamples /\ reading' \in BOOLEAN
        BY <3>1 DEF TypeOK
      <4>3. discard' \in Nat
        BY <3>1
      <4> QED
        BY <3>1, <3>2, <4>1, <4>2, <4>3, MoveTyped
    <3>4. PoolInv'
      BY <3>1, <3>2 DEF PoolInv, BuffersConserved
    <3>5. MarkInv'
      <4>1. DOMAIN endpoint' = 1..Len(endpoint)
        BY <3>2, LenProperties
      <4>2. DiscardIsOldPrefix'
        BY <3>1, <3>2, <4>1 DEF MarkInv, DiscardIsOldPrefix, Submitted
      <4> QED
        BY <3>1, <4>2 DEF MarkInv, NoStaleDelivery
    <3>6. OffsetInv'
      BY <3>1 DEF OffsetInv, OffsetInCurrent
    <3> QED
      BY <3>3, <3>4, <3>5, <3>6 DEF QueueInv
  <2>11. CASE AcceptData
    <3>1. /\ UNCHANGED <<mode, receiver, queue, buffers, discard, retired>>
          /\ discard = 0 /\ reading /\ reading' = FALSE /\ endpoint # <<>>
          /\ stats' = Bump(stats, {"received", "processed"})
      BY <2>11 DEF AcceptData, Reap
    <3>2. PICK n \in 1..MaxSamples :
            IF mode = "f32" THEN Process(Head(endpoint), n, 0, Tail(endpoint))
            ELSE /\ current' = <<Head(endpoint)>> /\ len' = n /\ endpoint' = Tail(endpoint)
                 /\ UNCHANGED offset
      BY <2>11 DEF AcceptData, Reap
    <3>3. /\ Head(endpoint) = endpoint[1] /\ Head(endpoint) \in Transfer
          /\ Tail(endpoint) \in Seq(Transfer)
          /\ Len(Tail(endpoint)) = Len(endpoint) - 1 /\ Len(endpoint) \in Nat \ {0}
          /\ \A i \in 1..(Len(endpoint) - 1) : Tail(endpoint)[i] = endpoint[i + 1]
      BY <3>1, Taken
    <3>4. current = None /\ offset = 0 /\ queue = "live" /\ buffers = 0
          /\ Len(Tail(endpoint)) = TransferCount - 1
      BY <3>1, <3>3 DEF PoolInv, BuffersConserved, OffsetInv, OffsetInCurrent
    <3>5. Handed(Head(endpoint), n, Tail(endpoint))
      <4>1. CASE mode = "f32"
        <5>1. mode # "raw" /\ n \in Nat /\ 0 \in Nat /\ Process(Head(endpoint), n, 0, Tail(endpoint))
          BY <3>2, <4>1
        <5> QED
          BY <5>1, ProcessHands, Zenon
      <4>2. CASE mode # "f32"
        <5>1. /\ endpoint' = Tail(endpoint) /\ current' = <<Head(endpoint)>> /\ len' = n
              /\ offset' = offset
          BY <3>2, <4>2
        <5>2. offset' = 0
          BY <3>4, <5>1
        <5>3. 0 \in 0..(n - 1)
          OBVIOUS
        <5> QED
          BY <5>1, <5>2, <5>3, Zenon DEF Handed
      <4> QED
        BY <4>1, <4>2
    <3>6. \A i \in 1..Len(endpoint) : ~endpoint[i].old
      BY <3>1 DEF MarkInv, DiscardIsOldPrefix
    <3>7. /\ ~Head(endpoint).old /\ discard <= Len(Tail(endpoint))
          /\ \A i \in 1..Len(Tail(endpoint)) : Tail(endpoint)[i].old <=> i <= discard
      BY <3>1, <3>3, <3>6
    <3>8. stats' \in [Counters -> 0..StatsBound]
      BY <3>1, CountersBounded
    <3> QED
      BY <3>1, <3>3, <3>4, <3>5, <3>7, <3>8, HandedKeeps
  <2>12. CASE AcceptBad
    <3>1. /\ Retire(Bump(stats, {"received", "dropped"}))
          /\ receiver' = "CleanupRequired" /\ reading' = FALSE /\ mode' = mode
      BY <2>12 DEF AcceptBad
    <3>2. Bump(stats, {"received", "dropped"}) \in [Counters -> 0..StatsBound]
      BY CountersBounded
    <3> QED
      BY <2>6, <3>1, <3>2
  <2>13. CASE ReadEnds
    BY <2>13 DEF ReadEnds, QueueInv, TypeOK, PoolInv, BuffersConserved, MarkInv, DiscardIsOldPrefix,
                 NoStaleDelivery, OffsetInv, OffsetInCurrent
  <2>14. CASE UNCHANGED vars
    BY <2>14 DEF QueueInv, TypeOK, PoolInv, BuffersConserved, MarkInv, DiscardIsOldPrefix,
                 NoStaleDelivery, OffsetInv, OffsetInCurrent
  <2> QED
    BY <2>1, <2>2, <2>3, <2>4, <2>5, <2>7, <2>8, <2>9, <2>10, <2>11, <2>12, <2>13, <2>14
    DEF Next, Accept, Consumed
<1> QED
  BY <1>1, <1>2, PTL DEF Spec

-----------------------------------------------------------------------------
(* The theorems                                                             *)

\* Every step of every call leaves values the program can represent.
THEOREM QueueTypeCorrect == Spec => []TypeOK
BY QueueInvariant, PTL DEF QueueInv

\* No buffer is lost or doubled, whatever fails or is dropped: not in a
\* pause, a restart, a timeout or a discarded completion.
THEOREM BuffersSafe == Spec => []BuffersConserved
BY QueueInvariant, PTL DEF QueueInv, PoolInv

\* discard_remaining is the number of the endpoint's oldest transfers that a
\* pause has made stale, through any number of stops and restarts.
THEOREM DiscardSafe == Spec => []DiscardIsOldPrefix
BY QueueInvariant, PTL DEF QueueInv, MarkInv

\* Hence no reader is ever handed samples from before the last stop.
THEOREM DeliverySafe == Spec => []NoStaleDelivery
BY QueueInvariant, PTL DEF QueueInv, MarkInv

\* The conversion offset never outlives its buffer.
THEOREM OffsetSafe == Spec => []OffsetInCurrent
BY QueueInvariant, PTL DEF QueueInv, OffsetInv

\* The counters of all the queues of a stream together account for each
\* completion once, through every retirement, rebuild and close.
THEOREM CountsSafe == Spec => []CompletionsCounted
BY QueueInvariant, PTL DEF QueueInv

\* The counters of the stream never go back and never jump, in any step of
\* any of its calls.
THEOREM StatsSafe == Spec => StatsStepwise
<1> DEFINE Steps == \A c \in Counters : CurrentStats'[c] \in CurrentStats[c]..(CurrentStats[c] + 1)
<1>1. QueueInv /\ [Next]_vars => [Steps]_vars
  <2> SUFFICES ASSUME QueueInv, [Next]_vars, NEW c \in Counters
               PROVE  CurrentStats'[c] \in CurrentStats[c]..(CurrentStats[c] + 1)
    OBVIOUS
  <2>1. CurrentStats \in [Counters -> 0..StatsBound]
    BY CountersBounded DEF QueueInv, TypeOK, CurrentStats
  <2>2. CurrentStats' = CurrentStats \/ \E cs : CurrentStats' = Bump(CurrentStats, cs)
    BY StepTallies DEF QueueInv, Tallied, Tallies
  <2> HIDE DEF CurrentStats
  <2> QED
    BY <2>1, <2>2 DEF Bump, AtBound
<1> QED
  BY <1>1, QueueInvariant, PTL DEF Spec, StatsStepwise
=============================================================================
