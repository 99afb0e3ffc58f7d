------------------------------- MODULE RxQueue -------------------------------
(***************************************************************************)
(* The data plane of one RxStream: the pool of receive buffers that        *)
(* circulates between the USB endpoint and the reader (rx/queue.rs), the   *)
(* conversion offset into the current buffer (rx/processing.rs) and the    *)
(* calls of rx/receiver.rs that start, stop, read and close the stream.    *)
(*                                                                         *)
(* A stream is borrowed mutably by each of its calls, so the control       *)
(* transfers inside start and stop are one step here, with their possible  *)
(* results; Session models them one by one.  What runs concurrently is the *)
(* USB endpoint, which completes submitted buffers in order at any moment, *)
(* and the end of a pending read by a timeout or a dropped future.         *)
(***************************************************************************)
EXTENDS Integers, Sequences, SequencesExt

CONSTANTS
  TransferCount,   \* buffers in the pool (8 in protocol.rs)
  MaxSamples,      \* I/Q samples in a full buffer
  StatsBound,      \* counters stop there: the code's are 64 bits wide
  Modes            \* {"raw", "f32"}

ASSUME QueueAssumption ==
  /\ TransferCount \in Nat \ {0}
  /\ MaxSamples \in Nat \ {0}
  /\ StatsBound \in Nat
  /\ Modes \subseteq {"raw", "f32"}

VARIABLES
  mode,       \* the sample mode of the stream
  receiver,   \* RxStreamClaim::receiver, or "closed" once consumed
  queue,      \* Receiver::queue: none, prepared (not yet initialized) or live
  endpoint,   \* submitted buffers, oldest first: [old, status]
  buffers,    \* Queue::buffers, allocated and not yet submitted
  current,    \* Queue::current: empty, or one completed buffer
  len,        \* Queue::current_len in samples
  offset,     \* IqProcessor::offset in samples
  discard,    \* Queue::discard_remaining
  stats,      \* Queue::stats
  retired,    \* Receiver::stats, of the queues already closed
  reading,    \* a read is waiting for a completion
  fates       \* of the model: what became of the completions, over all queues

pool  == <<endpoint, buffers, current, len, discard>>
count == <<stats, retired, fates>>
vars  == <<mode, receiver, queue, pool, offset, count, reading>>

-----------------------------------------------------------------------------
(* Counters                                                                 *)

Counters == {"received", "processed", "dropped", "discarded"}
Zero     == [c \in Counters |-> 0]
AtBound(n) == IF n > StatsBound THEN StatsBound ELSE n

\* One more in each of the counters of cs.
Bump(st, cs) == [c \in Counters |-> IF c \in cs THEN AtBound(st[c] + 1) ELSE st[c]]

\* StreamingStats::combined
Combined(a, b) == [c \in Counters |-> AtBound(a[c] + b[c])]

\* Receiver::current_stats
CurrentStats == Combined(retired, stats)

\* A completion is discarded as old, accepted, or ends its queue; an accepted
\* one may be given back by a pause.  The history is kept apart from the
\* counters, which move between the queue and the stream.
Fates   == {"old", "data", "bad", "returned"}
Meet(f) == fates' = [fates EXCEPT ![f] = AtBound(@ + 1)]

-----------------------------------------------------------------------------
(* The pool                                                                 *)

\* A buffer handed to the endpoint.  `old' is a mark of the model: the buffer
\* was submitted before the last pause.
Submitted == [old |-> FALSE, status |-> "pending"]
None == <<>>

\* Mutant of Released: the buffer is dropped.
ReleasedNothing == endpoint

\* The endpoint after Queue::release_current: the buffer is submitted again.
Released == IF current = None THEN endpoint ELSE Append(endpoint, Submitted)
NoCurrent == current' = None /\ len' = 0

\* Mutant of Retire: the counters of the queue go with it.
RetireForgets(st) == /\ queue' = "none"
                     /\ endpoint' = <<>>
                     /\ buffers' = 0
                     /\ NoCurrent
                     /\ discard' = 0
                     /\ offset' = 0
                     /\ UNCHANGED retired
                     /\ stats' = Zero

\* Mutant of Retire: the counters are taken over, and stay where they were.
RetireTwice(st) == /\ queue' = "none"
                   /\ endpoint' = <<>>
                   /\ buffers' = 0
                   /\ NoCurrent
                   /\ discard' = 0
                   /\ offset' = 0
                   /\ retired' = Combined(retired, st)
                   /\ stats' = st

\* Receiver::retire_stream: the queue is closed and its counters, st at last,
\* are kept.
Retire(st) == /\ queue' = "none"
              /\ endpoint' = <<>>
              /\ buffers' = 0
              /\ NoCurrent
              /\ discard' = 0
              /\ offset' = 0
              /\ retired' = Combined(retired, st)
              /\ stats' = Zero

\* Queue::discard_current: what the reader has is counted as dropped.
Forgo == IF current = None THEN UNCHANGED <<stats, fates>>
                           ELSE stats' = Bump(stats, {"dropped"}) /\ Meet("returned")

\* Mutant of Pause: pending() is counted before the current buffer goes back.
PauseCountsFirst ==
  LET submitted == Released IN
  /\ Forgo
  /\ endpoint' = [i \in DOMAIN submitted |-> [submitted[i] EXCEPT !.old = TRUE]]
  /\ discard' = Len(endpoint)
  /\ NoCurrent

\* Queue::pause: give back the current buffer, then everything the endpoint
\* holds, completed or not, is to be discarded.
Pause == LET submitted == Released IN
         /\ Forgo
         /\ endpoint' = [i \in DOMAIN submitted |-> [submitted[i] EXCEPT !.old = TRUE]]
         /\ discard' = Len(submitted)
         /\ NoCurrent

\* IqProcessor::process: the reader takes some of the remaining samples of a
\* buffer; one that is used up goes back behind the submitted ones.
Process(buffer, samples, used, submitted) ==
  \E n \in 1..(samples - used) :
    IF used + n = samples
      THEN /\ endpoint' = Append(submitted, Submitted)
           /\ NoCurrent
           /\ offset' = 0
      ELSE /\ endpoint' = submitted
           /\ current' = <<buffer>>
           /\ len' = samples
           /\ offset' = used + n

-----------------------------------------------------------------------------
(* The endpoint (nusb)                                                      *)

\* The oldest pending transfer ends: with data only while the radio may
\* stream, otherwise short, with an error or canceled.
UsbComplete(st) ==
  /\ \E i \in DOMAIN endpoint :
       /\ \A j \in DOMAIN endpoint : endpoint[j].status = "pending" <=> j >= i
       /\ st = "data" => receiver # "Stopped"
       /\ endpoint' = [endpoint EXCEPT ![i].status = st]
  /\ UNCHANGED <<mode, receiver, queue, buffers, current, len, offset, discard,
                 count, reading>>

-----------------------------------------------------------------------------
(* Start, stop, close                                                       *)

Idle == ~reading /\ receiver # "closed"

\* Receiver::start_pipeline without a usable queue.  It ends before there is
\* an endpoint, after that but before its buffers are submitted, or well.
StartFresh ==
  /\ Idle
  /\ receiver = "Stopped"
  /\ queue # "live"
  /\ NoCurrent /\ discard' = 0 /\ offset' = 0
  /\ retired' = CurrentStats
  /\ stats' = Zero
  /\ \/ /\ queue' = "none"
        /\ endpoint' = <<>> /\ buffers' = 0
        /\ receiver' = "CleanupRequired"
     \/ /\ queue' = "prepared"
        /\ endpoint' = <<>> /\ buffers' = TransferCount
        /\ receiver' = "CleanupRequired"
     \/ /\ queue' = "live"
        /\ endpoint' = [i \in 1..TransferCount |-> Submitted] /\ buffers' = 0
        /\ receiver' = "Running"
  /\ UNCHANGED <<mode, fates, reading>>

\* Mutant of StartAgain: a restart forgets what is still to be discarded.
StartAgainAfresh ==
  /\ Idle
  /\ receiver = "Stopped"
  /\ queue = "live"
  /\ receiver' \in {"Running", "CleanupRequired"}
  /\ discard' = 0
  /\ UNCHANGED <<mode, queue, endpoint, buffers, current, len, offset, count, reading>>

\* The queue of a stopped stream is kept across a restart.
StartAgain ==
  /\ Idle
  /\ receiver = "Stopped"
  /\ queue = "live"
  /\ receiver' \in {"Running", "CleanupRequired"}
  /\ UNCHANGED <<mode, queue, pool, offset, count, reading>>

\* Mutant of Stop: the processor is not reset.
StopKeepsOffset ==
  /\ Idle
  /\ receiver # "Stopped"
  /\ receiver' = "Stopped"
  /\ IF queue = "none" THEN UNCHANGED <<pool, stats, fates>>
                       ELSE Pause /\ UNCHANGED buffers
  /\ UNCHANGED <<mode, queue, offset, retired, reading>>

\* Receiver::stop with the receiver switched off ...
Stop ==
  /\ Idle
  /\ receiver # "Stopped"
  /\ receiver' = "Stopped"
  /\ offset' = 0
  /\ IF queue = "none" THEN UNCHANGED <<pool, stats, fates>>
                       ELSE Pause /\ UNCHANGED buffers
  /\ UNCHANGED <<mode, queue, retired, reading>>

\* ... and when that failed or was dropped: the queue runs on.
StopFail ==
  /\ Idle
  /\ receiver # "Stopped"
  /\ receiver' = "CleanupRequired"
  /\ UNCHANGED <<mode, queue, pool, offset, count, reading>>

\* Receiver::into_close_parts, or the drop of the stream.
Close ==
  /\ Idle
  /\ receiver' = "closed"
  /\ Retire(stats)
  /\ UNCHANGED <<mode, fates, reading>>

-----------------------------------------------------------------------------
(* Reads                                                                    *)

\* next_block: the last block goes back before the wait for the next one.
NextBlock ==
  /\ Idle
  /\ mode = "raw"
  /\ receiver = "Running"
  /\ endpoint' = Released
  /\ NoCurrent
  /\ reading' = TRUE
  /\ UNCHANGED <<mode, receiver, queue, buffers, offset, discard, count>>

\* read: what is left of the current buffer, or else wait for a completion.
Read ==
  /\ Idle
  /\ mode = "f32"
  /\ receiver = "Running"
  /\ IF current = None
       THEN /\ reading' = TRUE
            /\ UNCHANGED <<endpoint, current, len, offset>>
       ELSE /\ Process(current[1], len, offset, endpoint)
            /\ UNCHANGED reading
  /\ UNCHANGED <<mode, receiver, queue, buffers, discard, count>>

\* A reader that waits takes the oldest completion.
Reap(c) == /\ reading
           /\ endpoint # <<>>
           /\ c = Head(endpoint)
           /\ c.status # "pending"

\* Mutant of AcceptOld: discard_remaining is not counted down.
AcceptOldForever ==
  /\ \E c \in Range(endpoint) : Reap(c)
  /\ discard # 0
  /\ stats' = Bump(stats, {"received", "dropped", "discarded"}) /\ Meet("old")
  /\ endpoint' = Append(Tail(endpoint), Submitted)
  /\ UNCHANGED <<mode, receiver, queue, buffers, current, len, offset, discard,
                 retired, reading>>

\* Queue::accept: one of the submissions before the pause; the wait goes on.
AcceptOld ==
  /\ \E c \in Range(endpoint) : Reap(c)
  /\ discard # 0
  /\ discard' = discard - 1
  /\ stats' = Bump(stats, {"received", "dropped", "discarded"}) /\ Meet("old")
  /\ endpoint' = Append(Tail(endpoint), Submitted)
  /\ UNCHANGED <<mode, receiver, queue, buffers, current, len, offset, retired, reading>>

\* Queue::accept: a usable completion of any even, nonzero length.
AcceptData ==
  /\ discard = 0
  /\ \E c \in Range(endpoint), samples \in 1..MaxSamples :
       /\ Reap(c)
       /\ c.status = "data"
       /\ IF mode = "f32"
            THEN Process(c, samples, 0, Tail(endpoint))
            ELSE /\ current' = <<c>>
                 /\ len' = samples
                 /\ endpoint' = Tail(endpoint)
                 /\ UNCHANGED offset
  /\ stats' = Bump(stats, {"received", "processed"}) /\ Meet("data")
  /\ reading' = FALSE
  /\ UNCHANGED <<mode, receiver, queue, buffers, discard, retired>>

\* Queue::accept with Receiver::failed_read: an unusable one ends the queue.
AcceptBad ==
  /\ \E c \in Range(endpoint) : Reap(c) /\ c.status = "bad"
  /\ discard = 0
  /\ Retire(Bump(stats, {"received", "dropped"})) /\ Meet("bad")
  /\ receiver' = "CleanupRequired"
  /\ reading' = FALSE
  /\ UNCHANGED mode

\* A timeout, or the drop of the read's future.
ReadEnds ==
  /\ reading
  /\ reading' = FALSE
  /\ UNCHANGED <<mode, receiver, queue, pool, offset, count>>

-----------------------------------------------------------------------------
Init ==
  /\ mode \in Modes
  /\ receiver = "Stopped"
  /\ queue = "none"
  /\ endpoint = <<>>
  /\ buffers = 0
  /\ current = None
  /\ len = 0
  /\ offset = 0
  /\ discard = 0
  /\ stats = Zero
  /\ retired = Zero
  /\ reading = FALSE
  /\ fates = [f \in Fates |-> 0]

\* The stream is consumed and everything it held is released.
Consumed == receiver = "closed" /\ UNCHANGED vars

Accept == AcceptOld \/ AcceptData \/ AcceptBad

Next == \/ \E st \in {"data", "bad"} : UsbComplete(st)
        \/ StartFresh \/ StartAgain \/ Stop \/ StopFail \/ Close
        \/ NextBlock \/ Read \/ Accept \/ ReadEnds
        \/ Consumed

Spec == Init /\ [][Next]_vars

(***************************************************************************)
(* A waiting reader is woken by a completion and takes it; the endpoint    *)
(* completes what was submitted as long as the radio streams.              *)
(***************************************************************************)
FairSpec == /\ Spec
            /\ WF_vars(Accept)
            /\ WF_vars(\E st \in {"data", "bad"} : UsbComplete(st))

-----------------------------------------------------------------------------
(* Properties                                                               *)

Transfer == [old : BOOLEAN, status : {"pending", "data", "bad"}]

\* Every variable holds a value the program can represent.
TypeOK ==
  /\ mode \in Modes
  /\ receiver \in {"Stopped", "CleanupRequired", "Running", "closed"}
  /\ queue \in {"none", "prepared", "live"}
  /\ endpoint \in Seq(Transfer)
  /\ buffers \in Nat
  /\ current \in {None} \cup {<<b>> : b \in Transfer}
  /\ len \in 0..MaxSamples
  /\ offset \in 0..MaxSamples
  /\ discard \in Nat
  /\ stats \in [Counters -> 0..StatsBound]
  /\ retired \in [Counters -> 0..StatsBound]
  /\ reading \in BOOLEAN
  /\ fates \in [Fates -> 0..StatsBound]

\* Every buffer of the pool is in one place for as long as the queue lives:
\* waiting to be submitted, with the endpoint, or with the reader.
BuffersConserved ==
  queue # "none" =>
    buffers + Len(endpoint) + Len(current) = TransferCount

\* discard_remaining counts exactly the submissions from before the last
\* pause, which are the ones at the head of the endpoint.
DiscardIsOldPrefix ==
  /\ discard <= Len(endpoint)
  /\ \A i \in DOMAIN endpoint : endpoint[i].old <=> i <= discard

\* What a reader gets after a restart was submitted after the last stop.
NoStaleDelivery == current # None => ~current[1].old

\* The conversion offset belongs to the current buffer: it is inside it, and
\* it is zero when the next completion arrives.
OffsetInCurrent == IF current = None THEN offset = 0 ELSE offset < len

\* The stream reports every completion exactly once, whichever queue it came
\* from and however often the counters of a failed, rebuilt or closed queue
\* were taken over: as processed or as dropped, those discarded on a restart
\* among the dropped, and so is an accepted one that a pause gives back.
CompletionsCounted ==
  /\ CurrentStats.received = AtBound(fates.old + fates.data + fates.bad)
  /\ CurrentStats.processed = fates.data
  /\ CurrentStats.dropped = AtBound(fates.old + fates.bad + fates.returned)
  /\ CurrentStats.discarded = fates.old

\* The counters the stream reports never go back, and none moves by more than
\* one completion: not when a queue fails, is rebuilt or is closed.
StatsStepwise ==
  [][\A c \in Counters : CurrentStats'[c] \in CurrentStats[c]..(CurrentStats[c] + 1)]_vars

\* A read that waits is answered as long as the endpoint completes transfers,
\* however many old submissions a restart has to discard first.
ReadAnswered == reading ~> ~reading

\* rx/mod.rs:31: buffers_dropped is the "Number of observed completions not
\* delivered" -- so none is counted both as processed, which hands it to the
\* reader, and as dropped.
DroppedNotDelivered ==
  CurrentStats.received < StatsBound =>
    CurrentStats.processed + CurrentStats.dropped <= CurrentStats.received
=============================================================================
