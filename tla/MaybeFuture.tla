----------------------------- MODULE MaybeFuture -----------------------------
(***************************************************************************)
(* The combinators every operation of the driver is put together from      *)
(* (maybe_future.rs).  An operation is either run on the caller's thread   *)
(* with `wait', or turned into a future with `into_future' and polled; the *)
(* two paths are written separately, and this module runs both.            *)
(*                                                                         *)
(* An operation is a tree of combinators over leaves, numbered from the    *)
(* root down.  A combinator's `first' is built with it; `ok' and `err' are *)
(* what its continuation builds from the first's result.  A nusb transfer  *)
(* is submitted by being built, before anybody polls it, so that building  *)
(* a node too early or twice is an effect on the radio.                    *)
(***************************************************************************)
EXTENDS Naturals, SequencesExt

CONSTANT Trees   \* the operations to run

Wrappers == {"and_then", "continue_with", "either"}
Effects  == {"transfer", "blocking"}
None     == 0

\* The nodes of the operation t that are built together with m: its first, the
\* first of that, and so on.
SpineOf(t, m) ==
  LET s[n \in DOMAIN t] == {n} \cup (IF t[n].kind \in Wrappers THEN s[t[n].first] ELSE {})
  IN  s[m]

KidsOf(t, n) == {t[n].first, t[n].ok, t[n].err} \ {None}

Nodes == [kind : Wrappers \cup Effects \cup {"operation", "ready"},
          first : Nat, ok : Nat, err : Nat, value : {"none", "ok", "err"}]

\* Every node but the root has one parent, with a smaller number.
Proper(t) ==
  /\ t \in Seq(Nodes) /\ t # <<>>
  /\ \A m \in DOMAIN t \ {1} :
       \E n \in DOMAIN t : n < m /\ \A p \in DOMAIN t : m \in KidsOf(t, p) <=> p = n
  /\ \A n \in DOMAIN t :
       /\ KidsOf(t, n) \subseteq DOMAIN t \ {1}
       /\ t[n].kind \in Wrappers \cup {"operation"} <=> t[n].first # None
       /\ t[n].kind \in {"and_then", "continue_with"} <=> t[n].ok # None
       /\ t[n].first # None => t[n].first \notin {t[n].ok, t[n].err}
       /\ t[n].err # None => t[n].kind = "continue_with"
       /\ t[n].kind = "ready" => t[n].value \in {"ok", "err"}

ASSUME MaybeFutureAssumption == \A t \in Trees : Proper(t)

VARIABLES
  tree,     \* the operation that is run
  stage,    \* per node: "none", an "operation", on the stack of "wait", a "future", "over"
  taken,    \* per combinator: `continuation' is None
  second,   \* per combinator: `second', or the operation the continuation returned
  usb,      \* per leaf: "none", "submitted", its result "ok" or "err", or "canceled"
  order,    \* the leaves in the order they were submitted
  waker,    \* the leaf that holds the waker of the last poll
  woken,    \* the task that polls was woken
  caller,   \* what the owner of the operation did with it
  pc        \* the call in progress: call or return of a node, or none

vars == <<tree, stage, taken, second, usb, order, waker, woken, caller, pc>>

Node    == DOMAIN tree
Kind(n) == tree[n].kind
Kids(n) == KidsOf(tree, n)

\* What n's continuation builds from the result v of the first operation.
Next(n, v) == IF v = "err" /\ tree[n].err # None THEN tree[n].err ELSE tree[n].ok

\* The node that n is a part of.
Parent(n) == IF n = 1 THEN None ELSE CHOOSE p \in Node : n \in Kids(p)

\* What is built together with m.
Spine(m) == SpineOf(tree, m)

\* What is dropped together with m.
Subtree(m) == LET s[n \in Node] == {n} \cup UNION {s[k] : k \in Kids(n)} IN s[m]

Put(f, S, v) == [n \in DOMAIN f |-> IF n \in S THEN v ELSE f[n]]
Running(what, n, v) == [do |-> what, at |-> n, value |-> v]
Call(n)      == Running("call", n, "none")
Return(n, v) == Running("return", n, v)
Panic(n)     == Running("panic", n, "none")
Idle         == Running("idle", None, "none")

-----------------------------------------------------------------------------
(* Building, converting and dropping                                        *)

Of(kind, S) == {n \in S : Kind(n) = kind}

Submit(S) == /\ usb' = Put(usb, S, "submitted")
             /\ order' = order \o SetToSeq(S)
NoSubmit == UNCHANGED <<usb, order>>

\* An operation is built: its nusb transfer is submitted.
Build(m) == /\ stage' = Put(stage, Spine(m), "operation")
            /\ Submit(Of("transfer", Spine(m)))

\* An operation is built and converted: its system call is started, too.
BuildFuture(m) == /\ stage' = Put(stage, Spine(m), "future")
                  /\ Submit(Of("transfer", Spine(m)) \cup Of("blocking", Spine(m)))

\* into_future of a combinator converts what was built with it.
IntoFuture ==
  /\ caller = "held"
  /\ caller' = "converted"
  /\ stage' = Put(stage, Spine(1), "future")
  /\ Submit(Of("blocking", Spine(1)))
  /\ UNCHANGED <<tree, taken, second, waker, woken, pc>>

\* The owner drops the operation, the future, or a future that is pending.
Drop ==
  /\ caller \in {"held", "converted", "polling"} /\ pc = Idle
  /\ caller' = "dropped"
  /\ stage' = Put(stage, {n \in Node : stage[n] # "none"}, "over")
  /\ usb' = Put(usb, {n \in Node : usb[n] = "submitted"}, "canceled")
  /\ UNCHANGED <<tree, taken, second, order, waker, woken, pc>>

-----------------------------------------------------------------------------
(* wait                                                                     *)

StartWait ==
  /\ caller = "held"
  /\ caller' = "waiting"
  /\ pc' = Call(1)
  /\ UNCHANGED <<tree, stage, taken, second, usb, order, waker, woken>>

\* The call in progress is n's, to wait or to poll.
Waits(n) == pc = Call(n) /\ stage[n] = "operation"
Polls(n) == pc = Call(n) /\ stage[n] = "future"

\* AndThen, ContinueWith and Either wait for what is built into them first.
WaitFirst(n) ==
  /\ Waits(n) /\ Kind(n) \in Wrappers
  /\ stage' = Put(stage, {n}, "wait")
  /\ pc' = Call(tree[n].first)
  /\ UNCHANGED <<tree, taken, second, usb, order, waker, woken, caller>>

\* ControlOperation is run by block_on: this thread polls it.
BlockOn(n) ==
  /\ Waits(n) /\ Kind(n) = "operation"
  /\ stage' = Put(stage, {n}, "future")
  /\ woken' = FALSE
  /\ UNCHANGED <<tree, taken, second, usb, order, waker, caller, pc>>

\* A system call is started by the wait for it.
WaitSystemCall(n) ==
  /\ Waits(n) /\ Kind(n) = "blocking" /\ usb[n] = "none"
  /\ Submit({n})
  /\ UNCHANGED <<tree, stage, taken, second, waker, woken, caller, pc>>

\* The continuation is moved out of p to be called.
Take(p) == Put(taken, {p}, TRUE)

\* The wait of p goes on after its first returned v: and_then returns an
\* error, everything else becomes the continuation's argument.
WaitSecond(p, v) ==
  LET m == Next(p, v) IN
  /\ Build(m)
  /\ taken' = Take(p)
  /\ second' = Put(second, {p}, m)
  /\ pc' = Call(m)
  /\ UNCHANGED <<tree, waker, woken, caller>>

-----------------------------------------------------------------------------
(* poll                                                                     *)

\* The future that somebody polls: the owner's, or block_on's.
Driven == CHOOSE n \in Node : /\ stage[n] = "future"
                              /\ \A m \in Node : stage[m] = "future" => n <= m

\* The task is polled: it was woken, or its executor polls it for no reason.
Poll ==
  /\ pc = Idle /\ caller \in {"converted", "polling", "waiting"}
  /\ caller' = IF caller = "converted" THEN "polling" ELSE caller
  /\ woken' = FALSE
  /\ pc' = Call(Driven)
  /\ UNCHANGED <<tree, stage, taken, second, usb, order, waker>>

\* A combinator polls its second operation once there is one.
Target(n) == IF second[n] # None THEN second[n] ELSE tree[n].first

PollCombinator(n) ==
  /\ Polls(n) /\ Kind(n) \in Wrappers
  /\ pc' = IF stage[Target(n)] = "future" THEN Call(Target(n)) ELSE Panic(n)
  /\ UNCHANGED <<tree, stage, taken, second, usb, order, waker, woken, caller>>

\* The body of an async block is built when the block is polled first.
PollBlock(n) ==
  LET body == tree[n].first IN
  /\ Polls(n) /\ Kind(n) = "operation"
  /\ IF stage[body] = "none" THEN BuildFuture(body) ELSE NoSubmit /\ UNCHANGED stage
  /\ pc' = Call(body)
  /\ UNCHANGED <<tree, taken, second, waker, woken, caller>>

\* A leaf that is polled too early keeps the waker.
PollPending(n) ==
  /\ Polls(n) /\ usb[n] = "submitted"
  /\ waker' = n
  /\ pc' = Idle
  /\ UNCHANGED <<tree, stage, taken, second, usb, order, woken, caller>>

\* What a combinator drops when its first operation is ready.
Released(p) == {n \in Subtree(tree[p].first) : stage[n] # "none"}

\* Mutant of Onward: the poll returns Pending where the loop goes round.
OnwardPending(p) == Idle

\* With its second operation in place, the loop of poll begins again.
Onward(p) == Call(p)

\* Mutant of Release: the second operation is built, and the first dropped after.
ReleaseLate(n, v) ==
  /\ BuildFuture(Next(Parent(n), v))
  /\ pc' = Running("released", n, v)
  /\ UNCHANGED <<tree, taken, second, waker, woken, caller>>

\* The poll of a combinator whose first operation n returned v drops it ...
Release(n, v) ==
  /\ stage' = Put(stage, Released(Parent(n)), "over")
  /\ pc' = Running("released", n, v)
  /\ UNCHANGED <<tree, taken, second, usb, order, waker, woken, caller>>

\* ... and then builds the second, unless the continuation is gone.
PollSecond(n, v) ==
  LET p == Parent(n) m == Next(p, v) IN
  /\ pc = Running("released", n, v)
  /\ IF taken[p]
     THEN pc' = Panic(p) /\ NoSubmit /\ UNCHANGED <<stage, taken, second>>
     ELSE /\ BuildFuture(m)
          /\ taken' = Take(p)
          /\ second' = Put(second, {p}, m)
          /\ pc' = Onward(p)
  /\ UNCHANGED <<tree, waker, woken, caller>>

-----------------------------------------------------------------------------
(* Returning                                                                *)

Result(n) == IF Kind(n) = "ready" THEN tree[n].value ELSE usb[n]

\* A leaf with a result returns it; wait consumes the leaf.
ReturnLeaf(n) ==
  /\ pc = Call(n) /\ Kind(n) \in Effects \cup {"ready"} /\ Result(n) \in {"ok", "err"}
  /\ stage' = IF stage[n] = "operation" THEN Put(stage, {n}, "over") ELSE stage
  /\ pc' = Return(n, Result(n))
  /\ UNCHANGED <<tree, taken, second, usb, order, waker, woken, caller>>

\* Mutant of Stops: and_then calls its continuation after an error, too.
StopsNever(p, n, v) == n # tree[p].first \/ Kind(p) \in {"either", "operation"}

\* Mutant of Stops: continue_with returns an error like and_then.
StopsOnError(p, n, v) == StopsNever(p, n, v) \/ v = "err"

\* p returns what its child n returned: its second operation, the only one
\* of a wrapper, or the failed first of and_then.
Stops(p, n, v) == \/ n # tree[p].first
                  \/ Kind(p) \in {"either", "operation"}
                  \/ Kind(p) = "and_then" /\ v = "err"

\* Dropped on the way: the failed first of and_then, and, where p waits or
\* is the block_on, p with everything in it.
DroppedBy(p, n) ==
  IF stage[p] = "wait" \/ (caller = "waiting" /\ p = Driven) THEN {m \in Subtree(p) : stage[m] # "none"}
  ELSE IF Kind(p) = "and_then" /\ n = tree[p].first THEN Released(p) ELSE {}

ReturnUp(n, v) ==
  LET p == Parent(n) IN
  /\ pc = Return(n, v) /\ p # None /\ Stops(p, n, v)
  /\ stage' = Put(stage, DroppedBy(p, n), "over")
  /\ pc' = Return(p, v)
  /\ UNCHANGED <<tree, taken, second, usb, order, waker, woken, caller>>

Continue(n, v) ==
  LET p == Parent(n) IN
  /\ pc = Return(n, v) /\ p # None /\ ~Stops(p, n, v)
  /\ IF stage[p] = "wait" THEN WaitSecond(p, v) ELSE Release(n, v)

\* The owner has the result, and drops the future.
Finish(v) ==
  /\ pc = Return(1, v)
  /\ caller' = "done"
  /\ stage' = Put(stage, {n \in Node : stage[n] # "none"}, "over")
  /\ pc' = Running("idle", None, v)
  /\ UNCHANGED <<tree, taken, second, usb, order, waker, woken>>

\* A leaf completes; its waker, if it holds one, wakes the task.
Complete(n) ==
  /\ usb[n] = "submitted"
  /\ \E v \in {"ok", "err"} : usb' = Put(usb, {n}, v)
  /\ waker' = IF waker = n THEN None ELSE waker
  /\ woken' = (woken \/ waker = n)
  /\ UNCHANGED <<tree, stage, taken, second, order, caller, pc>>

-----------------------------------------------------------------------------

Init ==
  /\ tree \in Trees
  /\ stage = [n \in Node |-> IF n \in Spine(1) THEN "operation" ELSE "none"]
  /\ taken = [n \in Node |-> FALSE]
  /\ second = [n \in Node |-> None]
  /\ usb = [n \in Node |-> IF n \in Of("transfer", Spine(1)) THEN "submitted" ELSE "none"]
  /\ order = SetToSeq(Of("transfer", Spine(1)))
  /\ waker = None
  /\ woken = TRUE
  /\ caller = "held"
  /\ pc = Idle

Step(n) ==
  \/ WaitFirst(n) \/ BlockOn(n) \/ WaitSystemCall(n)
  \/ PollCombinator(n) \/ PollBlock(n) \/ PollPending(n) \/ ReturnLeaf(n)
  \/ \E v \in {"ok", "err"} : ReturnUp(n, v) \/ Continue(n, v) \/ PollSecond(n, v)

Run == (\E n \in Node : Step(n)) \/ (\E v \in {"ok", "err"} : Finish(v))

System == \E n \in Node : Complete(n)

NextState == IntoFuture \/ StartWait \/ Drop \/ Poll \/ Run \/ System

Spec == Init /\ [][NextState]_vars

\* A thread runs on, a transfer ends within its timeout (protocol.rs), and an
\* executor polls the task it was woken for.  Nobody has to begin.
FairSpec == Spec /\ WF_vars(Run) /\ WF_vars(System) /\ WF_vars(woken /\ caller # "converted" /\ Poll)
-----------------------------------------------------------------------------
(* Properties                                                               *)

\* No transfer is submitted before the operation is waited for or polled, not
\* even by into_future, however many combinators and eager transfers it is
\* made of (ControlBackend, usb/mod.rs:29; the test of maybe_future.rs:338);
\* system calls of nusb start with the conversion, and not before it.
LazyUntilBegun ==
  /\ caller = "held" => order = <<>>
  /\ caller = "converted" => \A n \in Of("transfer", Node) : usb[n] = "none"

\* What a program that does one step after the other would have submitted,
\* and returned, with these results of the leaves.
Program(results) ==
  LET r[n \in Node] ==
        IF Kind(n) \in Effects THEN [uses |-> <<n>>, value |-> results[n]]
        ELSE IF Kind(n) = "ready" THEN [uses |-> <<>>, value |-> tree[n].value]
        ELSE LET f == r[tree[n].first] IN
             IF \/ Kind(n) \in {"either", "operation"} \/ f.value = "pending"
                \/ Kind(n) = "and_then" /\ f.value = "err"
             THEN f
             ELSE LET s == r[Next(n, f.value)] IN [uses |-> f.uses \o s.uses, value |-> s.value]
  IN  r

\* The results there are so far.
Results == [n \in Node |-> IF usb[n] \in {"ok", "err"} THEN usb[n] ELSE "pending"]
Sequential(m) == Program(Results)[m]

\* wait and poll submit exactly the transfers of the sequential program, in
\* its order, each once: nothing after the error that ends an and_then,
\* nothing ahead of a result that decides about it, and after an error the
\* cleanup that a continue_with chose.  The only freedom, until the
\* end, is whether the next is submitted already.
InProgramOrder ==
  LET q == Sequential(1) IN
  \/ order = q.uses
  \/ /\ caller # "done" /\ q.value = "pending"
     /\ order = SubSeq(q.uses, 1, Len(q.uses) - 1)

\* Both ways to run an operation return what the sequential program does, and
\* no expect of the combinators fires on the way (`polled after completion',
\* `continuation missing') for an owner that stops once it has the result.
SameResult == /\ caller = "done" => pc.value = Sequential(1).value
              /\ pc.do # "panic"

\* The operation that is done is released before the next is built: two
\* transfers are never held at a time, not even between the two assignments
\* (ContinueWithFuture::poll drops first before it calls the continuation).
OneAtATime ==
  Cardinality({n \in Node : /\ usb[n] # "none"
                            /\ stage[n] \in {"operation", "wait", "future"}}) <= 1

\* An operation that was begun, and that is not dropped, ends: no wakeup is
\* lost between the first operation and the second.
Completes == caller \in {"waiting", "polling"} ~> caller \in {"done", "dropped"}
=============================================================================
