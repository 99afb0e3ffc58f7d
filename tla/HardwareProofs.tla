---------------------------- MODULE HardwareProofs ----------------------------
(***************************************************************************)
(* The safety properties of Hardware, for every board, every set of        *)
(* settings and every number of failures.                                  *)
(*                                                                         *)
(* A script runs as a trace, a function from the number of steps taken to  *)
(* the radio and the driver; Course and Run compute traces.  From the      *)
(* effect of one step follow, by induction over the trace, the effects of  *)
(* rows of writes, from those the effects of the parts of a configuration, *)
(* and from those that a configuration that comes to its end leaves the    *)
(* radio steady (ConfigureEffect).  The shutdown is followed the same way, *)
(* with transfers that fail (ShutdownEffect).                              *)
(***************************************************************************)
EXTENDS Hardware, SequenceTheorems, Induction

-----------------------------------------------------------------------------
(* Traces *)

\* One step after the other from m; the transfers of F fail, those of R among
\* them reach the radio nevertheless.
Trace(h, m, s, F, R, n) ==
  h = [k \in 0..n |-> IF k = 0 THEN m ELSE Step(h[k - 1], s[k], k \in F, k \in R)]

\* There is such a trace.
LEMMA TraceExists ==
  ASSUME NEW m, NEW s, NEW F, NEW R
  PROVE  \A n \in Nat : \E h : Trace(h, m, s, F, R, n)
<1> DEFINE S == {n \in Nat : \E h : Trace(h, m, s, F, R, n)}
<1>1. 0 \in S
  <2>1. Trace([k \in 0..0 |-> m], m, s, F, R, 0)
    BY DEF Trace
  <2> QED
    BY <2>1
<1>2. \A n \in Nat : n \in S => n + 1 \in S
  <2> TAKE n \in Nat
  <2> HAVE n \in S
  <2>1. PICK h : Trace(h, m, s, F, R, n)
    OBVIOUS
  <2> DEFINE st == Step(h[n], s[n + 1], n + 1 \in F, n + 1 \in R)
  <2> HIDE DEF st
  <2> DEFINE g == [k \in 0..(n + 1) |-> IF k = n + 1 THEN st ELSE h[k]]
  <2>2. \A k \in 0..n : g[k] = h[k]
    OBVIOUS
  <2>3. g[n + 1] = st
    OBVIOUS
  <2>4. \A k \in 0..n : h[k] = IF k = 0 THEN m ELSE Step(h[k - 1], s[k], k \in F, k \in R)
    BY <2>1 DEF Trace
  <2>5. g = [k \in 0..(n + 1) |-> g[k]]
    OBVIOUS
  <2> HIDE DEF g
  <2>6. \A k \in 0..(n + 1) : g[k] = IF k = 0 THEN m ELSE Step(g[k - 1], s[k], k \in F, k \in R)
    <3> TAKE k \in 0..(n+1)
    <3>1. CASE k = n + 1
      <4>1. g[k - 1] = h[n]
        BY <3>1, <2>2
      <4> QED
        BY <3>1, <2>3, <4>1 DEF st
    <3>2. CASE k \in 0..n
      <4>1. CASE k = 0
        BY <4>1, <2>2, <2>4
      <4>2. CASE k # 0
         <5>1. k - 1 \in 0..n
           BY <4>2, <3>2
         <5> QED
           BY <4>2, <3>2, <5>1, <2>2, <2>4
      <4> QED
        BY <4>1, <4>2
    <3> QED
      BY <3>1, <3>2
  <2>7. Trace(g, m, s, F, R, n + 1)
    BY <2>5, <2>6 DEF Trace
  <2> QED
    BY <2>7
<1> HIDE DEF S
<1>3. \A n \in Nat : n \in S
   BY <1>1, <1>2, InductionOn
<1> QED
  BY <1>3 DEF S

\* A step that goes well.
Go(m, st) == Step(m, st, FALSE, FALSE)

\* What does not fail goes well.
LEMMA NoFailure ==
  ASSUME NEW m, NEW st, NEW k, NEW F, k \notin F
  PROVE  Step(m, st, k \in F, k \in F) = Go(m, st)
<1>1. (k \in F) = FALSE
  OBVIOUS
<1> QED
  BY <1>1 DEF Step, Go

\* The radio and the driver before a script.
Begin == [chip |-> chip, driver |-> driver]

\* A trace begins at m and goes on step by step.
LEMMA TraceSteps ==
  ASSUME NEW h, NEW m, NEW s, NEW F, NEW R, NEW n \in Nat, Trace(h, m, s, F, R, n)
  PROVE  /\ h[0] = m
         /\ \A k \in 1..n : h[k] = Step(h[k - 1], s[k], k \in F, k \in R)
<1> DEFINE T(k) == Step(h[k - 1], s[k], k \in F, k \in R)
<1> HIDE DEF T
<1>1. h = [k \in 0..n |-> IF k = 0 THEN m ELSE T(k)]
  BY DEF Trace, T
<1>2. h[0] = m /\ \A k \in 1..n : h[k] = T(k)
  BY <1>1
<1> QED
  BY <1>2 DEF T

\* Course computes the trace on which nothing fails.
LEMMA CourseIsTrace ==
  ASSUME NEW s, Len(s) \in Nat, NEW h, Trace(h, Begin, s, {}, {}, Len(s))
  PROVE  \A k \in 0..Len(s) : Course(s)[k + 1] = h[k]
<1> DEFINE G(m) == [k \in 0..Len(s) |->
              IF k = 0 THEN <<Begin>>
              ELSE Append(m[k - 1], Go(m[k - 1][k], s[k]))]
<1> DEFINE Prefix(k) == [i \in 1..(k + 1) |-> h[i - 1]]
<1> DEFINE r == CHOOSE m : m = G(m)
<1>1. Course(s) = r[Len(s)]
  BY Zenon DEF Course, Begin, Go
<1>2. /\ h[0] = Begin
      /\ \A k \in 1..Len(s) : h[k] = Go(h[k - 1], s[k])
  <2>1. /\ h[0] = Begin
        /\ \A k \in 1..Len(s) : h[k] = Step(h[k - 1], s[k], k \in {}, k \in {})
    BY TraceSteps
  <2>2. ASSUME NEW k \in 1..Len(s)
        PROVE  h[k] = Go(h[k - 1], s[k])
    <3>1. Step(h[k - 1], s[k], k \in {}, k \in {}) = Go(h[k - 1], s[k])
      <4>1. k \notin {}
        OBVIOUS
      <4> QED
        BY <4>1, NoFailure, Zenon
    <3> QED
      BY <2>1, <3>1, Zenon
  <2> QED
    BY <2>1, <2>2
<1>3. Prefix(0) = <<Begin>>
  BY <1>2
<1>4. \A k \in 1..Len(s) : Prefix(k) = Append(Prefix(k - 1), Go(Prefix(k - 1)[k], s[k]))
  <2> TAKE k \in 1..Len(s)
  <2> DEFINE H == {h[i] : i \in 0..Len(s)}
             p == Prefix(k - 1)
             x == h[k]
             q == Prefix(k)
  <2>1. p[k] = h[k - 1]
    OBVIOUS
  <2>2. p \in Seq(H) /\ Len(p) = k /\ x \in H
    OBVIOUS
  <2>3. /\ q \in Seq(H) /\ Len(q) = k + 1
        /\ \A i \in 1..k : q[i] = p[i]
        /\ q[k + 1] = x
    <3>1. q \in Seq(H) /\ Len(q) = k + 1
      OBVIOUS
    <3>2. \A i \in 1..k : q[i] = h[i - 1]
      OBVIOUS
    <3>3. \A i \in 1..k : p[i] = h[i - 1]
      OBVIOUS
    <3>4. q[k + 1] = x
      <4>1. k + 1 \in 1..(k + 1) /\ (k + 1) - 1 = k
        OBVIOUS
      <4> QED
        BY <4>1
    <3> HIDE DEF p, q, x
    <3> QED
      BY <3>1, <3>2, <3>3, <3>4
  <2> HIDE DEF H, p, x, q
  <2>4. /\ Append(p, x) \in Seq(H) /\ Len(Append(p, x)) = k + 1
        /\ \A i \in 1..k : Append(p, x)[i] = p[i]
        /\ Append(p, x)[k + 1] = x
    BY <2>2, AppendProperties
  <2>5. \A i \in 1..(k + 1) : q[i] = Append(p, x)[i]
    BY <2>3, <2>4
  <2>6. q = Append(p, x)
    BY <2>3, <2>4, <2>5, SeqEqual
  <2>7. x = Go(p[k], s[k])
    BY <2>1, <1>2 DEF x
  <2> QED
    BY <2>6, <2>7 DEF p, q
<1> HIDE DEF Prefix
<1>5. \E m : m = G(m)
  <2> DEFINE g == [k \in 0..Len(s) |-> Prefix(k)]
  <2>1. \A k \in 1..Len(s) : g[k] = Prefix(k) /\ g[k - 1] = Prefix(k - 1)
    OBVIOUS
  <2>2. g[0] = <<Begin>>
    BY <1>3
  <2>3. g = [k \in 0..Len(s) |-> g[k]]
    OBVIOUS
  <2> HIDE DEF g
  <2>4. \A k \in 0..Len(s) :
           g[k] = IF k = 0 THEN <<Begin>>
                  ELSE Append(g[k - 1], Go(g[k - 1][k], s[k]))
    <3> TAKE k \in 0..Len(s)
    <3>1. CASE k = 0
      <4>1. g[0] = IF 0 = 0 THEN <<Begin>> ELSE Append(g[0 - 1], Go(g[0 - 1][0], s[0]))
        BY <2>2, Zenon
      <4> QED
        BY <3>1, <4>1, Zenon
    <3>2. CASE k \in 1..Len(s)
      <4>1. k # 0
        BY <3>2
      <4>2. g[k] = Append(g[k - 1], Go(g[k - 1][k], s[k]))
        BY <3>2, <2>1, <1>4, Zenon
      <4> QED
        BY <4>1, <4>2, Zenon
    <3> QED
      BY <3>1, <3>2
  <2>5. g = G(g)
    BY <2>3, <2>4
  <2> QED
    BY <2>5
<1>6. r = G(r)
  <2> HIDE DEF G
  <2> QED
    BY <1>5, Zenon
<1> HIDE DEF r
<1>7. \A k \in 0..Len(s) :
           r[k] = IF k = 0 THEN <<Begin>>
                  ELSE Append(r[k - 1], Go(r[k - 1][k], s[k]))
  BY <1>6, Zenon
<1> DEFINE S == {k \in Nat : k \in 0..Len(s) => r[k] = Prefix(k)}
<1>8. \A k \in Nat : k \in S
  <2>1. 0 \in S
    BY <1>3, <1>7
  <2>2. ASSUME NEW k \in Nat, k \in S
        PROVE  k + 1 \in S
    <3> SUFFICES ASSUME k + 1 \in 0..Len(s)
                 PROVE  r[k + 1] = Prefix(k + 1)
      OBVIOUS
    <3>1. k + 1 \in 1..Len(s) /\ (k + 1) - 1 = k
      OBVIOUS
    <3>2. r[k] = Prefix(k)
      BY <2>2, <3>1
    <3>3. r[k + 1] = Append(r[k], Go(r[k][k + 1], s[k + 1]))
      <4> DEFINE j == k + 1
      <4>1. j \in 0..Len(s) /\ j # 0 /\ j - 1 = k
        OBVIOUS
      <4> HIDE DEF j
      <4>2. r[j] = Append(r[k], Go(r[k][j], s[j]))
        BY <1>7, <4>1, Zenon
      <4> QED
        BY <4>2 DEF j
    <3>4. Prefix(k + 1) = Append(Prefix(k), Go(Prefix(k)[k + 1], s[k + 1]))
      BY <1>4, <3>1
    <3> QED
      BY <3>2, <3>3, <3>4
  <2> HIDE DEF S
  <2> QED
    BY <2>1, <2>2, InductionOn
<1>9. r[Len(s)] = Prefix(Len(s))
  BY <1>8
<1> QED
  BY <1>1, <1>9 DEF Prefix

\* What Ends and Canceled guarantee of an end.
IsEnd(s, e) ==
  /\ e.last \in 0..Len(s)
  /\ e.failed \subseteq 1..e.last
  /\ e.reached \subseteq e.failed

\* Run computes where the trace to an end leads: the course up to the first
\* failure, and the steps after it.
LEMMA RunIsTrace ==
  ASSUME NEW s, Len(s) \in Nat, NEW e, IsEnd(s, e)
  PROVE  \E h : /\ Trace(h, Begin, s, e.failed, e.reached, e.last)
                /\ Run(s, Course(s), e) = h[e.last]
<1> DEFINE F == e.failed
           L == e.last
           On(m, k) == Step(m, s[k], k \in e.failed, k \in e.reached)
           first == CHOOSE k \in e.failed : \A i \in e.failed : k <= i
           intact == IF F = {} THEN L ELSE first - 1
           cs == Course(s)
           G(m) == [k \in intact..L |-> IF k = intact THEN cs[k + 1] ELSE On(m[k - 1], k)]
           r == CHOOSE m : m = G(m)
<1>1. Run(s, cs, e) = r[L]
  BY Zenon DEF Run
<1>2. L \in 0..Len(s) /\ F \subseteq 1..L /\ e.reached \subseteq F
  BY DEF IsEnd
<1>3. intact \in 0..L /\ \A k \in 1..intact : k \notin F
  <2>1. CASE F = {}
    BY <2>1, <1>2
  <2>2. CASE F # {}
    <3>1. \E k \in F : \A i \in F : k <= i
      <4>1. F \in SUBSET Nat
        BY <1>2
      <4> QED
        BY <2>2, <4>1, LeastOf
    <3>2. first \in F /\ \A i \in F : first <= i
      BY <3>1, Zenon
    <3>3. intact = first - 1
      BY <2>2
    <3> HIDE DEF intact, first
    <3> QED
      BY <3>2, <3>3, <1>2
  <2> QED
    BY <2>1, <2>2
<1> HIDE DEF first, intact
<1>4. PICK g : Trace(g, Begin, s, {}, {}, Len(s))
  BY TraceExists
<1>5. \A k \in 0..Len(s) : cs[k + 1] = g[k]
  BY <1>4, CourseIsTrace
<1>6. PICK h : Trace(h, Begin, s, e.failed, e.reached, L)
  <2>1. L \in Nat
    BY <1>2
  <2> QED
    BY <2>1, TraceExists, Zenon
<1>7. h[0] = Begin /\ \A k \in 1..L : h[k] = On(h[k - 1], k)
  BY <1>2, <1>6, TraceSteps
<1>8. g[0] = Begin /\ \A k \in 1..Len(s) : g[k] = Go(g[k - 1], s[k])
  <2>1. g[0] = Begin /\ \A k \in 1..Len(s) : g[k] = Step(g[k - 1], s[k], k \in {}, k \in {})
    BY <1>4, TraceSteps
  <2>2. ASSUME NEW k \in 1..Len(s)
        PROVE  g[k] = Go(g[k - 1], s[k])
    <3>1. Step(g[k - 1], s[k], k \in {}, k \in {}) = Go(g[k - 1], s[k])
      <4>1. k \notin {}
        OBVIOUS
      <4> QED
        BY <4>1, NoFailure, Zenon
    <3> QED
      BY <2>1, <3>1, Zenon
  <2> QED
    BY <2>1, <2>2
<1>9. \A k \in 1..intact : \A m : On(m, k) = Go(m, s[k])
  <2> SUFFICES ASSUME NEW k \in 1..intact, NEW m
               PROVE  On(m, k) = Go(m, s[k])
    OBVIOUS
  <2>1. k \notin e.failed /\ k \notin e.reached
    BY <1>2, <1>3
  <2>2. (k \in e.failed) = FALSE /\ (k \in e.reached) = FALSE
    BY <2>1
  <2> QED
    BY <2>2 DEF Go, Step
<1> HIDE DEF On, cs, F, L
<1> DEFINE S == {k \in Nat : k \in 0..intact => h[k] = g[k]}
<1>10. \A k \in Nat : k \in S
  <2>1. 0 \in S
    BY <1>7, <1>8
  <2>2. ASSUME NEW k \in Nat, k \in S
        PROVE  k + 1 \in S
    <3> SUFFICES ASSUME k + 1 \in 0..intact
                 PROVE  h[k + 1] = g[k + 1]
      OBVIOUS
    <3> DEFINE j == k + 1
    <3>1. j \in 1..intact /\ j \in 1..L /\ j \in 1..Len(s) /\ j - 1 = k /\ k \in 0..intact
      BY <1>2, <1>3
    <3>2. h[k] = g[k]
      BY <2>2, <3>1
    <3> HIDE DEF j
    <3>3. h[j] = On(h[k], j) /\ g[j] = Go(g[k], s[j])
      BY <1>7, <1>8, <3>1
    <3>4. h[j] = g[j]
      BY <1>9, <3>1, <3>2, <3>3
    <3> QED
      BY <3>4 DEF j
  <2> HIDE DEF S
  <2> QED
    BY <2>1, <2>2, InductionOn
<1>11. h[intact] = cs[intact + 1]
  <2>1. intact \in Nat /\ intact \in 0..Len(s) /\ intact \in 0..intact
    BY <1>2, <1>3
  <2> QED
    BY <2>1, <1>5, <1>10
<1>12. \E m : m = G(m)
  <2> DEFINE q == [k \in intact..L |-> h[k]]
  <2>1. \A k \in intact..L : q[k] = IF k = intact THEN cs[k + 1] ELSE On(q[k - 1], k)
    <3> TAKE k \in intact..L
    <3>1. CASE k = intact
      BY <3>1, <1>11
    <3>2. CASE k # intact
      <4>1. k - 1 \in intact..L /\ k \in 1..L
        BY <3>2, <1>2, <1>3
      <4>2. q[k - 1] = h[k - 1] /\ q[k] = h[k]
        BY <4>1
      <4> HIDE DEF q
      <4>3. q[k] = On(q[k - 1], k)
        BY <4>1, <4>2, <1>7
      <4> QED
        BY <4>3, <3>2
    <3> QED
      BY <3>1, <3>2
  <2>2. q = [k \in intact..L |-> q[k]]
    OBVIOUS
  <2> HIDE DEF q
  <2>3. q = G(q)
    BY <2>1, <2>2
  <2> QED
    BY <2>3
<1>13. r = G(r)
  <2> HIDE DEF G
  <2> QED
    BY <1>12, Zenon
<1> HIDE DEF r
<1>14. \A k \in intact..L : r[k] = IF k = intact THEN cs[k + 1] ELSE On(r[k - 1], k)
  BY <1>13, Zenon
<1> DEFINE T == {k \in Nat : k \in intact..L => r[k] = h[k]}
<1>15. \A k \in Nat : k \in T
  <2>1. 0 \in T
    BY <1>3, <1>11, <1>14
  <2>2. ASSUME NEW k \in Nat, k \in T
        PROVE  k + 1 \in T
    <3> SUFFICES ASSUME k + 1 \in intact..L
                 PROVE  r[k + 1] = h[k + 1]
      OBVIOUS
    <3>1. CASE k + 1 = intact
      BY <3>1, <1>11, <1>14
    <3>2. CASE k + 1 # intact
      <4> DEFINE j == k + 1
      <4>1. j # intact /\ j \in intact..L /\ j \in 1..L /\ k \in intact..L /\ j - 1 = k
        BY <3>2, <1>2, <1>3
      <4>2. r[k] = h[k]
        BY <2>2, <4>1
      <4> HIDE DEF j
      <4>3. r[j] = On(r[j - 1], j)
        BY <4>1, <1>14, Zenon
      <4>4. r[j] = h[j]
        BY <4>1, <4>2, <4>3, <1>7
      <4> QED
        BY <4>4 DEF j
    <3> QED
      BY <3>1, <3>2
  <2> HIDE DEF T
  <2> QED
    BY <2>1, <2>2, InductionOn
<1>16. r[L] = h[L]
  BY <1>2, <1>3, <1>15
<1> QED
  BY <1>1, <1>6, <1>16 DEF cs, L

-----------------------------------------------------------------------------
(* Ends and scripts *)

\* A set of numbers that is bounded and not empty has a greatest element.
LEMMA GreatestOf ==
  ASSUME NEW n \in Nat, NEW S \in SUBSET (0..n), S # {}
  PROVE  \E k \in S : \A i \in S : i <= k
<1> DEFINE D == {n - i : i \in S}
<1>1. D \in SUBSET Nat /\ D # {}
  <2>1. \A i \in S : i \in Int /\ n - i \in Nat
    OBVIOUS
  <2> QED
    BY <2>1
<1>2. PICK d \in D : \A x \in D : d <= x
  BY <1>1, LeastOf
<1>3. PICK k \in S : d = n - k
  BY <1>2
<1>4. \A i \in S : n - k <= n - i
  BY <1>2, <1>3
<1>5. \A i \in S : i <= k
  <2> TAKE i \in S
  <2>1. k \in Int /\ i \in Int /\ n - k <= n - i
    BY <1>4
  <2> QED
    BY <2>1
<1> QED
  BY <1>5

\* A sequence of whatever values.
Script(s) == \E X : s \in Seq(X)

\* Its indices.
LEMMA ScriptLen ==
  ASSUME NEW s, Script(s)
  PROVE  Len(s) \in Nat /\ DOMAIN s = 1..Len(s)
BY DEF Script

\* One script after the other.
LEMMA ScriptConcat ==
  ASSUME NEW s, NEW t, Script(s), Script(t)
  PROVE  /\ Script(s \o t)
         /\ Len(s \o t) = Len(s) + Len(t)
         /\ \A i \in 1..Len(s) : (s \o t)[i] = s[i]
         /\ \A i \in 1..Len(t) : (s \o t)[Len(s) + i] = t[i]
<1>1. PICK X : s \in Seq(X)
  BY DEF Script
<1>2. PICK Y : t \in Seq(Y)
  BY DEF Script
<1> DEFINE Z == X \cup Y
<1>3. s \in Seq(Z) /\ t \in Seq(Z)
  BY <1>1, <1>2
<1> HIDE DEF Z
<1>4. /\ s \o t \in Seq(Z)
      /\ Len(s \o t) = Len(s) + Len(t)
      /\ \A i \in 1..(Len(s) + Len(t)) :
           (s \o t)[i] = IF i <= Len(s) THEN s[i] ELSE t[i - Len(s)]
  BY <1>3, ConcatProperties
<1>5. Len(s) \in Nat /\ Len(t) \in Nat
  BY <1>3
<1>6. \A i \in 1..Len(s) : (s \o t)[i] = s[i]
  BY <1>4, <1>5
<1>7. \A i \in 1..Len(t) : (s \o t)[Len(s) + i] = t[i]
  <2> TAKE i \in 1..Len(t)
  <2> DEFINE j == Len(s) + i
  <2>1. j \in 1..(Len(s) + Len(t)) /\ ~(j <= Len(s)) /\ j - Len(s) = i
    BY <1>5
  <2> HIDE DEF j
  <2>2. (s \o t)[j] = t[i]
    BY <1>4, <2>1
  <2> QED
    BY <2>2 DEF j
<1> QED
  BY <1>4, <1>6, <1>7 DEF Script

\* A row of writes as a script.
LEMMA ScriptEach ==
  ASSUME NEW ws, Script(ws)
  PROVE  /\ Script(Each(ws))
         /\ Len(Each(ws)) = Len(ws)
         /\ \A i \in 1..Len(ws) : Each(ws)[i] = Radio(ws[i])
<1>1. DOMAIN ws = 1..Len(ws) /\ Len(ws) \in Nat
  BY ScriptLen
<1>2. Each(ws) = [i \in 1..Len(ws) |-> Radio(ws[i])]
  BY <1>1 DEF Each
<1> DEFINE X == {Radio(ws[i]) : i \in 1..Len(ws)}
<1>3. Each(ws) \in Seq(X)
  BY <1>1, <1>2
<1>4. Script(Each(ws))
  BY <1>3 DEF Script
<1>5. Len(Each(ws)) = Len(ws)
  BY <1>1, <1>2
<1> QED
  BY <1>2, <1>4, <1>5

\* A step that the script goes on after.
Trying(st) == [st EXCEPT !.tolerant = TRUE]

\* A script of such steps.
LEMMA ScriptTolerant ==
  ASSUME NEW s, Script(s)
  PROVE  /\ Script(Tolerant(s))
         /\ Len(Tolerant(s)) = Len(s)
         /\ \A i \in 1..Len(s) : Tolerant(s)[i] = Trying(s[i])
<1>1. DOMAIN s = 1..Len(s) /\ Len(s) \in Nat
  BY ScriptLen
<1> DEFINE T(i) == Trying(s[i])
<1>2. Tolerant(s) = [i \in 1..Len(s) |-> T(i)]
  BY <1>1 DEF Tolerant, Trying
<1> HIDE DEF T
<1> DEFINE X == {T(i) : i \in 1..Len(s)}
<1>3. Tolerant(s) \in Seq(X)
  BY <1>1, <1>2
<1>4. Len(Tolerant(s)) = Len(s) /\ \A i \in 1..Len(s) : Tolerant(s)[i] = T(i)
  BY <1>1, <1>2
<1>5. Script(Tolerant(s))
  BY <1>3 DEF Script
<1> QED
  BY <1>4, <1>5 DEF T

\* A part that may be left out.
LEMMA ScriptIf ==
  ASSUME NEW b \in BOOLEAN, NEW s, Script(s)
  PROVE  Script(If(b, s))
<1>1. Script(<<>>)
  <2>1. <<>> \in Seq({})
    OBVIOUS
  <2> QED
    BY <2>1 DEF Script
<1>2. CASE b
  BY <1>2 DEF If
<1>3. CASE ~b
  BY <1>1, <1>3 DEF If
<1> QED
  BY <1>2, <1>3

\* Short tuples are scripts.
LEMMA ScriptTuples ==
  /\ Script(<<>>)
  /\ \A a : Script(<<a>>) /\ Len(<<a>>) = 1
  /\ \A a, b : Script(<<a, b>>) /\ Len(<<a, b>>) = 2
  /\ \A a, b, c : Script(<<a, b, c>>) /\ Len(<<a, b, c>>) = 3
  /\ \A a, b, c, d : Script(<<a, b, c, d>>) /\ Len(<<a, b, c, d>>) = 4
<1>1. Script(<<>>)
  <2>1. <<>> \in Seq({})
    OBVIOUS
  <2> QED
    BY <2>1 DEF Script
<1>2. ASSUME NEW a
      PROVE  Script(<<a>>) /\ Len(<<a>>) = 1
  <2>1. <<a>> \in Seq({a})
    OBVIOUS
  <2> QED
    BY <2>1 DEF Script
<1>3. ASSUME NEW a, NEW b
      PROVE  Script(<<a, b>>) /\ Len(<<a, b>>) = 2
  <2>1. <<a, b>> \in Seq({a, b})
    OBVIOUS
  <2> QED
    BY <2>1 DEF Script
<1>4. ASSUME NEW a, NEW b, NEW c
      PROVE  Script(<<a, b, c>>) /\ Len(<<a, b, c>>) = 3
  <2>1. <<a, b, c>> \in Seq({a, b, c})
    OBVIOUS
  <2> QED
    BY <2>1 DEF Script
<1>5. ASSUME NEW a, NEW b, NEW c, NEW d
      PROVE  Script(<<a, b, c, d>>) /\ Len(<<a, b, c, d>>) = 4
  <2>1. <<a, b, c, d>> \in Seq({a, b, c, d})
    OBVIOUS
  <2> QED
    BY <2>1 DEF Script
<1> QED
  BY <1>1, <1>2, <1>3, <1>4, <1>5

\* A script without a failure is run to its last step; so is one that returned
\* an error, if every step was one to go on after.
LEMMA EndsOf ==
  ASSUME NEW s, Script(s), NEW e \in Ends(s)
  PROVE  /\ IsEnd(s, e)
         /\ e.result \in {"ok", "err", "canceled"}
         /\ e.result = "ok" => e.failed = {} /\ e.last = Len(s)
         /\ e.result = "err" /\ (\A i \in 1..Len(s) : s[i].to = "radio" /\ s[i].tolerant)
              => e.last = Len(s)
<1>1. Len(s) \in Nat /\ DOMAIN s = 1..Len(s)
  BY ScriptLen
<1>2. Transfers(s) \subseteq 1..Len(s) /\ TolerantIn(s) \subseteq 1..Len(s)
  BY <1>1 DEF Transfers, TolerantIn
<1>3. \A F, k, r : \A x \in End(F, k, r) :
         x.failed = F /\ x.reached \subseteq F /\ x.last = k /\ x.result = r
  BY DEF End
<1>4. CASE e \in Done(s)
  <2>1. e.failed = {} /\ e.reached \subseteq {} /\ e.last = Len(s) /\ e.result = "ok"
    BY <1>3, <1>4 DEF Done
  <2> QED
    BY <1>1, <2>1 DEF IsEnd
<1>5. CASE e \in Canceled(s)
  <2> DEFINE C(k) == IF s[k].tolerant THEN Few({i \in TolerantIn(s) : i < k}) ELSE {{}}
  <2>1. \A k \in Nat : \A F \in C(k) : F \subseteq {i \in TolerantIn(s) : i < k}
    BY DEF Few
  <2> HIDE DEF C
  <2> DEFINE D(k) == UNION {End(F \cup {k}, k, "canceled") : F \in C(k)}
  <2>2. Canceled(s) = UNION {D(k) : k \in Transfers(s)}
    BY Zenon DEF Canceled, C
  <2>a. PICK k \in Transfers(s) : e \in D(k)
    <3> HIDE DEF D
    <3> QED
      BY <1>5, <2>2
  <2>3. PICK F \in C(k) : e \in End(F \cup {k}, k, "canceled")
    BY <2>a
  <2>4. k \in 1..Len(s) /\ F \subseteq 1..k
    <3>1. k \in 1..Len(s) /\ k \in Nat
      BY <1>1, <1>2, <2>3
    <3>2. F \subseteq {i \in TolerantIn(s) : i < k}
      BY <2>1, <2>3, <3>1
    <3> QED
      BY <1>1, <1>2, <3>1, <3>2
  <2>5. e.failed = F \cup {k} /\ e.reached \subseteq F \cup {k} /\ e.last = k /\ e.result = "canceled"
    BY <1>3, <2>3
  <2>6. IsEnd(s, e)
    BY <1>1, <2>4, <2>5 DEF IsEnd
  <2> QED
    BY <2>5, <2>6
<1>6. CASE e \in Errors(s)
  <2> DEFINE T == TolerantIn(s)
             top == CHOOSE k \in T : \A i \in T : i <= k
             One == UNION {End({k}, k, "err") : k \in Transfers(s) \ T}
             Many == UNION {End(F, top, "err") : F \in Few(T) \ {{}}}
  <2>1. CASE e \in One
    <3>1. PICK k \in Transfers(s) \ T : e \in End({k}, k, "err")
      BY <2>1
    <3>2. e.failed = {k} /\ e.reached \subseteq {k} /\ e.last = k /\ e.result = "err"
      BY <1>3, <3>1
    <3>3. k \in 1..Len(s)
      BY <1>2, <3>1
    <3>4. ~(s[k].to = "radio" /\ s[k].tolerant)
      BY <3>1 DEF TolerantIn, Transfers
    <3>5. IsEnd(s, e)
      BY <1>1, <3>2, <3>3 DEF IsEnd
    <3> QED
      BY <3>2, <3>3, <3>4, <3>5
  <2>2. CASE e \in Many
    <3>1. PICK F \in Few(T) \ {{}} : e \in End(F, top, "err")
      <4> HIDE DEF top
      <4> QED
        BY <2>2
    <3>2. F \subseteq T /\ T # {}
      BY <3>1 DEF Few
    <3>3. \E k \in T : \A i \in T : i <= k
      <4>1. T \in SUBSET (0..Len(s))
        BY <1>1, <1>2
      <4> QED
        BY <1>1, <3>2, <4>1, GreatestOf
    <3>4. top \in T /\ \A i \in T : i <= top
      BY <3>3, Zenon
    <3>5. e.failed = F /\ e.reached \subseteq F /\ e.last = top /\ e.result = "err"
      BY <1>3, <3>1
    <3> HIDE DEF top
    <3>6. F \subseteq 1..top /\ top \in 1..Len(s)
      BY <1>1, <1>2, <3>2, <3>4
    <3>7. ASSUME \A i \in 1..Len(s) : s[i].to = "radio" /\ s[i].tolerant
          PROVE  top = Len(s)
      <4>1. Len(s) \in DOMAIN s /\ Len(s) \in 1..Len(s)
        BY <1>1, <3>6
      <4>2. s[Len(s)].to = "radio" /\ s[Len(s)].tolerant
        BY <3>7, <4>1
      <4>3. Len(s) \in T
        BY <4>1, <4>2 DEF TolerantIn, Transfers
      <4>4. Len(s) <= top
        BY <3>4, <4>3
      <4>5. top \in Int /\ Len(s) \in Int /\ top <= Len(s)
        BY <1>1, <3>6
      <4> QED
        BY <4>4, <4>5
    <3>8. IsEnd(s, e)
      BY <1>1, <3>5, <3>6 DEF IsEnd
    <3> QED
      BY <3>5, <3>7, <3>8
  <2>3. Errors(s) = One \cup Many
    BY Zenon DEF Errors
  <2>4. e \in One \/ e \in Many
    <3> HIDE DEF One, Many
    <3> QED
      BY <1>6, <2>3
  <2> QED
    BY <2>1, <2>2, <2>4
<1> QED
  BY <1>4, <1>5, <1>6 DEF Ends

-----------------------------------------------------------------------------
(* What a script does when nothing fails *)

\* From m, script s leads to n when nothing fails.
Leads(m, s, n) == \E h : Trace(h, m, s, {}, {}, Len(s)) /\ n = h[Len(s)]

\* A path of good steps.
Walk(h, m, s, n) ==
  h[0] = m /\ (\A k \in 1..Len(s) : h[k] = Go(h[k - 1], s[k])) /\ h[Len(s)] = n

\* That is a path.
LEMMA LeadsIsPath ==
  ASSUME NEW m, NEW s, NEW n, Len(s) \in Nat
  PROVE  Leads(m, s, n) <=> \E h : Walk(h, m, s, n)
<1>1. ASSUME NEW h, Trace(h, m, s, {}, {}, Len(s)), n = h[Len(s)]
      PROVE  Walk(h, m, s, n)
  <2>1. h[0] = m /\ \A k \in 1..Len(s) : h[k] = Step(h[k - 1], s[k], k \in {}, k \in {})
    BY <1>1, TraceSteps
  <2>2. ASSUME NEW k \in 1..Len(s)
        PROVE  h[k] = Go(h[k - 1], s[k])
    <3>1. Step(h[k - 1], s[k], k \in {}, k \in {}) = Go(h[k - 1], s[k])
      <4>1. k \notin {}
        OBVIOUS
      <4> QED
        BY <4>1, NoFailure, Zenon
    <3> QED
      BY <2>1, <3>1, Zenon
  <2> QED
    BY <1>1, <2>1, <2>2 DEF Walk
<1>2. ASSUME NEW h, Walk(h, m, s, n)
      PROVE  Leads(m, s, n)
  <2> DEFINE g == [k \in 0..Len(s) |-> h[k]]
  <2>1. \A k \in 0..Len(s) : g[k] = h[k]
    OBVIOUS
  <2>2. g = [k \in 0..Len(s) |-> g[k]]
    OBVIOUS
  <2> HIDE DEF g
  <2>3. \A k \in 0..Len(s) :
           g[k] = IF k = 0 THEN m ELSE Step(g[k - 1], s[k], k \in {}, k \in {})
    <3> TAKE k \in 0..Len(s)
    <3>1. CASE k = 0
      BY <1>2, <2>1, <3>1 DEF Walk
    <3>2. CASE k # 0
      <4>1. k \in 1..Len(s) /\ k - 1 \in 0..Len(s)
        BY <3>2
      <4>2. g[k] = Go(g[k - 1], s[k])
        BY <1>2, <2>1, <4>1 DEF Walk
      <4>3. Step(g[k - 1], s[k], k \in {}, k \in {}) = Go(g[k - 1], s[k])
        <5>1. k \notin {}
          OBVIOUS
        <5> QED
          BY <5>1, NoFailure, Zenon
      <4> QED
        BY <3>2, <4>2, <4>3, Zenon
    <3> QED
      BY <3>1, <3>2
  <2>4. Trace(g, m, s, {}, {}, Len(s))
    BY <2>2, <2>3, Zenon DEF Trace
  <2>5. n = g[Len(s)]
    BY <1>2, <2>1 DEF Walk
  <2> QED
    BY <2>4, <2>5 DEF Leads
<1> QED
  BY <1>1, <1>2 DEF Leads

\* Two scripts one after the other meet in between.
LEMMA LeadsSplit ==
  ASSUME NEW m, NEW s, NEW t, NEW n, Script(s), Script(t), Leads(m, s \o t, n)
  PROVE  \E o : Leads(m, s, o) /\ Leads(o, t, n)
<1> DEFINE u == s \o t
<1>1. /\ Len(s) \in Nat /\ Len(t) \in Nat /\ Len(u) = Len(s) + Len(t)
      /\ \A i \in 1..Len(s) : u[i] = s[i]
      /\ \A i \in 1..Len(t) : u[Len(s) + i] = t[i]
  BY ScriptLen, ScriptConcat
<1>2. Leads(m, u, n)
  OBVIOUS
<1> HIDE DEF u
<1>3. PICK h : Walk(h, m, u, n)
  BY <1>1, <1>2, LeadsIsPath
<1>4. h[0] = m /\ (\A k \in 1..Len(u) : h[k] = Go(h[k - 1], u[k])) /\ h[Len(u)] = n
  BY <1>3 DEF Walk
<1> DEFINE o == h[Len(s)]
           g == [k \in 0..Len(t) |-> h[Len(s) + k]]
<1>5. Walk(h, m, s, o)
  <2>1. ASSUME NEW k \in 1..Len(s)
        PROVE  h[k] = Go(h[k - 1], s[k])
    <3>1. k \in 1..Len(u)
      BY <1>1
    <3> QED
      BY <1>1, <1>4, <3>1
  <2> QED
    BY <1>4, <2>1 DEF Walk
<1>6. Walk(g, o, t, n)
  <2>1. g[0] = o /\ g[Len(t)] = n
    BY <1>1, <1>4
  <2>2. ASSUME NEW k \in 1..Len(t)
        PROVE  g[k] = Go(g[k - 1], t[k])
    <3> DEFINE j == Len(s) + k
    <3>1. j \in 1..Len(u) /\ j - 1 = Len(s) + (k - 1) /\ k - 1 \in 0..Len(t) /\ k \in 0..Len(t)
      BY <1>1
    <3>2. u[j] = t[k] /\ g[k] = h[j] /\ g[k - 1] = h[Len(s) + (k - 1)]
      BY <1>1, <3>1
    <3> HIDE DEF j, g
    <3>3. h[j] = Go(h[j - 1], u[j])
      BY <1>4, <3>1
    <3> QED
      BY <3>1, <3>2, <3>3
  <2> HIDE DEF g
  <2> QED
    BY <2>1, <2>2 DEF Walk
<1> QED
  BY <1>1, <1>5, <1>6, LeadsIsPath

\* The empty script changes nothing.
LEMMA LeadsNowhere ==
  ASSUME NEW m, NEW n, Leads(m, <<>>, n)
  PROVE  n = m
<1>1. Len(<<>>) = 0
  OBVIOUS
<1>2. PICK h : Walk(h, m, <<>>, n)
  BY <1>1, LeadsIsPath
<1> QED
  BY <1>1, <1>2 DEF Walk

\* A script of one step.
LEMMA LeadsOne ==
  ASSUME NEW m, NEW st, NEW n, Leads(m, <<st>>, n)
  PROVE  n = Go(m, st)
<1>1. Len(<<st>>) = 1 /\ <<st>>[1] = st
  OBVIOUS
<1>2. PICK h : Walk(h, m, <<st>>, n)
  BY <1>1, LeadsIsPath
<1> QED
  BY <1>1, <1>2 DEF Walk

\* A row of writes is one write after the other.
LEMMA LeadsEach ==
  ASSUME NEW m, NEW ws, NEW n, Script(ws), Leads(m, Each(ws), n)
  PROVE  \E h : /\ h[0] = m /\ h[Len(ws)] = n
                /\ \A k \in 1..Len(ws) : h[k] = Go(h[k - 1], Radio(ws[k]))
<1>1. /\ Len(Each(ws)) = Len(ws) /\ Len(ws) \in Nat
      /\ \A k \in 1..Len(ws) : Each(ws)[k] = Radio(ws[k])
  BY ScriptEach, ScriptLen
<1>2. PICK h : Walk(h, m, Each(ws), n)
  BY <1>1, LeadsIsPath
<1>3. h[0] = m /\ h[Len(ws)] = n
  BY <1>1, <1>2 DEF Walk
<1>4. \A k \in 1..Len(ws) : h[k] = Go(h[k - 1], Radio(ws[k]))
  BY <1>1, <1>2 DEF Walk
<1> QED
  BY <1>3, <1>4

-----------------------------------------------------------------------------
(* What a write does when the copy is right *)

\* The radio and the driver have the fields they should have.
Shaped(m) == DOMAIN m.chip = ChipFields /\ DOMAIN m.driver = DriverFields

\* And the copy of the tuner's registers is right.
Mirrored(m) == Shaped(m) /\ \A f \in TunerFields : m.driver[f] = m.chip[f]

\* What the driver remembers besides the copy.
Flags == {"input", "known", "direct"}

\* n is m after a write of w.
Wrote(m, w, n) ==
  /\ Mirrored(n)
  /\ \A f \in ChipFields : n.chip[f] = IF f \in DOMAIN w THEN w[f] ELSE m.chip[f]
  /\ \A f \in Flags : n.driver[f] = m.driver[f]

\* The sets of fields, spelled out.
LEMMA FieldNames ==
  /\ TunerFields = {"antenna", "lnaMode", "lnaStep", "hf", "cap", "vga", "power", "divider",
                    "vco", "fraction", "drain", "filter", "autotune", "corner"}
  /\ TunerFields \cap Flags = {}
  /\ DriverFields = TunerFields \cup Flags
  /\ TunerFields \subseteq ChipFields
  /\ ChipFields = TunerFields \cup {"streaming", "clock", "gate", "bias", "notHf", "adc", "spectrum",
                                    "branch", "agc", "ppm", "rate", "if"}
<1>1. TunerFields = {"antenna", "lnaMode", "lnaStep", "hf", "cap", "vga", "power", "divider",
                    "vco", "fraction", "drain", "filter", "autotune", "corner"}
  BY DEF TunerFields, Reg
<1>2. TunerFields \cap Flags = {}
  BY <1>1 DEF Flags
<1> QED
  BY <1>1, <1>2 DEF DriverFields, ChipFields, Flags

\* Over field by field: the fields of w come first.
LEMMA OverAt ==
  ASSUME NEW w, NEW c
  PROVE  /\ DOMAIN Over(w, c) = DOMAIN c
         /\ \A f \in DOMAIN c : Over(w, c)[f] = IF f \in DOMAIN w THEN w[f] ELSE c[f]
BY DEF Over

\* Sent: the bits of w, and those beside them from the copy d.
LEMMA SentAt ==
  ASSUME NEW w, NEW d
  PROVE  /\ DOMAIN Sent(w, d) = DOMAIN w \cup Beside(w)
         /\ \A f \in DOMAIN w : Sent(w, d)[f] = w[f]
         /\ \A f \in Beside(w) : Sent(w, d)[f] = d[f]
         /\ Beside(w) \subseteq TunerFields
         /\ Beside(w) \cap DOMAIN w = {}
         /\ DOMAIN w \cap TunerFields = {} => Beside(w) = {}
<1>1. \A f \in TunerFields : Neighbours[f] \subseteq TunerFields
  BY DEF Neighbours
<1>2. /\ Beside(w) \subseteq TunerFields
      /\ Beside(w) \cap DOMAIN w = {}
      /\ DOMAIN w \cap TunerFields = {} => Beside(w) = {}
  BY <1>1 DEF Beside
<1> QED
  BY <1>2 DEF Sent

\* Kept: the tuner bits of w.
LEMMA KeptAt ==
  ASSUME NEW w
  PROVE  /\ DOMAIN Kept(w) = DOMAIN w \cap TunerFields
         /\ \A f \in DOMAIN w \cap TunerFields : Kept(w)[f] = w[f]
BY DEF Kept

\* What a good write does.
LEMMA GoWrites ==
  ASSUME NEW m, NEW st, st.to = "radio",
         m.chip.gate = "open" \/ DOMAIN st.set \cap TunerFields = {}
  PROVE  /\ Go(m, st).chip = Over(Sent(st.set, m.driver), m.chip)
         /\ Go(m, st).driver = Over(Kept(st.set), m.driver)
<1>1. ~Deaf(m.chip, st.set)
  BY DEF Deaf
<1> QED
  BY <1>1 DEF Go, Step

\* A write to a tuner that listens keeps the copy right, also where the copy
\* of other bits was sent along.
LEMMA GoMirrors ==
  ASSUME NEW m, NEW st, st.to = "radio", Mirrored(m),
         m.chip.gate = "open" \/ DOMAIN st.set \cap TunerFields = {}
  PROVE  Wrote(m, st.set, Go(m, st))
<1> DEFINE w == st.set
           n == Go(m, st)
<1>1. n.chip = Over(Sent(w, m.driver), m.chip) /\ n.driver = Over(Kept(w), m.driver)
  BY GoWrites
<1>2. DOMAIN m.chip = ChipFields /\ DOMAIN m.driver = DriverFields
      /\ \A f \in TunerFields : m.driver[f] = m.chip[f]
  BY DEF Mirrored, Shaped
<1> HIDE DEF w, n
<1>3. DOMAIN n.chip = ChipFields /\ DOMAIN n.driver = DriverFields
  BY <1>1, <1>2, OverAt
<1> DEFINE x == Sent(w, m.driver)
           y == Kept(w)
<1>4. ASSUME NEW f \in ChipFields
      PROVE  n.chip[f] = IF f \in DOMAIN w THEN w[f] ELSE m.chip[f]
  <2>1. Over(x, m.chip)[f] = IF f \in DOMAIN x THEN x[f] ELSE m.chip[f]
    BY <1>2, OverAt
  <2>2. /\ DOMAIN x = DOMAIN w \cup Beside(w)
        /\ \A g \in DOMAIN w : x[g] = w[g]
        /\ \A g \in Beside(w) : x[g] = m.driver[g] /\ g \in TunerFields /\ g \notin DOMAIN w
    <3> DEFINE d == m.driver
    <3>1. /\ DOMAIN Sent(w, d) = DOMAIN w \cup Beside(w)
          /\ \A g \in DOMAIN w : Sent(w, d)[g] = w[g]
          /\ \A g \in Beside(w) : Sent(w, d)[g] = d[g]
          /\ Beside(w) \subseteq TunerFields
          /\ Beside(w) \cap DOMAIN w = {}
      <4> HIDE DEF d
      <4> QED
        BY SentAt, Zenon
    <3> HIDE DEF d
    <3>2. x = Sent(w, d)
      BY DEF d
    <3> HIDE DEF x
    <3>3. \A g \in Beside(w) : x[g] = d[g]
      BY <3>1, <3>2
    <3> QED
      BY <3>1, <3>2, <3>3 DEF d
  <2>3. n.chip[f] = IF f \in DOMAIN x THEN x[f] ELSE m.chip[f]
    BY <1>1, <2>1
  <2> HIDE DEF x
  <2> QED
    BY <1>2, <2>2, <2>3
<1>5. ASSUME NEW f \in DriverFields
      PROVE  n.driver[f] = IF f \in DOMAIN w \cap TunerFields THEN w[f] ELSE m.driver[f]
  <2>1. Over(y, m.driver)[f] = IF f \in DOMAIN y THEN y[f] ELSE m.driver[f]
    BY <1>2, OverAt
  <2>2. /\ DOMAIN y = DOMAIN w \cap TunerFields
        /\ \A g \in DOMAIN w \cap TunerFields : y[g] = w[g]
    BY KeptAt
  <2>3. n.driver[f] = IF f \in DOMAIN y THEN y[f] ELSE m.driver[f]
    BY <1>1, <2>1
  <2> HIDE DEF y
  <2> QED
    BY <2>2, <2>3
<1>6. \A f \in TunerFields : n.driver[f] = n.chip[f]
  BY <1>2, <1>4, <1>5, FieldNames
<1>7. \A f \in Flags : n.driver[f] = m.driver[f]
  <2>1. \A f \in Flags : f \in DriverFields /\ f \notin TunerFields
    BY FieldNames
  <2> QED
    BY <1>5, <2>1
<1> QED
  BY <1>3, <1>4, <1>6, <1>7 DEF Wrote, Mirrored, Shaped, w, n

\* An assignment of the driver.
LEMMA GoKnows ==
  ASSUME NEW m, NEW st, st.to = "driver", Shaped(m)
  PROVE  /\ Go(m, st).chip = m.chip
         /\ DOMAIN Go(m, st).driver = DriverFields
         /\ \A f \in DriverFields :
              Go(m, st).driver[f] = IF f \in DOMAIN st.set THEN st.set[f] ELSE m.driver[f]
<1>1. Go(m, st).chip = m.chip /\ Go(m, st).driver = Over(st.set, m.driver)
  BY DEF Go, Step
<1> QED
  BY <1>1, OverAt DEF Shaped

-----------------------------------------------------------------------------
(* What the parts of a script do *)

\* The copy is right, and the tuner listens.
Tuned(m) == Mirrored(m) /\ m.chip.gate = "open"

\* A write that leaves the repeater as it is, to a tuner that listens.
LEMMA TunedStep ==
  ASSUME NEW m, NEW w, Tuned(m), "gate" \notin DOMAIN w
  PROVE  Tuned(Go(m, Radio(w))) /\ Wrote(m, w, Go(m, Radio(w)))
<1>1. Radio(w).to = "radio" /\ Radio(w).set = w
  BY DEF Radio
<1>2. Wrote(m, w, Go(m, Radio(w)))
  BY <1>1, GoMirrors DEF Tuned
<1> QED
  BY <1>2, FieldNames DEF Tuned, Wrote

\* The same for a row of one.
LEMMA TunedRow1 ==
  ASSUME NEW m, NEW n, NEW a, Tuned(m), Leads(m, Each(<<a>>), n),
         "gate" \notin DOMAIN a
  PROVE  Tuned(n) /\ Wrote(m, a, n)
<1> DEFINE ws == <<a>>
<1>1. Script(ws) /\ Len(ws) = 1
  BY ScriptTuples
<1>2. ws[1] = a
  OBVIOUS
<1>3. Leads(m, Each(ws), n)
  OBVIOUS
<1> HIDE DEF ws
<1>4. PICK h : h[0] = m /\ h[1] = n /\ \A k \in 1..1 : h[k] = Go(h[k - 1], Radio(ws[k]))
  BY <1>1, <1>3, LeadsEach
<1>5. n = Go(m, Radio(a))
  BY <1>2, <1>4
<1>6. Tuned(n) /\ Wrote(m, a, n)
  BY <1>5, TunedStep
<1> QED
  BY <1>6

\* The same for a row of two.
LEMMA TunedRow2 ==
  ASSUME NEW m, NEW n, NEW a, NEW b, Tuned(m), Leads(m, Each(<<a, b>>), n),
         "gate" \notin DOMAIN a, "gate" \notin DOMAIN b
  PROVE  Tuned(n) /\ \E p : Wrote(m, a, p) /\ Wrote(p, b, n)
<1> DEFINE ws == <<a, b>>
<1>1. Script(ws) /\ Len(ws) = 2
  BY ScriptTuples
<1>2. ws[1] = a /\ ws[2] = b
  OBVIOUS
<1>3. Leads(m, Each(ws), n)
  OBVIOUS
<1> HIDE DEF ws
<1>4. PICK h : h[0] = m /\ h[2] = n /\ \A k \in 1..2 : h[k] = Go(h[k - 1], Radio(ws[k]))
  BY <1>1, <1>3, LeadsEach
<1>5. /\ h[1] = Go(m, Radio(a))
      /\ n = Go(h[1], Radio(b))
  BY <1>2, <1>4
<1>6. Tuned(h[1]) /\ Wrote(m, a, h[1])
  BY <1>5, TunedStep
<1>7. Tuned(n) /\ Wrote(h[1], b, n)
  BY <1>5, <1>6, TunedStep
<1> QED
  BY <1>6, <1>7

\* The same for a row of three.
LEMMA TunedRow3 ==
  ASSUME NEW m, NEW n, NEW a, NEW b, NEW c, Tuned(m), Leads(m, Each(<<a, b, c>>), n),
         "gate" \notin DOMAIN a, "gate" \notin DOMAIN b, "gate" \notin DOMAIN c
  PROVE  Tuned(n) /\ \E p, q : Wrote(m, a, p) /\ Wrote(p, b, q) /\ Wrote(q, c, n)
<1> DEFINE ws == <<a, b, c>>
<1>1. Script(ws) /\ Len(ws) = 3
  BY ScriptTuples
<1>2. ws[1] = a /\ ws[2] = b /\ ws[3] = c
  OBVIOUS
<1>3. Leads(m, Each(ws), n)
  OBVIOUS
<1> HIDE DEF ws
<1>4. PICK h : h[0] = m /\ h[3] = n /\ \A k \in 1..3 : h[k] = Go(h[k - 1], Radio(ws[k]))
  BY <1>1, <1>3, LeadsEach
<1>5. /\ h[1] = Go(m, Radio(a))
      /\ h[2] = Go(h[1], Radio(b))
      /\ n = Go(h[2], Radio(c))
  BY <1>2, <1>4
<1>6. Tuned(h[1]) /\ Wrote(m, a, h[1])
  BY <1>5, TunedStep
<1>7. Tuned(h[2]) /\ Wrote(h[1], b, h[2])
  BY <1>5, <1>6, TunedStep
<1>8. Tuned(n) /\ Wrote(h[2], c, n)
  BY <1>5, <1>7, TunedStep
<1> QED
  BY <1>6, <1>7, <1>8

\* The same for a row of four.
LEMMA TunedRow4 ==
  ASSUME NEW m, NEW n, NEW a, NEW b, NEW c, NEW d, Tuned(m), Leads(m, Each(<<a, b, c, d>>), n),
         "gate" \notin DOMAIN a, "gate" \notin DOMAIN b, "gate" \notin DOMAIN c, "gate" \notin DOMAIN d
  PROVE  Tuned(n) /\ \E p, q, r : Wrote(m, a, p) /\ Wrote(p, b, q) /\ Wrote(q, c, r) /\ Wrote(r, d, n)
<1> DEFINE ws == <<a, b, c, d>>
<1>1. Script(ws) /\ Len(ws) = 4
  BY ScriptTuples
<1>2. ws[1] = a /\ ws[2] = b /\ ws[3] = c /\ ws[4] = d
  OBVIOUS
<1>3. Leads(m, Each(ws), n)
  OBVIOUS
<1> HIDE DEF ws
<1>4. PICK h : h[0] = m /\ h[4] = n /\ \A k \in 1..4 : h[k] = Go(h[k - 1], Radio(ws[k]))
  BY <1>1, <1>3, LeadsEach
<1>5. /\ h[1] = Go(m, Radio(a))
      /\ h[2] = Go(h[1], Radio(b))
      /\ h[3] = Go(h[2], Radio(c))
      /\ n = Go(h[3], Radio(d))
  BY <1>2, <1>4
<1>6. Tuned(h[1]) /\ Wrote(m, a, h[1])
  BY <1>5, TunedStep
<1>7. Tuned(h[2]) /\ Wrote(h[1], b, h[2])
  BY <1>5, <1>6, TunedStep
<1>8. Tuned(h[3]) /\ Wrote(h[2], c, h[3])
  BY <1>5, <1>7, TunedStep
<1>9. Tuned(n) /\ Wrote(h[3], d, n)
  BY <1>5, <1>8, TunedStep
<1> QED
  BY <1>6, <1>7, <1>8, <1>9

\* Tuner::set_pll leaves the PLL at the plan, with the loop filter's range
\* of the attempt that locked.
LEMMA SetPllEffect ==
  ASSUME NEW m, NEW plan, NEW retry \in BOOLEAN, NEW n, Tuned(m), Leads(m, SetPll(plan, retry), n)
  PROVE  /\ Tuned(n)
         /\ Wrote(m, [autotune |-> 1, vco |-> IF retry THEN 3 ELSE 4, divider |-> plan, fraction |-> plan], n)
<1> DEFINE a == [autotune |-> 0]
           b == [vco |-> 4]
           c == [divider |-> plan]
           d == [fraction |-> plan]
           x == [vco |-> 3]
           y == [autotune |-> 1]
           ws == <<a, b, c, d>>
           us == <<x>>
           vs == <<y>>
<1>1. Script(ws) /\ Script(us) /\ Script(vs)
  BY ScriptTuples
<1>a. "gate" \notin DOMAIN a \cup DOMAIN b \cup DOMAIN c \cup DOMAIN d
  OBVIOUS
<1>b. "gate" \notin DOMAIN x
  OBVIOUS
<1>c. "gate" \notin DOMAIN y
  OBVIOUS
<1> HIDE DEF a, b, c, d, x, y
<1>2. Script(Each(ws)) /\ Script(If(retry, Each(us))) /\ Script(Each(vs))
  BY <1>1, ScriptEach, ScriptIf
<1>3. Script(Each(ws) \o If(retry, Each(us)))
  BY <1>2, ScriptConcat
<1>4. Leads(m, Each(ws) \o If(retry, Each(us)) \o Each(vs), n)
  BY DEF SetPll, a, b, c, d, x, y
<1>5. PICK q : Leads(m, Each(ws) \o If(retry, Each(us)), q) /\ Leads(q, Each(vs), n)
  <2> HIDE DEF ws, us, vs
  <2> QED
    BY <1>2, <1>3, <1>4, LeadsSplit
<1>6. PICK p : Leads(m, Each(ws), p) /\ Leads(p, If(retry, Each(us)), q)
  <2> HIDE DEF ws, us, vs
  <2> QED
    BY <1>2, <1>5, LeadsSplit
<1>7. PICK i, j, k : Wrote(m, a, i) /\ Wrote(i, b, j) /\ Wrote(j, c, k) /\ Wrote(k, d, p) /\ Tuned(p)
  BY <1>a, <1>6, TunedRow4
<1>8. Wrote(m, [autotune |-> 0, vco |-> 4, divider |-> plan, fraction |-> plan], p)
  BY <1>7 DEF a, b, c, d, Wrote
<1>9. Tuned(q) /\ Wrote(m, [autotune |-> 0, vco |-> IF retry THEN 3 ELSE 4, divider |-> plan, fraction |-> plan], q)
  <2>1. CASE retry
    <3>1. Leads(p, Each(us), q)
      BY <1>6, <2>1 DEF If
    <3>2. Tuned(q) /\ Wrote(p, x, q)
      BY <1>b, <1>7, <3>1, TunedRow1
    <3> QED
      BY <1>8, <2>1, <3>2 DEF x, Wrote
  <2>2. CASE ~retry
    <3>1. q = p
      BY <1>6, <2>2, LeadsNowhere DEF If
    <3> QED
      BY <1>7, <1>8, <2>2, <3>1
  <2> QED
    BY <2>1, <2>2
<1>10. Tuned(n) /\ Wrote(q, y, n)
  BY <1>c, <1>5, <1>9, TunedRow1
<1> QED
  BY <1>9, <1>10 DEF y, Wrote

-----------------------------------------------------------------------------
(* Rows of whole registers *)

\* The fields of R have the value x in the radio and in the copy, the others
\* the ones they had.
Filled(m, R, x, n) ==
  /\ Shaped(n)
  /\ \A f \in ChipFields : n.chip[f] = IF f \in R THEN x ELSE m.chip[f]
  /\ \A f \in DriverFields : n.driver[f] = IF f \in R THEN x ELSE m.driver[f]

\* A write of all fields of a register needs nothing of the copy.
LEMMA GoWhole ==
  ASSUME NEW m, NEW st, NEW r, NEW x, Shaped(m), m.chip.gate = "open",
         st.to = "radio", DOMAIN st.set = InRegister(r), \A f \in InRegister(r) : st.set[f] = x
  PROVE  Filled(m, InRegister(r), x, Go(m, st))
<1> DEFINE w == st.set
           n == Go(m, st)
<1>1. n.chip = Over(Sent(w, m.driver), m.chip) /\ n.driver = Over(Kept(w), m.driver)
  BY GoWrites
<1>2. DOMAIN w = InRegister(r) /\ (\A f \in InRegister(r) : w[f] = x) /\ InRegister(r) \subseteq TunerFields
  BY DEF InRegister
<1>3. DOMAIN m.chip = ChipFields /\ DOMAIN m.driver = DriverFields
  BY DEF Shaped
<1> HIDE DEF w, n
<1>4. Beside(w) = {}
  <2>1. \A f \in InRegister(r) : Neighbours[f] \subseteq InRegister(r)
    BY <1>2 DEF Neighbours, InRegister
  <2> QED
    BY <1>2, <2>1 DEF Beside
<1> DEFINE y == Sent(w, m.driver)
           z == Kept(w)
<1>5. DOMAIN y = InRegister(r) /\ \A f \in InRegister(r) : y[f] = x
  <2> DEFINE d == m.driver
  <2> HIDE DEF d
  <2>1. DOMAIN Sent(w, d) = DOMAIN w \cup Beside(w) /\ \A g \in DOMAIN w : Sent(w, d)[g] = w[g]
    BY SentAt, Zenon
  <2> QED
    BY <1>2, <1>4, <2>1 DEF d
<1>6. DOMAIN z = InRegister(r) /\ \A f \in InRegister(r) : z[f] = x
  <2>1. DOMAIN w \cap TunerFields = InRegister(r)
    BY <1>2
  <2>2. /\ DOMAIN Kept(w) = DOMAIN w \cap TunerFields
        /\ \A f \in DOMAIN w \cap TunerFields : Kept(w)[f] = w[f]
    BY KeptAt
  <2> HIDE DEF z
  <2>3. z = Kept(w)
    BY DEF z
  <2> QED
    BY <1>2, <2>1, <2>2, <2>3
<1> HIDE DEF y, z
<1>7. n.chip = Over(y, m.chip) /\ n.driver = Over(z, m.driver)
  BY <1>1 DEF y, z
<1> DEFINE u == m.chip
           v == m.driver
<1>8. /\ DOMAIN Over(y, u) = DOMAIN u /\ DOMAIN Over(z, v) = DOMAIN v
      /\ \A f \in DOMAIN u : Over(y, u)[f] = IF f \in DOMAIN y THEN y[f] ELSE u[f]
      /\ \A f \in DOMAIN v : Over(z, v)[f] = IF f \in DOMAIN z THEN z[f] ELSE v[f]
  <2> HIDE DEF u, v
  <2> QED
    BY OverAt
<1>9. Shaped(n)
  BY <1>3, <1>7, <1>8 DEF Shaped
<1> QED
  BY <1>3, <1>5, <1>6, <1>7, <1>8, <1>9 DEF n, Filled

\* All fields of some registers, one register after the other.
LEMMA WholeRow ==
  ASSUME NEW m, NEW s, NEW rs, NEW x, NEW n, Len(s) \in Nat, Shaped(m), m.chip.gate = "open",
         Leads(m, s, n),
         \A i \in 1..Len(s) : s[i].to = "radio" /\ s[i].set = [f \in InRegister(rs[i]) |-> x],
         NEW R, \A f : f \in R <=> \E i \in 1..Len(s) : f \in InRegister(rs[i])
  PROVE  Filled(m, R, x, n)
<1> DEFINE L == Len(s)
<1>1. PICK h : h[0] = m /\ (\A k \in 1..L : h[k] = Go(h[k - 1], s[k])) /\ h[L] = n
  BY LeadsIsPath DEF Walk
<1> DEFINE In(k, f) == \E i \in 1..k : f \in InRegister(rs[i])
           I(k) == /\ Shaped(h[k])
                   /\ \A f \in ChipFields : h[k].chip[f] = IF In(k, f) THEN x ELSE m.chip[f]
                   /\ \A f \in DriverFields : h[k].driver[f] = IF In(k, f) THEN x ELSE m.driver[f]
           S == {k \in Nat : k \in 0..L => I(k)}
<1>2. \A k \in Nat : In(k + 1, "gate") = FALSE
  BY FieldNames DEF InRegister
<1>3. \A k \in Nat : \A f : In(k + 1, f) <=> In(k, f) \/ f \in InRegister(rs[k + 1])
  <2> TAKE k \in Nat
  <2> TAKE f
  <2>1. \A i : i \in 1..(k + 1) <=> i \in 1..k \/ i = k + 1
    OBVIOUS
  <2> QED
    BY <2>1
<1>4. \A f \in ChipFields \cup DriverFields : ~In(0, f)
  OBVIOUS
<1>5. \A k \in Nat : ~In(k, "gate")
  BY FieldNames DEF InRegister
<1> HIDE DEF In
<1>6. \A k \in Nat : k \in S
  <2>1. 0 \in S
    BY <1>1, <1>4
  <2>2. ASSUME NEW k \in Nat, k \in S
        PROVE  k + 1 \in S
    <3> SUFFICES ASSUME k + 1 \in 0..L
                 PROVE  I(k + 1)
      OBVIOUS
    <3>1. I(k)
      BY <2>2
    <3> DEFINE j == k + 1
               a == h[k]
               b == h[k + 1]
               st == s[k + 1]
               r == rs[k + 1]
    <3>2. j \in 1..L /\ j - 1 = k
      OBVIOUS
    <3>3. b = Go(a, st) /\ st.to = "radio" /\ st.set = [f \in InRegister(r) |-> x]
      BY <1>1, <3>2
    <3>4. Shaped(a) /\ a.chip.gate = "open"
      BY <1>5, <3>1, FieldNames
    <3>a. DOMAIN st.set = InRegister(r) /\ \A f \in InRegister(r) : st.set[f] = x
      BY <3>3
    <3> HIDE DEF j, a, b, st, r
    <3>5. /\ Shaped(b)
          /\ \A f \in ChipFields : b.chip[f] = IF f \in InRegister(r) THEN x ELSE a.chip[f]
          /\ \A f \in DriverFields : b.driver[f] = IF f \in InRegister(r) THEN x ELSE a.driver[f]
      <4>1. Filled(a, InRegister(r), x, Go(a, st))
        BY <3>3, <3>4, <3>a, GoWhole
      <4> QED
        BY <3>3, <4>1 DEF Filled
    <3>6. \A f \in ChipFields : b.chip[f] = IF In(k + 1, f) THEN x ELSE m.chip[f]
      BY <1>3, <3>1, <3>5 DEF a, r
    <3>7. \A f \in DriverFields : b.driver[f] = IF In(k + 1, f) THEN x ELSE m.driver[f]
      BY <1>3, <3>1, <3>5 DEF a, r
    <3> QED
      BY <3>5, <3>6, <3>7 DEF b
  <2> HIDE DEF S
  <2> QED
    BY <2>1, <2>2, InductionOn
<1>7. I(L)
  BY <1>6
<1>8. \A f : f \in R <=> In(L, f)
  BY DEF In
<1> QED
  BY <1>1, <1>7, <1>8 DEF Filled

\* The fields Tuner::standby rewrites.
RestFields == {"hf", "antenna", "lnaMode", "lnaStep", "cap", "vga", "power", "drain"}

\* They are the fields of the registers in Standbys, and Registers has all.
LEMMA RegistersCover ==
  /\ Len(Registers) = 11 /\ Script(Registers)
  /\ Len(Standbys) = 6 /\ Script(Standbys)
  /\ \A f : f \in TunerFields <=> \E i \in 1..11 : f \in InRegister(Registers[i])
  /\ \A f : f \in RestFields <=> \E i \in 1..6 : f \in InRegister(Standbys[i])
<1>1. Len(Registers) = 11 /\ Script(Registers)
  <2>1. Registers \in Seq(Int) /\ Len(Registers) = 11
    BY DEF Registers
  <2> QED
    BY <2>1 DEF Script
<1>2. Len(Standbys) = 6 /\ Script(Standbys)
  <2>1. Standbys \in Seq(Int) /\ Len(Standbys) = 6
    BY DEF Standbys
  <2> QED
    BY <2>1 DEF Script
<1>3. /\ Registers[1] = 5 /\ Registers[2] = 6 /\ Registers[3] = 10 /\ Registers[4] = 12
      /\ Registers[5] = 15 /\ Registers[6] = 16 /\ Registers[7] = 18 /\ Registers[8] = 20
      /\ Registers[9] = 23 /\ Registers[10] = 26 /\ Registers[11] = 27
  BY DEF Registers
<1>4. /\ Standbys[1] = 6 /\ Standbys[2] = 5 /\ Standbys[3] = 10
      /\ Standbys[4] = 12 /\ Standbys[5] = 15 /\ Standbys[6] = 23
  BY DEF Standbys
<1>5. /\ Reg["antenna"] = 5 /\ Reg["lnaMode"] = 5 /\ Reg["lnaStep"] = 5 /\ Reg["hf"] = 6
      /\ Reg["cap"] = 10 /\ Reg["vga"] = 12 /\ Reg["power"] = 15 /\ Reg["divider"] = 16
      /\ Reg["vco"] = 18 /\ Reg["fraction"] = 20 /\ Reg["drain"] = 23 /\ Reg["filter"] = 26
      /\ Reg["autotune"] = 26 /\ Reg["corner"] = 27
  BY DEF Reg
<1>6. \A f \in TunerFields : \E i \in 1..11 : Reg[f] = Registers[i]
  BY <1>3, <1>5, FieldNames
<1>7. \A f : f \in TunerFields <=> \E i \in 1..11 : f \in InRegister(Registers[i])
  BY <1>6 DEF InRegister
<1>8. \A f \in TunerFields : f \in RestFields <=> \E i \in 1..6 : Reg[f] = Standbys[i]
  BY <1>4, <1>5, FieldNames DEF RestFields
<1>9. RestFields \subseteq TunerFields
  BY FieldNames DEF RestFields
<1>10. \A f : f \in RestFields <=> \E i \in 1..6 : f \in InRegister(Standbys[i])
  BY <1>8, <1>9 DEF InRegister
<1> QED
  BY <1>1, <1>2, <1>7, <1>10

\* A write that a script goes on after.
Tried(w) == [to |-> "radio", set |-> w, tolerant |-> TRUE]

\* What Tuner::standby writes to the register with number k in Standbys.
RestRow(k) == [f \in InRegister(Standbys[k]) |-> Asleep]

\* Any write becomes one a script goes on after.
LEMMA TriedWrites ==
  ASSUME NEW w
  PROVE  Trying(Radio(w)) = Tried(w) /\ Trying(Tried(w)) = Tried(w)
<1> DEFINE f == FALSE
           t == TRUE
<1> HIDE DEF f, t
<1>1. Radio(w) = [to |-> "radio", set |-> w, tolerant |-> f]
  BY DEF f, Radio
<1>2. Tried(w) = [to |-> "radio", set |-> w, tolerant |-> t]
  BY DEF t, Tried
<1>3. \A st : Trying(st) = [st EXCEPT !.tolerant = t]
  BY Zenon DEF Trying, t
<1> QED
  BY <1>1, <1>2, <1>3

\* A row of writes with every write tried.
LEMMA TriedEach ==
  ASSUME NEW ws, Script(ws)
  PROVE  /\ Script(Tolerant(Each(ws))) /\ Len(Tolerant(Each(ws))) = Len(ws)
         /\ \A i \in 1..Len(ws) : Tolerant(Each(ws))[i] = Tried(ws[i])
<1> DEFINE s == Each(ws)
<1>1. Script(s) /\ Len(s) = Len(ws) /\ \A i \in 1..Len(ws) : s[i] = Radio(ws[i])
  BY ScriptEach
<1> HIDE DEF s
<1>2. /\ Script(Tolerant(s)) /\ Len(Tolerant(s)) = Len(s)
      /\ \A i \in 1..Len(s) : Tolerant(s)[i] = Trying(s[i])
  BY <1>1, ScriptTolerant
<1>3. ASSUME NEW i \in 1..Len(ws)
      PROVE  Tolerant(s)[i] = Tried(ws[i])
  <2>1. Tolerant(s)[i] = Trying(Radio(ws[i]))
    BY <1>1, <1>2
  <2> QED
    BY <2>1, TriedWrites
<1> QED
  BY <1>1, <1>2, <1>3 DEF s

\* The standby is a row of six.
LEMMA StandbyForm ==
  /\ Script(Standby) /\ Len(Standby) = 6
  /\ \A k \in 1..6 : Standby[k] = Tried(RestRow(k))
<1> DEFINE ws == [i \in DOMAIN Standbys |-> [f \in InRegister(Standbys[i]) |-> Asleep]]
<1>1. DOMAIN Standbys = 1..6
  BY RegistersCover, ScriptLen
<1>2. ws = [i \in 1..6 |-> RestRow(i)]
  BY <1>1 DEF RestRow
<1>3. Standby = Tolerant(Each(ws))
  BY Zenon DEF Standby
<1> HIDE DEF ws
<1>4. ws \in Seq({ws[i] : i \in 1..6}) /\ Len(ws) = 6 /\ \A k \in 1..6 : ws[k] = RestRow(k)
  BY <1>2
<1>5. Script(ws)
  BY <1>4 DEF Script
<1> QED
  BY <1>3, <1>4, <1>5, TriedEach

\* It puts every field it rewrites to sleep.
LEMMA StandbyEffect ==
  ASSUME NEW m, NEW n, Shaped(m), m.chip.gate = "open", Leads(m, Standby, n)
  PROVE  Filled(m, RestFields, Asleep, n)
<1> DEFINE s == Standby
<1>1. Len(s) = 6 /\ \A i \in 1..6 : s[i] = Tried(RestRow(i))
  BY StandbyForm
<1>2. Leads(m, s, n)
  OBVIOUS
<1> HIDE DEF s
<1>3. \A i \in 1..Len(s) : s[i].to = "radio" /\ s[i].set = [f \in InRegister(Standbys[i]) |-> Asleep]
  BY <1>1 DEF Tried, RestRow
<1>4. \A f : f \in RestFields <=> \E i \in 1..Len(s) : f \in InRegister(Standbys[i])
  BY <1>1, RegistersCover
<1>5. Len(s) \in Nat
  BY <1>1
<1> QED
  BY <1>2, <1>3, <1>4, <1>5, WholeRow

\* The first writes of Tuner::open bring the radio and the copy together,
\* whatever either had before.
LEMMA InitialRow ==
  ASSUME NEW m, NEW n, Shaped(m), m.chip.gate = "open",
         Leads(m, Each([i \in DOMAIN Registers |-> [f \in InRegister(Registers[i]) |-> Initial]]), n)
  PROVE  Filled(m, TunerFields, Initial, n)
<1> DEFINE ws == [i \in DOMAIN Registers |-> [f \in InRegister(Registers[i]) |-> Initial]]
           s == Each(ws)
<1>1. DOMAIN Registers = 1..11
  BY RegistersCover, ScriptLen
<1>2. Script(ws) /\ Len(ws) = 11
  <2> DEFINE X == {ws[i] : i \in 1..11}
  <2>1. ws \in Seq(X) /\ Len(ws) = 11
    BY <1>1
  <2> QED
    BY <2>1 DEF Script
<1>3. \A i \in 1..11 : ws[i] = [f \in InRegister(Registers[i]) |-> Initial]
  BY <1>1
<1> HIDE DEF ws
<1>4. Len(s) = 11 /\ \A i \in 1..11 : s[i] = Radio(ws[i])
  BY <1>2, ScriptEach
<1>5. Leads(m, s, n)
  BY DEF ws
<1> HIDE DEF s
<1>6. \A i \in 1..Len(s) : s[i].to = "radio" /\ s[i].set = [f \in InRegister(Registers[i]) |-> Initial]
  BY <1>3, <1>4 DEF Radio
<1>7. \A f : f \in TunerFields <=> \E i \in 1..Len(s) : f \in InRegister(Registers[i])
  BY <1>4, RegistersCover
<1>8. Len(s) \in Nat
  BY <1>4
<1> QED
  BY <1>5, <1>6, <1>7, <1>8, WholeRow

\* A script made by Tuner::set_pll.
LEMMA ScriptSetPll ==
  ASSUME NEW plan, NEW retry \in BOOLEAN
  PROVE  Script(SetPll(plan, retry))
<1> DEFINE ws == <<[autotune |-> 0], [vco |-> 4], [divider |-> plan], [fraction |-> plan]>>
           us == <<[vco |-> 3]>>
           vs == <<[autotune |-> 1]>>
<1>1. Script(ws) /\ Script(us) /\ Script(vs)
  BY ScriptTuples
<1>2. SetPll(plan, retry) = Each(ws) \o If(retry, Each(us)) \o Each(vs)
  BY DEF SetPll
<1> HIDE DEF ws, us, vs
<1>3. Script(Each(ws)) /\ Script(If(retry, Each(us))) /\ Script(Each(vs))
  BY <1>1, ScriptEach, ScriptIf
<1>4. Script(Each(ws) \o If(retry, Each(us)))
  BY <1>3, ScriptConcat
<1> QED
  BY <1>2, <1>3, <1>4, ScriptConcat

\* Tuner::calibrate is Tuner::set_pll once or twice, without a second attempt.
LEMMA CalibrateForm ==
  ASSUME NEW codes
  PROVE  \E x : \E r \in BOOLEAN, b \in BOOLEAN :
           ~r /\ Calibrate(codes) = If(b, SetPll(x, r)) \o SetPll(x, r)
<1> DEFINE b == Len(codes) = 2
           x == CALIBRATION_HZ
           F == FALSE
<1>1. Calibrate(codes) = If(b, SetPll(x, F)) \o SetPll(x, F)
  BY Zenon DEF Calibrate
<1>2. b \in BOOLEAN /\ F \in BOOLEAN /\ ~F
  OBVIOUS
<1> HIDE DEF b, x, F
<1> QED
  BY <1>1, <1>2

\* It leaves the PLL where calibration wants it.
LEMMA CalibrateEffect ==
  ASSUME NEW m, NEW codes, NEW n, Tuned(m), Leads(m, Calibrate(codes), n)
  PROVE  /\ Tuned(n)
         /\ \E x : Wrote(m, [autotune |-> 1, vco |-> 4, divider |-> x, fraction |-> x], n)
<1>a. PICK x : \E r \in BOOLEAN, b \in BOOLEAN :
                 ~r /\ Calibrate(codes) = If(b, SetPll(x, r)) \o SetPll(x, r)
  BY CalibrateForm
<1>1. PICK r \in BOOLEAN, b \in BOOLEAN : ~r /\ Calibrate(codes) = If(b, SetPll(x, r)) \o SetPll(x, r)
  BY <1>a
<1>2. Script(SetPll(x, r)) /\ Script(If(b, SetPll(x, r)))
  BY ScriptSetPll, ScriptIf
<1>3. PICK p : Leads(m, If(b, SetPll(x, r)), p) /\ Leads(p, SetPll(x, r), n)
  BY <1>1, <1>2, LeadsSplit
<1> DEFINE w == [autotune |-> 1, vco |-> IF r THEN 3 ELSE 4, divider |-> x, fraction |-> x]
<1>4. CASE b
  <2>1. Leads(m, SetPll(x, r), p)
    BY <1>3, <1>4 DEF If
  <2>2. Tuned(p) /\ Wrote(m, w, p)
    BY <2>1, SetPllEffect
  <2>3. Tuned(n) /\ Wrote(p, w, n)
    BY <1>3, <2>2, SetPllEffect
  <2>4. Wrote(m, w, n)
    BY <2>2, <2>3 DEF Wrote
  <2> QED
    BY <1>1, <2>3, <2>4
<1>5. CASE ~b
  <2>1. p = m
    BY <1>3, <1>5, LeadsNowhere DEF If
  <2>2. Tuned(n) /\ Wrote(m, w, n)
    BY <1>3, <2>1, SetPllEffect
  <2> QED
    BY <1>1, <2>2
<1> QED
  BY <1>4, <1>5

\* Three and four parts of a script.
LEMMA LeadsThree ==
  ASSUME NEW m, NEW a, NEW b, NEW c, NEW n, Script(a), Script(b), Script(c),
         Leads(m, a \o b \o c, n)
  PROVE  \E p, q : Leads(m, a, p) /\ Leads(p, b, q) /\ Leads(q, c, n)
<1> DEFINE ab == a \o b
<1>1. Script(ab) /\ Leads(m, ab \o c, n)
  BY ScriptConcat
<1> HIDE DEF ab
<1>2. PICK q : Leads(m, ab, q) /\ Leads(q, c, n)
  BY <1>1, LeadsSplit
<1>3. Leads(m, a \o b, q)
  BY <1>2 DEF ab
<1>4. PICK p : Leads(m, a, p) /\ Leads(p, b, q)
  BY <1>3, LeadsSplit
<1> QED
  BY <1>2, <1>4

\* Four parts.
LEMMA LeadsFour ==
  ASSUME NEW m, NEW a, NEW b, NEW c, NEW d, NEW n, Script(a), Script(b), Script(c), Script(d),
         Leads(m, a \o b \o c \o d, n)
  PROVE  \E p, q, r : Leads(m, a, p) /\ Leads(p, b, q) /\ Leads(q, c, r) /\ Leads(r, d, n)
<1> DEFINE abc == a \o b \o c
<1>1. Script(abc) /\ Leads(m, abc \o d, n)
  <2>1. Script(a \o b)
    BY ScriptConcat
  <2> QED
    BY <2>1, ScriptConcat
<1> HIDE DEF abc
<1>2. PICK r : Leads(m, abc, r) /\ Leads(r, d, n)
  BY <1>1, LeadsSplit
<1>3. Leads(m, a \o b \o c, r)
  BY <1>2 DEF abc
<1>4. PICK p, q : Leads(m, a, p) /\ Leads(p, b, q) /\ Leads(q, c, r)
  BY <1>3, LeadsThree
<1> QED
  BY <1>2, <1>4

\* The scripts of calibration and of the initial writes.
LEMMA ScriptParts ==
  /\ \A codes : Script(Calibrate(codes))
  /\ Script(Each([i \in DOMAIN Registers |-> [f \in InRegister(Registers[i]) |-> Initial]]))
  /\ Script(Standby)
<1>1. ASSUME NEW codes
      PROVE  Script(Calibrate(codes))
  <2>a. PICK x : \E r \in BOOLEAN, b \in BOOLEAN : Calibrate(codes) = If(b, SetPll(x, r)) \o SetPll(x, r)
    BY CalibrateForm
  <2>1. PICK r \in BOOLEAN, b \in BOOLEAN : Calibrate(codes) = If(b, SetPll(x, r)) \o SetPll(x, r)
    BY <2>a
  <2>2. Script(SetPll(x, r)) /\ Script(If(b, SetPll(x, r)))
    BY ScriptSetPll, ScriptIf
  <2> QED
    BY <2>1, <2>2, ScriptConcat
<1>2. Script(Each([i \in DOMAIN Registers |-> [f \in InRegister(Registers[i]) |-> Initial]]))
  <2> DEFINE ws == [i \in DOMAIN Registers |-> [f \in InRegister(Registers[i]) |-> Initial]]
             X == {ws[i] : i \in 1..11}
  <2>1. DOMAIN Registers = 1..11
    BY RegistersCover, ScriptLen
  <2>2. ws \in Seq(X)
    BY <2>1
  <2>3. Script(ws)
    BY <2>2 DEF Script
  <2> HIDE DEF ws
  <2>4. Script(Each(ws))
    BY <2>3, ScriptEach
  <2> QED
    BY <2>4 DEF ws
<1>3. Script(Standby)
  <2> DEFINE ws == [i \in DOMAIN Standbys |-> [f \in InRegister(Standbys[i]) |-> Asleep]]
             X == {ws[i] : i \in 1..6}
  <2>1. DOMAIN Standbys = 1..6
    BY RegistersCover, ScriptLen
  <2>2. ws \in Seq(X)
    BY <2>1
  <2>3. Script(ws)
    BY <2>2 DEF Script
  <2> HIDE DEF ws
  <2>4. Script(Tolerant(Each(ws)))
    BY <2>3, ScriptEach, ScriptTolerant
  <2> QED
    BY <2>4 DEF ws, Standby
<1> QED
  BY <1>1, <1>2, <1>3

\* The script of Tuner::open.
LEMMA ScriptOpen ==
  ASSUME NEW codes
  PROVE  Script(Open(codes))
<1> DEFINE a == <<Know(Forget)>>
           b == Each([i \in DOMAIN Registers |-> [f \in InRegister(Registers[i]) |-> Initial]])
           c == Calibrate(codes)
           ds == <<[cap |-> CalibrationCode(codes[Len(codes)])],
                   [power |-> 1], [antenna |-> 0], [hf |-> 0]>>
           d == Each(ds)
<1>1. Script(a) /\ Script(b) /\ Script(c) /\ Script(ds)
  BY ScriptTuples, ScriptParts
<1>2. Open(codes) = a \o b \o c \o d
  BY DEF Open
<1> HIDE DEF a, b, c, ds
<1>3. Script(d)
  BY <1>1, ScriptEach
<1> HIDE DEF d
<1>4. Script(a \o b)
  BY <1>1, ScriptConcat
<1>5. Script(a \o b \o c)
  BY <1>1, <1>4, ScriptConcat
<1> QED
  BY <1>2, <1>3, <1>5, ScriptConcat

\* Nothing that the tuner's standby rewrites sleeps.
Awake(m) == \A f \in RestFields : m.chip[f] # Asleep

\* What the tuner has no part in.
Outside == ChipFields \ TunerFields

\* The codes of a calibration.
Codes == UNION {[1..n -> 0..15] : n \in 1..2}

\* After Tuner::open the copy is right, whatever it was before, the tuner is
\* awake and the remembered antenna input unknown.
LEMMA OpenEffect ==
  ASSUME NEW m, NEW codes \in Codes, NEW n, Shaped(m), m.chip.gate = "open", Leads(m, Open(codes), n)
  PROVE  /\ Tuned(n) /\ Awake(n)
         /\ n.driver.input = NoInput
         /\ n.driver.known = m.driver.known /\ n.driver.direct = m.driver.direct
         /\ \A f \in Outside : n.chip[f] = m.chip[f]
<1> DEFINE k == Know(Forget)
           a == <<k>>
           b == Each([i \in DOMAIN Registers |-> [f \in InRegister(Registers[i]) |-> Initial]])
           c == Calibrate(codes)
           cap == CalibrationCode(codes[Len(codes)])
           d1 == [cap |-> cap]
           d2 == [power |-> 1]
           d3 == [antenna |-> 0]
           d4 == [hf |-> 0]
           ds == <<d1, d2, d3, d4>>
<1>1. Open(codes) = a \o b \o c \o Each(ds)
  BY DEF Open
<1>2. cap \in 0..14
  <2>1. PICK l \in 1..2 : codes \in [1..l -> 0..15]
    BY DEF Codes
  <2>2. Len(codes) \in 1..l
    BY <2>1
  <2>3. codes[Len(codes)] \in 0..15
    BY <2>1, <2>2
  <2> QED
    BY <2>3 DEF CalibrationCode
<1> HIDE DEF cap
<1>3. k.to = "driver" /\ DOMAIN k.set = {"input"} /\ k.set["input"] = NoInput
  BY DEF Know, Forget
<1>4. /\ "gate" \notin DOMAIN d1 /\ "gate" \notin DOMAIN d2
      /\ "gate" \notin DOMAIN d3 /\ "gate" \notin DOMAIN d4
  OBVIOUS
<1>5. Script(a) /\ Script(b) /\ Script(c) /\ Script(ds)
  BY ScriptTuples, ScriptParts
<1> HIDE DEF k, b, c, d1, d2, d3, d4
<1>6. Script(Each(ds))
  <2> HIDE DEF ds
  <2> QED
    BY <1>5, ScriptEach
<1> DEFINE d == Each(ds)
<1>7. Leads(m, a \o b \o c \o d, n)
  BY <1>1
<1>8. PICK p, q, r : Leads(m, a, p) /\ Leads(p, b, q) /\ Leads(q, c, r) /\ Leads(r, d, n)
  <2> HIDE DEF a, d
  <2>1. Script(d)
    BY <1>6 DEF d
  <2> QED
    BY <1>5, <1>7, <2>1, LeadsFour
<1>9. p = Go(m, k)
  BY <1>8, LeadsOne
<1>10. /\ p.chip = m.chip /\ DOMAIN p.driver = DriverFields
       /\ p.driver.input = NoInput
       /\ p.driver.known = m.driver.known /\ p.driver.direct = m.driver.direct
  <2>1. "input" \in DriverFields /\ "known" \in DriverFields /\ "direct" \in DriverFields
    BY FieldNames DEF Flags
  <2> QED
    BY <1>3, <1>9, <2>1, GoKnows
<1>11. Shaped(p) /\ p.chip.gate = "open"
  BY <1>10 DEF Shaped
<1>12. Filled(p, TunerFields, Initial, q)
  BY <1>8, <1>11, InitialRow DEF b
<1>13. /\ Tuned(q)
       /\ \A f \in TunerFields : q.chip[f] = Initial
       /\ \A f \in Outside : q.chip[f] = p.chip[f]
       /\ \A f \in Flags : q.driver[f] = p.driver[f]
  BY <1>11, <1>12, FieldNames DEF Filled, Tuned, Mirrored, Outside, Shaped
<1>14. PICK hz : /\ Tuned(r)
                 /\ Wrote(q, [autotune |-> 1, vco |-> 4, divider |-> hz, fraction |-> hz], r)
  BY <1>8, <1>13, CalibrateEffect DEF c
<1>15. PICK x, y, z : Wrote(r, d1, x) /\ Wrote(x, d2, y) /\ Wrote(y, d3, z) /\ Wrote(z, d4, n) /\ Tuned(n)
  BY <1>4, <1>8, <1>14, TunedRow4
<1>16. Wrote(q, [autotune |-> 1, vco |-> 4, divider |-> hz, fraction |-> hz,
                 cap |-> cap, power |-> 1, antenna |-> 0, hf |-> 0], n)
  <2>1. Wrote(r, [cap |-> cap, power |-> 1, antenna |-> 0, hf |-> 0], n)
    BY <1>15 DEF Wrote, d1, d2, d3, d4
  <2> QED
    BY <1>14, <2>1 DEF Wrote
<1>17. Awake(n)
  <2>1. \A f \in RestFields : f \in TunerFields /\ f \in ChipFields
    BY FieldNames DEF RestFields
  <2>2. Initial # Asleep /\ cap # Asleep /\ 1 # Asleep /\ 0 # Asleep
    BY <1>2 DEF Initial, Asleep
  <2>3. ASSUME NEW f \in RestFields
        PROVE  n.chip[f] \in {Initial, cap, 1, 0}
    BY <1>13, <1>16, <2>1 DEF Wrote, RestFields
  <2> QED
    BY <2>2, <2>3 DEF Awake
<1>18. \A f \in Outside : n.chip[f] = m.chip[f]
  <2>1. \A f \in Outside : f \in ChipFields /\ f \notin TunerFields
    BY DEF Outside
  <2> QED
    BY <1>10, <1>13, <1>16, <2>1, FieldNames DEF Wrote
<1>19. \A f \in Flags : n.driver[f] = p.driver[f]
  BY <1>13, <1>16 DEF Wrote
<1> QED
  BY <1>10, <1>15, <1>17, <1>18, <1>19 DEF Flags

-----------------------------------------------------------------------------
(* Gain, path and tuning *)

\* Tuner::set_gain sets LNA and mixer, and a fixed VGA gain.
LEMMA SetGainEffect ==
  ASSUME NEW m, NEW gain, NEW n, Tuned(m), Leads(m, SetGain(gain), n)
  PROVE  /\ Tuned(n)
         /\ IF gain = AutoGain THEN Wrote(m, [lnaMode |-> 0, vga |-> 11], n)
                           ELSE Wrote(m, [lnaMode |-> 1, vga |-> 8, lnaStep |-> gain], n)
<1> DEFINE a == [lnaMode |-> 0]
           b == [vga |-> 11]
           c == [lnaMode |-> 1]
           d == [vga |-> 8]
           e == [lnaStep |-> gain]
<1>1. /\ "gate" \notin DOMAIN a /\ "gate" \notin DOMAIN b /\ "gate" \notin DOMAIN c
      /\ "gate" \notin DOMAIN d /\ "gate" \notin DOMAIN e
  OBVIOUS
<1> DEFINE us == <<a, b>>
           vs == <<c, d, e>>
           ws == IF gain = AutoGain THEN us ELSE vs
<1>2. SetGain(gain) = Each(ws)
  BY Zenon DEF SetGain
<1>3. CASE gain = AutoGain
  <2>1. Leads(m, Each(us), n)
    <3>1. ws = us
      <4> HIDE DEF us, vs
      <4> QED
        BY <1>3
    <3> HIDE DEF ws, us
    <3> QED
      BY <1>2, <3>1
  <2> HIDE DEF a, b
  <2>2. PICK p : Wrote(m, a, p) /\ Wrote(p, b, n) /\ Tuned(n)
    BY <1>1, <2>1, TunedRow2
  <2>3. Wrote(m, [lnaMode |-> 0, vga |-> 11], n)
    BY <2>2 DEF Wrote, a, b
  <2> QED
    BY <1>3, <2>2, <2>3
<1>4. CASE gain # AutoGain
  <2>1. Leads(m, Each(vs), n)
    <3>1. ws = vs
      <4> HIDE DEF us, vs
      <4> QED
        BY <1>4
    <3> HIDE DEF ws, vs
    <3> QED
      BY <1>2, <3>1
  <2> HIDE DEF c, d, e
  <2>2. PICK p, q : Wrote(m, c, p) /\ Wrote(p, d, q) /\ Wrote(q, e, n) /\ Tuned(n)
    BY <1>1, <2>1, TunedRow3
  <2>3. Wrote(m, [lnaMode |-> 1, vga |-> 8, lnaStep |-> gain], n)
    BY <2>2 DEF Wrote, c, d, e
  <2> QED
    BY <1>4, <2>2, <2>3
<1> QED
  BY <1>3, <1>4

\* Its script.
LEMMA ScriptSetGain ==
  ASSUME NEW gain
  PROVE  Script(SetGain(gain))
<1> DEFINE us == <<[lnaMode |-> 0], [vga |-> 11]>>
           vs == <<[lnaMode |-> 1], [vga |-> 8], [lnaStep |-> gain]>>
           ws == IF gain = AutoGain THEN us ELSE vs
<1>1. Script(us) /\ Script(vs)
  BY ScriptTuples
<1>2. SetGain(gain) = Each(ws)
  BY Zenon DEF SetGain
<1>3. Script(ws)
  <2> HIDE DEF us, vs
  <2> QED
    BY <1>1
<1> HIDE DEF ws
<1> QED
  BY <1>2, <1>3, ScriptEach

\* The demodulator's and the tuner's part of the receive path.
PathSet(c, chp) ==
  IF Direct(c)
  THEN /\ chp.adc = "both" /\ chp.spectrum = 0 /\ chp.branch = c.sampling
       /\ chp.agc = IF c.gain = AutoGain THEN 37 ELSE 5
  ELSE /\ chp.adc = "tuner" /\ chp.spectrum = 1 /\ chp.branch = "I" /\ chp.agc = 5
       /\ chp.lnaMode = IF c.gain = AutoGain THEN 0 ELSE 1
       /\ c.gain # AutoGain => chp.lnaStep = c.gain

\* The fields the receive path may write.
PathFields == {"adc", "spectrum", "branch", "agc", "lnaMode", "vga", "lnaStep"}

\* n differs from m in fields of W at most.
Kin(m, W, n) ==
  /\ \A f \in ChipFields \ W : n.chip[f] = m.chip[f]
  /\ \A f \in Flags : n.driver[f] = m.driver[f]

\* The receive path is set as the settings want it; sampling directly it
\* leaves the tuner alone.
LEMMA PathEffect ==
  ASSUME NEW m, NEW c, NEW n, Tuned(m), c.gain \in Nat, Leads(m, Path(c), n)
  PROVE  /\ Tuned(n)
         /\ Kin(m, PathFields, n)
         /\ PathSet(c, n.chip)
         /\ Direct(c) => \A f \in TunerFields : n.chip[f] = m.chip[f]
         /\ Awake(m) => Awake(n)
<1>1. CASE Direct(c)
  <2> DEFINE v == IF c.gain = AutoGain THEN 37 ELSE 5
             a == [adc |-> "both"]
             b == [spectrum |-> 0]
             d == [branch |-> c.sampling]
             e == [agc |-> v]
  <2>1. /\ "gate" \notin DOMAIN a /\ "gate" \notin DOMAIN b /\ "gate" \notin DOMAIN d
        /\ "gate" \notin DOMAIN e
    OBVIOUS
  <2> DEFINE xs == <<a, b, d, e>>
             ys == Each(<<[adc |-> "tuner"], [spectrum |-> 1], [branch |-> "I"], [agc |-> 5]>>)
                     \o SetGain(c.gain)
  <2>2. Leads(m, Each(xs), n)
    <3>1. Path(c) = IF Direct(c) THEN Each(xs) ELSE ys
      BY Zenon DEF Path
    <3> HIDE DEF xs, ys
    <3>2. Path(c) = Each(xs)
      BY <1>1, <3>1
    <3> QED
      BY <3>2
  <2> HIDE DEF a, b, d, e
  <2>3. PICK p, q, r : /\ Wrote(m, a, p) /\ Wrote(p, b, q) /\ Wrote(q, d, r)
                       /\ Wrote(r, e, n) /\ Tuned(n)
    BY <2>1, <2>2, TunedRow4
  <2> HIDE DEF v
  <2>4. Wrote(m, [adc |-> "both", spectrum |-> 0, branch |-> c.sampling, agc |-> v], n)
    BY <2>3 DEF Wrote, a, b, d, e
  <2>5. \A f \in TunerFields : n.chip[f] = m.chip[f]
    BY <2>4, FieldNames DEF Wrote
  <2>6. Kin(m, PathFields, n)
    BY <2>4 DEF Wrote, Kin, PathFields
  <2>7. n.chip.adc = "both" /\ n.chip.spectrum = 0 /\ n.chip.branch = c.sampling /\ n.chip.agc = v
    BY <2>4, FieldNames DEF Wrote
  <2>8. PathSet(c, n.chip)
    BY <1>1, <2>7 DEF PathSet, v
  <2>9. Awake(m) => Awake(n)
    BY <2>5, FieldNames DEF Awake, RestFields
  <2> QED
    BY <2>3, <2>5, <2>6, <2>8, <2>9
<1>2. CASE ~Direct(c)
  <2> DEFINE a == [adc |-> "tuner"]
             b == [spectrum |-> 1]
             d == [branch |-> "I"]
             e == [agc |-> 5]
             ws == <<a, b, d, e>>
             s == SetGain(c.gain)
  <2>1. /\ "gate" \notin DOMAIN a /\ "gate" \notin DOMAIN b /\ "gate" \notin DOMAIN d
        /\ "gate" \notin DOMAIN e
    OBVIOUS
  <2>2. Leads(m, Each(ws) \o s, n)
    BY <1>2 DEF Path
  <2> HIDE DEF a, b, d, e
  <2>3. Script(ws) /\ Script(s)
    BY ScriptTuples, ScriptSetGain
  <2>4. PICK o : Leads(m, Each(ws), o) /\ Leads(o, s, n)
    <3> HIDE DEF ws, s
    <3>1. Script(Each(ws))
      BY <2>3, ScriptEach
    <3> QED
      BY <2>2, <2>3, <3>1, LeadsSplit
  <2>5. PICK p, q, r : /\ Wrote(m, a, p) /\ Wrote(p, b, q) /\ Wrote(q, d, r)
                       /\ Wrote(r, e, o) /\ Tuned(o)
    BY <2>1, <2>4, TunedRow4
  <2>6. Wrote(m, [adc |-> "tuner", spectrum |-> 1, branch |-> "I", agc |-> 5], o)
    BY <2>5 DEF Wrote, a, b, d, e
  <2>7. /\ Tuned(n)
        /\ IF c.gain = AutoGain THEN Wrote(o, [lnaMode |-> 0, vga |-> 11], n)
                            ELSE Wrote(o, [lnaMode |-> 1, vga |-> 8, lnaStep |-> c.gain], n)
    BY <2>4, <2>5, SetGainEffect
  <2>8. Kin(m, PathFields, n)
    BY <2>6, <2>7 DEF Wrote, Kin, PathFields
  <2>9. o.chip.adc = "tuner" /\ o.chip.spectrum = 1 /\ o.chip.branch = "I" /\ o.chip.agc = 5
    BY <2>6, FieldNames DEF Wrote
  <2>10. PathSet(c, n.chip)
    BY <1>2, <2>7, <2>9, FieldNames DEF Wrote, PathSet
  <2>11. Awake(m) => Awake(n)
    <3>1. \A f \in RestFields : f \in ChipFields
      BY FieldNames DEF RestFields
    <3>2. c.gain # Asleep /\ 0 # Asleep /\ 1 # Asleep /\ 8 # Asleep /\ 11 # Asleep
      BY DEF Asleep
    <3>3. \A f \in RestFields : o.chip[f] = m.chip[f]
      BY <2>6, <3>1 DEF Wrote, RestFields
    <3>4. \A f \in RestFields : n.chip[f] \in {o.chip[f], c.gain, 0, 1, 8, 11}
      BY <2>7, <3>1 DEF Wrote
    <3> QED
      BY <3>2, <3>3, <3>4 DEF Awake
  <2> QED
    BY <1>2, <2>7, <2>8, <2>10, <2>11
<1> QED
  BY <1>1, <1>2

\* A row of STANDARD_MUX fits every frequency, and its open drain is 0 or 8.
LEMMA MuxFits ==
  ASSUME NEW c, Lo(c) \in Nat
  PROVE  Mux(c)[2] \in {0, 8}
<1> DEFINE lo == Lo(c)
           T(i) == STANDARD_MUX[i][1]
           P(i) == T(i) <= lo /\ (i = Len(STANDARD_MUX) \/ T(i + 1) > lo)
           k == CHOOSE i \in DOMAIN STANDARD_MUX : P(i)
<1>1. Len(STANDARD_MUX) = 15 /\ DOMAIN STANDARD_MUX = 1..15
  BY SMT DEF STANDARD_MUX
<1>2. T(1) = 0 /\ \A i \in 1..15 : T(i) \in Nat /\ STANDARD_MUX[i][2] \in {0, 8}
  BY SMTT(30), <1>1 DEF STANDARD_MUX
<1>3. Mux(c) = STANDARD_MUX[k]
  BY Zenon DEF Mux
<1> HIDE DEF T, lo
<1>4. \E i \in 1..15 : P(i)
  <2> DEFINE S == {i \in 1..15 : T(i) <= lo}
  <2>1. S \in SUBSET (0..15) /\ S # {}
    <3>1. lo \in Nat
      BY DEF lo
    <3>2. 1 \in S
      BY <1>2, <3>1
    <3> QED
      BY <3>2
  <2>2. PICK i \in S : \A j \in S : j <= i
    BY <2>1, GreatestOf
  <2>3. i # 15 => i + 1 \in 1..15 /\ i + 1 \notin S
    BY <2>2
  <2>4. i # 15 => ~(T(i + 1) <= lo)
    BY <2>3
  <2>5. lo \in Nat /\ (i # 15 => T(i + 1) \in Nat)
    BY <1>2, <2>3 DEF lo
  <2> QED
    BY <1>1, <2>2, <2>4, <2>5
<1>5. k \in 1..15
  <2> HIDE DEF P
  <2>1. \E i \in DOMAIN STANDARD_MUX : P(i)
    BY <1>1, <1>4
  <2>2. k \in DOMAIN STANDARD_MUX
    BY <2>1, Zenon
  <2> QED
    BY <1>1, <2>2
<1> HIDE DEF k
<1> QED
  BY <1>2, <1>3, <1>5

\* The antenna switch of m is at input i.
Placed(i, m) ==
  \A k \in DOMAIN Switch(i) : \A f \in DOMAIN Switch(i)[k] : m.chip[f] = Switch(i)[k][f]

\* The switch for input i: bits of register 6 on a V4.
SwitchHf(i) == IF i = 2 THEN 8 ELSE 0
\* Bits of register 5 on a V4.
SwitchV4(i) == IF i = 0 THEN 0 ELSE IF i = 1 THEN 96 ELSE 32
\* Bits of register 5 on other boards.
SwitchOther(i) == IF i = 0 THEN 0 ELSE 96

\* Placed in terms of these bits.
LEMMA PlacedMeans ==
  ASSUME NEW i, NEW m
  PROVE  Placed(i, m) <=>
           IF board.v4 THEN /\ m.chip.hf = SwitchHf(i) /\ m.chip.antenna = SwitchV4(i)
                            /\ m.chip.notHf = (i # 2)
                       ELSE m.chip.antenna = SwitchOther(i)
<1> DEFINE a == [hf |-> SwitchHf(i)]
           b == [antenna |-> SwitchV4(i)]
           c == [notHf |-> i # 2]
           d == [antenna |-> SwitchOther(i)]
           us == <<a, b, c>>
           vs == <<d>>
<1>1. Switch(i) = IF board.v4 THEN us ELSE vs
  BY Zenon DEF Switch, SwitchHf, SwitchV4, SwitchOther
<1>2. /\ DOMAIN a = {"hf"} /\ a["hf"] = SwitchHf(i)
      /\ DOMAIN b = {"antenna"} /\ b["antenna"] = SwitchV4(i)
      /\ DOMAIN c = {"notHf"} /\ c["notHf"] = (i # 2)
      /\ DOMAIN d = {"antenna"} /\ d["antenna"] = SwitchOther(i)
  OBVIOUS
<1> HIDE DEF a, b, c, d
<1>3. CASE board.v4
  <2>1. Switch(i) = us
    <3> HIDE DEF us, vs
    <3> QED
      BY <1>1, <1>3
  <2>2. DOMAIN us = 1..3 /\ us[1] = a /\ us[2] = b /\ us[3] = c
    OBVIOUS
  <2> HIDE DEF us
  <2>3. Placed(i, m) <=> /\ \A f \in DOMAIN a : m.chip[f] = a[f]
                         /\ \A f \in DOMAIN b : m.chip[f] = b[f]
                         /\ \A f \in DOMAIN c : m.chip[f] = c[f]
    BY <2>1, <2>2 DEF Placed
  <2> QED
    BY <1>2, <1>3, <2>3
<1>4. CASE ~board.v4
  <2>1. Switch(i) = vs
    <3> HIDE DEF us, vs
    <3> QED
      BY <1>1, <1>4
  <2>2. DOMAIN vs = 1..1 /\ vs[1] = d
    OBVIOUS
  <2> HIDE DEF vs
  <2>3. Placed(i, m) <=> \A f \in DOMAIN d : m.chip[f] = d[f]
    BY <2>1, <2>2 DEF Placed
  <2> QED
    BY <1>2, <1>4, <2>3
<1> QED
  BY <1>3, <1>4

\* The fields of the switch.
SwitchFields == {"hf", "antenna", "notHf"}

\* The writes of the switch bring it to its input, and only them.
LEMMA SwitchEffect ==
  ASSUME NEW m, NEW i, NEW n, Tuned(m), Leads(m, Each(Switch(i)), n)
  PROVE  /\ Tuned(n)
         /\ Placed(i, n)
         /\ Kin(m, SwitchFields, n)
         /\ Awake(m) => Awake(n)
<1> DEFINE a == [hf |-> SwitchHf(i)]
           b == [antenna |-> SwitchV4(i)]
           c == [notHf |-> i # 2]
           d == [antenna |-> SwitchOther(i)]
           us == <<a, b, c>>
           vs == <<d>>
<1>1. Switch(i) = IF board.v4 THEN us ELSE vs
  BY Zenon DEF Switch, SwitchHf, SwitchV4, SwitchOther
<1>2. /\ DOMAIN a = {"hf"} /\ a["hf"] = SwitchHf(i)
      /\ DOMAIN b = {"antenna"} /\ b["antenna"] = SwitchV4(i)
      /\ DOMAIN c = {"notHf"} /\ c["notHf"] = (i # 2)
      /\ DOMAIN d = {"antenna"} /\ d["antenna"] = SwitchOther(i)
  OBVIOUS
<1> HIDE DEF a, b, c, d
<1>3. /\ "gate" \notin DOMAIN a /\ "gate" \notin DOMAIN b
      /\ "gate" \notin DOMAIN c /\ "gate" \notin DOMAIN d
  BY <1>2
<1>4. /\ SwitchHf(i) # Asleep /\ SwitchV4(i) # Asleep /\ SwitchOther(i) # Asleep
  BY DEF SwitchHf, SwitchV4, SwitchOther, Asleep
<1>5. \A f \in RestFields : f \in ChipFields /\ f # "notHf"
  BY FieldNames DEF RestFields
<1>6. CASE board.v4
  <2>1. Switch(i) = us
    <3> HIDE DEF us, vs
    <3> QED
      BY <1>1, <1>6
  <2>2. Leads(m, Each(<<a, b, c>>), n)
    BY <2>1
  <2>3. PICK p, q : Wrote(m, a, p) /\ Wrote(p, b, q) /\ Wrote(q, c, n) /\ Tuned(n)
    BY <1>3, <2>2, TunedRow3
  <2>4. Wrote(m, [hf |-> SwitchHf(i), antenna |-> SwitchV4(i), notHf |-> i # 2], n)
    BY <1>2, <2>3 DEF Wrote
  <2>5. Placed(i, n)
    BY <1>6, <2>4, PlacedMeans, FieldNames DEF Wrote
  <2>6. Kin(m, SwitchFields, n)
    BY <2>4 DEF Wrote, Kin, SwitchFields
  <2>7. \A f \in RestFields : n.chip[f] \in {m.chip[f], SwitchHf(i), SwitchV4(i)}
    BY <1>5, <2>4 DEF Wrote
  <2> QED
    BY <1>4, <2>3, <2>5, <2>6, <2>7 DEF Awake
<1>7. CASE ~board.v4
  <2>1. Switch(i) = vs
    <3> HIDE DEF us, vs
    <3> QED
      BY <1>1, <1>7
  <2>2. Leads(m, Each(<<d>>), n)
    BY <2>1
  <2>3. Wrote(m, d, n) /\ Tuned(n)
    BY <1>3, <2>2, TunedRow1
  <2>4. Wrote(m, [antenna |-> SwitchOther(i)], n)
    BY <1>2, <2>3 DEF Wrote
  <2>5. Placed(i, n)
    BY <1>7, <2>4, PlacedMeans, FieldNames DEF Wrote
  <2>6. Kin(m, SwitchFields, n)
    BY <2>4 DEF Wrote, Kin, SwitchFields
  <2>7. \A f \in RestFields : n.chip[f] \in {m.chip[f], SwitchOther(i)}
    BY <1>5, <2>4 DEF Wrote
  <2> QED
    BY <1>4, <2>3, <2>5, <2>6, <2>7 DEF Awake
<1> QED
  BY <1>6, <1>7

\* Its script.
LEMMA ScriptSwitch ==
  ASSUME NEW i
  PROVE  Script(Each(Switch(i)))
<1> DEFINE us == <<[hf |-> SwitchHf(i)], [antenna |-> SwitchV4(i)], [notHf |-> i # 2]>>
           vs == <<[antenna |-> SwitchOther(i)]>>
<1>1. Switch(i) = IF board.v4 THEN us ELSE vs
  BY Zenon DEF Switch, SwitchHf, SwitchV4, SwitchOther
<1>2. Script(us) /\ Script(vs)
  BY ScriptTuples
<1> HIDE DEF us, vs
<1>3. Script(Switch(i))
  BY <1>1, <1>2
<1> QED
  BY <1>3, ScriptEach

\* What the driver only remembers changes nothing else.
LEMMA KnowEffect ==
  ASSUME NEW m, NEW w, Mirrored(m), DOMAIN w \subseteq Flags
  PROVE  /\ Mirrored(Go(m, Know(w)))
         /\ Go(m, Know(w)).chip = m.chip
         /\ \A f \in Flags : Go(m, Know(w)).driver[f] = IF f \in DOMAIN w THEN w[f] ELSE m.driver[f]
<1> DEFINE st == Know(w)
           n == Go(m, st)
<1>1. st.to = "driver" /\ st.set = w
  BY DEF Know
<1>2. Shaped(m)
  BY DEF Mirrored
<1> HIDE DEF st
<1>3. /\ Go(m, st).chip = m.chip
      /\ DOMAIN Go(m, st).driver = DriverFields
      /\ \A f \in DriverFields :
           Go(m, st).driver[f] = IF f \in DOMAIN st.set THEN st.set[f] ELSE m.driver[f]
  BY <1>1, <1>2, GoKnows
<1> HIDE DEF n
<1>4. /\ n.chip = m.chip /\ DOMAIN n.driver = DriverFields
      /\ \A f \in DriverFields : n.driver[f] = IF f \in DOMAIN w THEN w[f] ELSE m.driver[f]
  BY <1>1, <1>3 DEF n
<1>5. \A f \in Flags : f \in DriverFields /\ f \notin TunerFields
  BY FieldNames
<1>6. \A f \in TunerFields : n.driver[f] = m.driver[f]
  BY <1>4, <1>5, FieldNames
<1>7. Mirrored(n)
  BY <1>4, <1>6 DEF Mirrored, Shaped
<1> QED
  BY <1>4, <1>5, <1>7 DEF n, st

\* The registers of a frequency.
TuneSet(c, chp) ==
  /\ chp.divider = Plan(Lo(c), c.ppm) /\ chp.fraction = chp.divider
  /\ chp.autotune = 1
  /\ <<chp.filter, chp.corner>> = IF Hf(c) THEN <<64, 0>> ELSE <<Mux(c)[3], Mux(c)[4]>>
  /\ chp.drain = Drain(c)

\* The fields Tuner::tune may write.
TuneFields == {"drain", "filter", "corner", "autotune", "vco", "divider", "fraction"} \cup SwitchFields

\* The open drain is never left as if asleep.
LEMMA DrainAwake ==
  ASSUME NEW c, c.hz \in Nat
  PROVE  Drain(c) # Asleep
<1>1. Lo(c) \in Nat
  BY SMT DEF Lo, Upconvert, XTAL_HZ, IF_HZ
<1>2. Mux(c)[2] \in {0, 8}
  BY <1>1, MuxFits
<1> QED
  BY SMT, <1>2 DEF Drain, Asleep

\* Tuner::tune up to the PLL: mux and divider.
LEMMA TuneFirst ==
  ASSUME NEW m, NEW c, c.hz \in Nat, NEW retry \in BOOLEAN, NEW n, NEW p, Tuned(m),
         Leads(m, Each(<<[drain |-> Drain(c)], [filter |-> Mux(c)[3]], [corner |-> Mux(c)[4]]>>), p),
         Leads(p, SetPll(Plan(Lo(c), c.ppm), retry), n)
  PROVE  /\ Tuned(n)
         /\ Kin(m, TuneFields \ SwitchFields, n)
         /\ n.chip.divider = Plan(Lo(c), c.ppm) /\ n.chip.fraction = n.chip.divider
         /\ n.chip.autotune = 1
         /\ n.chip.filter = Mux(c)[3] /\ n.chip.corner = Mux(c)[4]
         /\ n.chip.drain = Drain(c)
         /\ Awake(m) => Awake(n)
<1> DEFINE x == Drain(c)
           y == Mux(c)[3]
           z == Mux(c)[4]
           plan == Plan(Lo(c), c.ppm)
           v == IF retry THEN 3 ELSE 4
           a == [drain |-> x]
           b == [filter |-> y]
           d == [corner |-> z]
<1>1. x # Asleep
  BY DrainAwake
<1> HIDE DEF x, y, z, plan
<1>2. "gate" \notin DOMAIN a /\ "gate" \notin DOMAIN b /\ "gate" \notin DOMAIN d
  OBVIOUS
<1>3. Leads(m, Each(<<a, b, d>>), p)
  BY DEF x, y, z
<1> HIDE DEF a, b, d
<1>4. PICK i, j : Wrote(m, a, i) /\ Wrote(i, b, j) /\ Wrote(j, d, p) /\ Tuned(p)
  BY <1>2, <1>3, TunedRow3
<1>5. Wrote(m, [drain |-> x, filter |-> y, corner |-> z], p)
  BY <1>4 DEF Wrote, a, b, d
<1>6. Leads(p, SetPll(plan, retry), n)
  BY DEF plan
<1>7. Tuned(n) /\ Wrote(p, [autotune |-> 1, vco |-> v, divider |-> plan, fraction |-> plan], n)
  BY <1>4, <1>6, SetPllEffect
<1> HIDE DEF v
<1>8. Wrote(m, [drain |-> x, filter |-> y, corner |-> z, autotune |-> 1, vco |-> v,
                divider |-> plan, fraction |-> plan], n)
  BY <1>5, <1>7 DEF Wrote
<1>9. Kin(m, TuneFields \ SwitchFields, n)
  BY <1>8 DEF Wrote, Kin, TuneFields, SwitchFields
<1>10. /\ n.chip.divider = plan /\ n.chip.fraction = plan /\ n.chip.autotune = 1
       /\ n.chip.filter = y /\ n.chip.corner = z /\ n.chip.drain = x
  BY <1>8, FieldNames DEF Wrote
<1>11. Awake(m) => Awake(n)
  <2>1. \A f \in RestFields : n.chip[f] \in {m.chip[f], x}
    BY <1>8, FieldNames DEF Wrote, RestFields
  <2> QED
    BY <1>1, <2>1 DEF Awake
<1> QED
  BY <1>7, <1>9, <1>10, <1>11 DEF x, y, z, plan

\* Tuner::tune leaves the tuner at the frequency and the antenna switch at its
\* input, whether it had to write the switch or took it to be there.
LEMMA TuneEffect ==
  ASSUME NEW m, NEW c, c.hz \in Nat, NEW remembered, NEW retry \in BOOLEAN, NEW n, Tuned(m),
         board.r828d \in BOOLEAN, board.v4 \in BOOLEAN, board.v4 => board.r828d,
         m.driver.input = remembered,
         remembered = Input(c) /\ board.r828d => Placed(remembered, m),
         Leads(m, Tune(c, remembered, retry), n)
  PROVE  /\ Tuned(n)
         /\ TuneSet(c, n.chip)
         /\ board.r828d => n.driver.input = Input(c) /\ Placed(Input(c), n)
         /\ n.driver.known = m.driver.known /\ n.driver.direct = m.driver.direct
         /\ \A f \in ChipFields \ TuneFields : n.chip[f] = m.chip[f]
         /\ Awake(m) => Awake(n)
<1> DEFINE xs == <<[drain |-> Drain(c)], [filter |-> Mux(c)[3]], [corner |-> Mux(c)[4]]>>
           x == Each(xs)
           y == SetPll(Plan(Lo(c), c.ppm), retry)
           es == <<[filter |-> 64], [corner |-> 0]>>
           e == Each(es)
           new == remembered # Input(c)
           k == <<Know([input |-> Input(c)])>>
           w == Each(Switch(Input(c)))
           hf == Hf(c)
           z == If(hf, e) \o If(new, w \o k)
           r828d == board.r828d
<1>1. Tune(c, remembered, retry) = x \o y \o If(r828d, z)
  BY Zenon DEF Tune
<1>2. Script(xs) /\ Script(es) /\ Script(k) /\ Script(w) /\ Script(y)
  <2>1. Script(w)
    BY ScriptSwitch
  <2>2. Script(y)
    BY ScriptSetPll
  <2> QED
    BY <2>1, <2>2, ScriptTuples
<1>3. new \in BOOLEAN /\ hf \in BOOLEAN /\ r828d \in BOOLEAN
  BY DEF Hf
<1> HIDE DEF new, hf, r828d, y, w, k
<1>4. Script(x) /\ Script(e)
  <2> HIDE DEF xs, es
  <2> QED
    BY <1>2, ScriptEach
<1> HIDE DEF x, e
<1>5. Script(If(hf, e)) /\ Script(w \o k)
  BY <1>2, <1>3, <1>4, ScriptIf, ScriptConcat
<1>6. Script(If(new, w \o k))
  BY <1>3, <1>5, ScriptIf
<1>7. Script(z)
  BY <1>5, <1>6, ScriptConcat
<1>8. Script(If(r828d, z))
  BY <1>3, <1>7, ScriptIf
<1> HIDE DEF z
<1>9. Leads(m, x \o y \o If(r828d, z), n)
  BY <1>1
<1>10. PICK p, q : Leads(m, x, p) /\ Leads(p, y, q) /\ Leads(q, If(r828d, z), n)
  BY <1>2, <1>4, <1>8, <1>9, LeadsThree
<1>11. /\ Tuned(q)
       /\ Kin(m, TuneFields \ SwitchFields, q)
       /\ q.chip.divider = Plan(Lo(c), c.ppm) /\ q.chip.fraction = q.chip.divider
       /\ q.chip.autotune = 1
       /\ q.chip.filter = Mux(c)[3] /\ q.chip.corner = Mux(c)[4]
       /\ q.chip.drain = Drain(c)
       /\ Awake(m) => Awake(q)
  BY <1>10, TuneFirst DEF x, y
<1>12. /\ q.driver.input = remembered /\ q.driver.known = m.driver.known
       /\ q.driver.direct = m.driver.direct
       /\ \A f \in SwitchFields : q.chip[f] = m.chip[f]
       /\ \A f \in ChipFields \ TuneFields : q.chip[f] = m.chip[f]
  <2>1. SwitchFields \subseteq ChipFields
    BY FieldNames DEF SwitchFields
  <2> QED
    BY <1>11, <2>1 DEF Kin, Flags, TuneFields
<1>13. CASE ~r828d
  <2>1. n = q
    BY <1>10, <1>13, LeadsNowhere DEF If
  <2>2. ~Hf(c)
    BY <1>13 DEF Hf, r828d
  <2>3. TuneSet(c, n.chip)
    BY <1>11, <2>1, <2>2 DEF TuneSet
  <2> QED
    BY <1>11, <1>12, <1>13, <2>1, <2>3 DEF r828d
<1>14. CASE r828d
  <2>1. Leads(q, z, n)
    BY <1>10, <1>14 DEF If
  <2>2. PICK r : Leads(q, If(hf, e), r) /\ Leads(r, If(new, w \o k), n)
    BY <1>5, <1>6, <2>1, LeadsSplit DEF z
  <2>3. /\ Tuned(r)
        /\ Kin(q, {"filter", "corner"}, r)
        /\ <<r.chip.filter, r.chip.corner>> = IF Hf(c) THEN <<64, 0>> ELSE <<Mux(c)[3], Mux(c)[4]>>
    <3>1. CASE hf
      <4> DEFINE a == [filter |-> 64]
                 b == [corner |-> 0]
      <4>1. "gate" \notin DOMAIN a /\ "gate" \notin DOMAIN b
        OBVIOUS
      <4>2. Leads(q, e, r)
        BY <2>2, <3>1 DEF If
      <4>3. Leads(q, Each(<<a, b>>), r)
        BY <4>2 DEF e
      <4> HIDE DEF a, b
      <4>4. PICK o : Wrote(q, a, o) /\ Wrote(o, b, r) /\ Tuned(r)
        BY <1>11, <4>1, <4>3, TunedRow2
      <4>5. Wrote(q, [filter |-> 64, corner |-> 0], r)
        BY <4>4 DEF Wrote, a, b
      <4>6. r.chip.filter = 64 /\ r.chip.corner = 0
        BY <4>5, FieldNames DEF Wrote
      <4>7. Kin(q, {"filter", "corner"}, r)
        BY <4>5 DEF Wrote, Kin
      <4> QED
        BY <3>1, <4>4, <4>6, <4>7 DEF hf
    <3>2. CASE ~hf
      <4>1. r = q
        BY <2>2, <3>2, LeadsNowhere DEF If
      <4>2. Kin(q, {"filter", "corner"}, r)
        BY <4>1 DEF Kin
      <4> QED
        BY <1>11, <3>2, <4>1, <4>2 DEF hf
    <3> QED
      BY <3>1, <3>2
  <2>4. TuneSet(c, r.chip)
    BY <1>11, <2>3, FieldNames DEF Kin, TuneSet
  <2>5. Awake(m) => Awake(r)
    BY <1>11, <2>3, FieldNames DEF Kin, Awake, RestFields
  <2>6. /\ r.driver.input = remembered /\ r.driver.known = m.driver.known
        /\ r.driver.direct = m.driver.direct
        /\ \A f \in SwitchFields : r.chip[f] = m.chip[f]
        /\ \A f \in ChipFields \ TuneFields : r.chip[f] = m.chip[f]
    BY <1>12, <2>3, FieldNames DEF Kin, Flags, SwitchFields, TuneFields
  <2>7. CASE new
    <3>1. Leads(r, w \o k, n)
      BY <2>2, <2>7 DEF If
    <3>2. PICK o : Leads(r, w, o) /\ Leads(o, k, n)
      BY <1>2, <3>1, LeadsSplit
    <3>3. /\ Tuned(o) /\ Placed(Input(c), o) /\ Kin(r, SwitchFields, o)
          /\ Awake(r) => Awake(o)
      BY <2>3, <3>2, SwitchEffect DEF w
    <3> DEFINE u == [input |-> Input(c)]
    <3>4. DOMAIN u = {"input"} /\ u["input"] = Input(c)
      OBVIOUS
    <3>5. n = Go(o, Know(u))
      BY <3>2, LeadsOne DEF k
    <3> HIDE DEF u
    <3>6. DOMAIN u \subseteq Flags
      BY <3>4 DEF Flags
    <3>7. /\ Mirrored(n) /\ n.chip = o.chip
          /\ \A f \in Flags : n.driver[f] = IF f \in DOMAIN u THEN u[f] ELSE o.driver[f]
      BY <3>3, <3>5, <3>6, KnowEffect DEF Tuned
    <3>8. Tuned(n)
      BY <3>3, <3>7 DEF Tuned
    <3>9. n.driver.input = Input(c) /\ n.driver.known = r.driver.known
          /\ n.driver.direct = r.driver.direct
      BY <3>3, <3>4, <3>7 DEF Flags, Kin
    <3>10. Placed(Input(c), n)
      BY <3>3, <3>7 DEF Placed
    <3>11. TuneSet(c, n.chip)
      BY <2>4, <3>3, <3>7, FieldNames DEF TuneSet, Kin, SwitchFields
    <3>12. \A f \in ChipFields \ TuneFields : n.chip[f] = m.chip[f]
      BY <2>6, <3>3, <3>7 DEF Kin, TuneFields
    <3>13. Awake(m) => Awake(n)
      BY <2>5, <3>3, <3>7 DEF Awake
    <3> QED
      BY <2>6, <3>8, <3>9, <3>10, <3>11, <3>12, <3>13
  <2>8. CASE ~new
    <3>1. n = r
      BY <2>2, <2>8, LeadsNowhere DEF If
    <3>2. remembered = Input(c)
      BY <2>8 DEF new
    <3>3. Placed(Input(c), m)
      BY <1>14, <3>2 DEF r828d
    <3>4. Placed(Input(c), n)
      BY <2>6, <3>1, <3>3, PlacedMeans DEF SwitchFields
    <3> QED
      BY <2>3, <2>4, <2>5, <2>6, <3>1, <3>2, <3>4
  <2> QED
    BY <2>7, <2>8
<1> QED
  BY <1>13, <1>14

-----------------------------------------------------------------------------
(* The reinitialization and the repeater *)

\* A write to the demodulator needs no repeater and no copy.
LEMMA PlainStep ==
  ASSUME NEW m, NEW w, Shaped(m), DOMAIN w \cap TunerFields = {}
  PROVE  /\ Shaped(Go(m, Radio(w)))
         /\ \A f \in ChipFields : Go(m, Radio(w)).chip[f] = IF f \in DOMAIN w THEN w[f] ELSE m.chip[f]
         /\ \A f \in DriverFields : Go(m, Radio(w)).driver[f] = m.driver[f]
<1> DEFINE st == Radio(w)
           d == m.driver
           x == Sent(w, d)
           y == Kept(w)
           u == m.chip
<1>1. st.to = "radio" /\ st.set = w
  BY DEF Radio
<1>2. Go(m, st).chip = Over(x, u) /\ Go(m, st).driver = Over(y, d)
  BY <1>1, GoWrites
<1>3. DOMAIN u = ChipFields /\ DOMAIN d = DriverFields
  BY DEF Shaped
<1> HIDE DEF d, u, st
<1>4. DOMAIN x = DOMAIN w /\ \A f \in DOMAIN w : x[f] = w[f]
  BY SentAt
<1>5. DOMAIN y = {}
  BY KeptAt
<1> HIDE DEF x, y
<1>6. /\ DOMAIN Over(x, u) = DOMAIN u /\ DOMAIN Over(y, d) = DOMAIN d
      /\ \A f \in DOMAIN u : Over(x, u)[f] = IF f \in DOMAIN x THEN x[f] ELSE u[f]
      /\ \A f \in DOMAIN d : Over(y, d)[f] = IF f \in DOMAIN y THEN y[f] ELSE d[f]
  BY OverAt
<1>7. Shaped(Go(m, st))
  BY <1>2, <1>3, <1>6 DEF Shaped
<1> QED
  BY <1>2, <1>3, <1>4, <1>5, <1>6, <1>7 DEF st, d, u

\* No step changes which fields there are.
LEMMA StepShaped ==
  ASSUME NEW m, NEW st, NEW failed \in BOOLEAN, NEW reached \in BOOLEAN, Shaped(m)
  PROVE  Shaped(Step(m, st, failed, reached))
<1> DEFINE a == Over(st.set, m.driver)
           b == Over(Sent(st.set, m.driver), m.chip)
           c == Over(Kept(st.set), m.driver)
<1>1. DOMAIN a = DriverFields /\ DOMAIN b = ChipFields /\ DOMAIN c = DriverFields
  BY OverAt DEF Shaped
<1>2. DOMAIN m.chip = ChipFields /\ DOMAIN m.driver = DriverFields
  BY DEF Shaped
<1>3. Step(m, st, failed, reached) =
        IF st.to = "driver" THEN [chip |-> m.chip, driver |-> a]
        ELSE [chip |-> IF (failed /\ ~reached) \/ Deaf(m.chip, st.set) THEN m.chip ELSE b,
              driver |-> IF failed THEN m.driver ELSE c]
  BY DEF Step
<1> HIDE DEF a, b, c
<1> QED
  BY <1>1, <1>2, <1>3 DEF Shaped

\* Nor does a trace.
LEMMA TraceShaped ==
  ASSUME NEW h, NEW m, NEW s, NEW F, NEW R, NEW n \in Nat, Trace(h, m, s, F, R, n), Shaped(m)
  PROVE  \A k \in 0..n : Shaped(h[k])
<1>1. h[0] = m /\ \A k \in 1..n : h[k] = Step(h[k - 1], s[k], k \in F, k \in R)
  BY TraceSteps
<1> DEFINE S == {k \in Nat : k \in 0..n => Shaped(h[k])}
<1>2. 0 \in S
  BY <1>1
<1>3. ASSUME NEW k \in Nat, k \in S
      PROVE  k + 1 \in S
  <2> SUFFICES ASSUME k + 1 \in 0..n
               PROVE  Shaped(h[k + 1])
    OBVIOUS
  <2> DEFINE j == k + 1
             failed == j \in F
             reached == j \in R
  <2>1. j \in 1..n /\ j - 1 = k /\ k \in 0..n
    OBVIOUS
  <2>2. Shaped(h[k])
    BY <1>3, <2>1
  <2>3. failed \in BOOLEAN /\ reached \in BOOLEAN
    OBVIOUS
  <2> HIDE DEF j
  <2>4. h[j] = Step(h[k], s[j], failed, reached)
    BY <1>1, <2>1
  <2> HIDE DEF failed, reached
  <2>5. Shaped(h[j])
    BY <2>2, <2>3, <2>4, StepShaped
  <2> QED
    BY <2>5 DEF j
<1> HIDE DEF S
<1>4. \A k \in Nat : k \in S
  BY <1>2, <1>3, InductionOn
<1> QED
  BY <1>4 DEF S

\* The flags of a fresh Tuner.
LEMMA NewTunerFlags ==
  /\ NewTuner["input"] = NoInput /\ NewTuner["known"] = TRUE /\ NewTuner["direct"] = FALSE
  /\ DOMAIN NewTuner = DriverFields
<1> DEFINE a == [input |-> NoInput, known |-> TRUE, direct |-> FALSE]
           b == [f \in DriverFields |-> Initial]
<1>1. /\ DOMAIN a = Flags /\ DOMAIN b = DriverFields
      /\ a["input"] = NoInput /\ a["known"] = TRUE /\ a["direct"] = FALSE
  BY DEF Flags
<1>2. NewTuner = Over(a, b)
  BY Zenon DEF NewTuner
<1> HIDE DEF a, b
<1>3. /\ DOMAIN Over(a, b) = DOMAIN b
      /\ \A f \in DOMAIN b : Over(a, b)[f] = IF f \in DOMAIN a THEN a[f] ELSE b[f]
  BY OverAt
<1>4. Flags \subseteq DriverFields
  BY FieldNames
<1> QED
  BY <1>1, <1>2, <1>3, <1>4 DEF Flags

\* The reinitialization ends with an open repeater and a fresh Tuner.
LEMMA ResetEffect ==
  ASSUME NEW m, NEW n, Shaped(m), Leads(m, Reset, n)
  PROVE  /\ Shaped(n) /\ n.chip.gate = "open"
         /\ n.driver.input = NoInput /\ n.driver.known = TRUE /\ n.driver.direct = FALSE
<1> DEFINE g == [gate |-> "open"]
           w1 == [streaming |-> FALSE]
           w2 == [clock |-> TRUE]
           w3 == [gate |-> "closed"]
           w4 == [spectrum |-> 0]
           w5 == [agc |-> 5]
           w6 == [branch |-> "I"]
           ws == <<w1, w2, w3, w4, w5, w6, g>>
           e == [f \in {} |-> 0]
           t == <<Read, Know(NewTuner)>>
<1>1. Reset = Each(ws) \o t
  BY Zenon DEF Reset
<1>2. Script(ws) /\ Len(ws) = 7 /\ ws[7] = g /\ Script(t) /\ Len(t) = 2
      /\ t[1] = Read /\ t[2] = Know(NewTuner)
  <2> HIDE DEF w1, w2, w3, w4, w5, w6, g
  <2>1. ws \in Seq({w1, w2, w3, w4, w5, w6, g}) /\ Len(ws) = 7 /\ ws[7] = g
    OBVIOUS
  <2> HIDE DEF ws
  <2>2. Script(ws)
    BY <2>1 DEF Script
  <2>3. Script(t) /\ Len(t) = 2
    BY ScriptTuples
  <2> QED
    BY <2>1, <2>2, <2>3
<1>3. DOMAIN g = {"gate"} /\ g["gate"] = "open"
  OBVIOUS
<1>4. Read = Radio(e) /\ DOMAIN e = {}
  BY DEF Read
<1> HIDE DEF ws, t, g, e
<1>5. Script(Each(ws)) /\ Leads(m, Each(ws) \o t, n)
  BY <1>1, <1>2, ScriptEach
<1>6. PICK p : Leads(m, Each(ws), p) /\ Leads(p, t, n)
  BY <1>2, <1>5, LeadsSplit
<1>a. PICK h : h[0] = m /\ h[Len(ws)] = p /\ \A k \in 1..Len(ws) : h[k] = Go(h[k - 1], Radio(ws[k]))
  <2>1. Script(ws) /\ Leads(m, Each(ws), p)
    BY <1>2, <1>6
  <2> QED
    BY <2>1, LeadsEach
<1>7. h[0] = m /\ h[7] = p /\ \A k \in 1..7 : h[k] = Go(h[k - 1], Radio(ws[k]))
  BY <1>2, <1>a
<1>8. p = Go(h[6], Radio(g))
  BY <1>2, <1>7
<1> DEFINE o == h[6]
<1>9. Shaped(o)
  <2>1. \A k \in 1..6 : h[k] = Go(h[k - 1], Radio(ws[k]))
    BY <1>7
  <2>2. \A a, b : Shaped(a) => Shaped(Go(a, b))
    <3> TAKE a, b
    <3> HAVE Shaped(a)
    <3> DEFINE x == FALSE
    <3>1. x \in BOOLEAN /\ Go(a, b) = Step(a, b, x, x)
      BY Zenon DEF Go
    <3> HIDE DEF x
    <3> QED
      BY <3>1, StepShaped
  <2>3. Shaped(h[1])
    BY <1>7, <2>1, <2>2
  <2>4. Shaped(h[2])
    BY <2>1, <2>2, <2>3
  <2>5. Shaped(h[3])
    BY <2>1, <2>2, <2>4
  <2>6. Shaped(h[4])
    BY <2>1, <2>2, <2>5
  <2>7. Shaped(h[5])
    BY <2>1, <2>2, <2>6
  <2> QED
    BY <2>1, <2>2, <2>7
<1>10. p = Go(o, Radio(g))
  BY <1>8
<1> HIDE DEF o
<1>11. Shaped(p) /\ p.chip.gate = "open"
  <2>1. DOMAIN g \cap TunerFields = {} /\ "gate" \in ChipFields
    BY <1>3, FieldNames
  <2> QED
    BY <1>3, <1>9, <1>10, <2>1, PlainStep
<1>12. PICK q : q = Go(p, Read) /\ n = Go(q, Know(NewTuner))
  <2>1. PICK k : Walk(k, p, t, n)
    BY <1>2, <1>6, LeadsIsPath
  <2>2. k[0] = p /\ k[1] = Go(k[0], t[1]) /\ k[2] = Go(k[1], t[2]) /\ n = k[2]
    BY <1>2, <2>1 DEF Walk
  <2> QED
    BY <1>2, <2>2
<1>13. Shaped(q) /\ q.chip.gate = "open"
  <2>1. DOMAIN e \cap TunerFields = {} /\ "gate" \in ChipFields /\ "gate" \notin DOMAIN e
    BY <1>4, FieldNames
  <2>2. q = Go(p, Radio(e))
    BY <1>4, <1>12
  <2> QED
    BY <1>11, <2>1, <2>2, PlainStep
<1> DEFINE st == Know(NewTuner)
<1>14. st.to = "driver" /\ st.set = NewTuner
  BY DEF Know
<1>15. n = Go(q, st)
  BY <1>12
<1> HIDE DEF st
<1>16. /\ n.chip = q.chip /\ DOMAIN n.driver = DriverFields
       /\ \A f \in DriverFields : n.driver[f] = IF f \in DOMAIN st.set THEN st.set[f] ELSE q.driver[f]
  BY <1>13, <1>14, <1>15, GoKnows
<1>17. "input" \in DriverFields /\ "known" \in DriverFields /\ "direct" \in DriverFields
  BY FieldNames DEF Flags
<1> QED
  BY <1>13, <1>14, <1>16, <1>17, NewTunerFlags DEF Shaped

\* Opening the repeater.
LEMMA OpenGateEffect ==
  ASSUME NEW m, NEW n, Shaped(m), Leads(m, OpenGate, n)
  PROVE  /\ Shaped(n) /\ n.chip.gate = "open"
         /\ \A f \in ChipFields \ {"gate"} : n.chip[f] = m.chip[f]
         /\ \A f \in DriverFields : n.driver[f] = m.driver[f]
<1> DEFINE g == [gate |-> "open"]
           ws == <<g>>
<1>1. Script(ws) /\ Len(ws) = 1 /\ ws[1] = g
  BY ScriptTuples
<1>2. Leads(m, Each(ws), n)
  BY DEF OpenGate
<1>3. DOMAIN g = {"gate"} /\ g["gate"] = "open"
  OBVIOUS
<1> HIDE DEF ws, g
<1>4. PICK h : h[0] = m /\ h[1] = n /\ \A k \in 1..1 : h[k] = Go(h[k - 1], Radio(ws[k]))
  BY <1>1, <1>2, LeadsEach
<1>5. n = Go(m, Radio(g))
  BY <1>1, <1>4
<1>6. DOMAIN g \cap TunerFields = {} /\ "gate" \in ChipFields
  BY <1>3, FieldNames
<1> QED
  BY <1>3, <1>5, <1>6, PlainStep

-----------------------------------------------------------------------------
(* Hardware::configure *)

\* The settings c are in effect, and what the driver remembers is right.
Steady(c, m) ==
  /\ Mirrored(m)
  /\ m.driver.known = TRUE /\ m.driver.direct = Direct(c)
  /\ PathSet(c, m.chip)
  /\ m.chip.ppm = c.ppm /\ m.chip.rate = c.rate /\ m.chip.bias = c.bias
  /\ m.chip.if = Plan(IF Direct(c) THEN c.hz ELSE IF_HZ, c.ppm)
  /\ IF Direct(c) THEN \A f \in RestFields : m.chip[f] = Asleep
                  ELSE TuneSet(c, m.chip) /\ Awake(m)
  /\ board.r828d /\ ~Direct(c) => m.driver.input = Input(c) /\ Placed(Input(c), m)

\* The repeater and the streaming bits have no part in that.
LEMMA SteadyKin ==
  ASSUME NEW c, NEW m, NEW n, Steady(c, m), Mirrored(n),
         \A f \in Flags : n.driver[f] = m.driver[f],
         \A f \in ChipFields : f \notin {"streaming", "gate"} => n.chip[f] = m.chip[f]
  PROVE  Steady(c, n)
<1>1. \A f \in TunerFields : n.chip[f] = m.chip[f]
  BY FieldNames
<1>2. RestFields \subseteq TunerFields
  BY FieldNames DEF RestFields
<1>3. /\ n.chip.ppm = m.chip.ppm /\ n.chip.rate = m.chip.rate /\ n.chip.bias = m.chip.bias
      /\ n.chip.if = m.chip.if
  BY FieldNames
<1>4. PathSet(c, m.chip) => PathSet(c, n.chip)
  BY FieldNames DEF PathSet
<1>5. TuneSet(c, m.chip) => TuneSet(c, n.chip)
  BY <1>1, FieldNames DEF TuneSet
<1>6. Placed(Input(c), m) => Placed(Input(c), n)
  BY PlacedMeans, FieldNames
<1>7. Awake(m) => Awake(n)
  BY <1>1, <1>2 DEF Awake
<1>8. (\A f \in RestFields : m.chip[f] = Asleep) => \A f \in RestFields : n.chip[f] = Asleep
  BY <1>1, <1>2
<1>9. /\ n.driver.known = m.driver.known /\ n.driver.direct = m.driver.direct
      /\ n.driver.input = m.driver.input
  BY DEF Flags
<1> QED
  BY <1>3, <1>4, <1>5, <1>6, <1>7, <1>8, <1>9 DEF Steady

\* An input that is wanted is known.
LEMMA InputRange ==
  ASSUME NEW c
  PROVE  Input(c) # NoInput
BY SMT DEF Input, NoInput

\* A tuner that was put to sleep is in tune with its copy.
LEMMA RestedTuned ==
  ASSUME NEW m, NEW n, Tuned(m), Filled(m, RestFields, Asleep, n)
  PROVE  /\ Tuned(n)
         /\ \A f \in RestFields : n.chip[f] = Asleep
         /\ \A f \in Flags : n.driver[f] = m.driver[f]
<1>1. RestFields \subseteq TunerFields /\ "gate" \notin RestFields /\ \A f \in Flags : f \notin RestFields
  BY FieldNames DEF RestFields
<1>2. /\ TunerFields \subseteq ChipFields /\ TunerFields \subseteq DriverFields
      /\ Flags \subseteq DriverFields /\ "gate" \in ChipFields
  BY FieldNames
<1>3. /\ Shaped(n)
      /\ \A f \in ChipFields : n.chip[f] = IF f \in RestFields THEN Asleep ELSE m.chip[f]
      /\ \A f \in DriverFields : n.driver[f] = IF f \in RestFields THEN Asleep ELSE m.driver[f]
  BY DEF Filled
<1>4. (\A f \in TunerFields : m.driver[f] = m.chip[f]) /\ m.chip.gate = "open"
  BY DEF Tuned, Mirrored
<1>5. \A f \in TunerFields : n.driver[f] = n.chip[f]
  BY <1>2, <1>3, <1>4
<1>6. n.chip.gate = "open"
  BY <1>1, <1>2, <1>3, <1>4
<1>7. \A f \in RestFields : n.chip[f] = Asleep
  BY <1>1, <1>2, <1>3
<1>8. \A f \in Flags : n.driver[f] = m.driver[f]
  BY <1>1, <1>2, <1>3
<1> QED
  BY <1>3, <1>5, <1>6, <1>7, <1>8 DEF Tuned, Mirrored

\* The script of the reinitialization.
LEMMA ScriptReset == Script(Reset)
<1> DEFINE w1 == [streaming |-> FALSE]
           w2 == [clock |-> TRUE]
           w3 == [gate |-> "closed"]
           w4 == [spectrum |-> 0]
           w5 == [agc |-> 5]
           w6 == [branch |-> "I"]
           w7 == [gate |-> "open"]
           ws == <<w1, w2, w3, w4, w5, w6, w7>>
           t == <<Read, Know(NewTuner)>>
<1>1. Reset = Each(ws) \o t
  BY Zenon DEF Reset
<1> HIDE DEF w1, w2, w3, w4, w5, w6, w7
<1>2. ws \in Seq({w1, w2, w3, w4, w5, w6, w7})
  OBVIOUS
<1>3. Script(ws) /\ Script(t)
  BY <1>2, ScriptTuples DEF Script
<1> HIDE DEF ws, t
<1>4. Script(Each(ws))
  BY <1>3, ScriptEach
<1> QED
  BY <1>1, <1>3, <1>4, ScriptConcat

\* The script that opens the repeater.
LEMMA ScriptOpenGate == Script(OpenGate)
<1> DEFINE ws == <<[gate |-> "open"]>>
<1>1. Script(ws) /\ OpenGate = Each(ws)
  BY ScriptTuples DEF OpenGate
<1> HIDE DEF ws
<1> QED
  BY <1>1, ScriptEach

\* What configure_inner decides from a reinitialization, the direct sampling
\* flag and the settings c, with the radio and the driver as in m.
Decides(c, reinit, opens, direct, rests, input, m) ==
  /\ {reinit, opens, direct, rests} \subseteq BOOLEAN
  /\ direct <=> ~reinit /\ m.driver.direct
  /\ opens <=> reinit \/ (direct /\ ~Direct(c))
  /\ rests <=> Direct(c) /\ ~direct
  /\ input = IF opens THEN NoInput ELSE m.driver.input

\* The tuner is awake or asleep as the settings want it, and an antenna input
\* that is known is right.
Prepared(c, input, m) ==
  /\ Tuned(m)
  /\ m.driver.known = TRUE /\ m.driver.input = input
  /\ IF Direct(c) THEN \A f \in RestFields : m.chip[f] = Asleep ELSE Awake(m)
  /\ board.r828d /\ ~Direct(c) /\ input = Input(c) => Placed(Input(c), m)

\* Whether settings want direct sampling is a truth value.
LEMMA DirectBoolean ==
  ASSUME NEW c
  PROVE  Direct(c) \in BOOLEAN
BY DEF Direct

\* That is so up to the receive path, from a valid configuration or from a
\* reinitialization.
LEMMA PrepareEffect ==
  ASSUME NEW c, NEW old, NEW reinit, NEW opens, NEW direct, NEW rests, NEW input,
         NEW codes \in Codes, NEW m, NEW n,
         Decides(c, reinit, opens, direct, rests, input, m),
         Shaped(m), reinit \/ Steady(old, m),
         Leads(m, If(reinit, Reset) \o OpenGate \o If(opens, Open(codes)) \o If(rests, Standby), n)
  PROVE  Prepared(c, input, n)
<1>a. /\ reinit \in BOOLEAN /\ opens \in BOOLEAN /\ direct \in BOOLEAN /\ rests \in BOOLEAN
      /\ direct <=> ~reinit /\ m.driver.direct
      /\ opens <=> reinit \/ (direct /\ ~Direct(c))
      /\ rests <=> Direct(c) /\ ~direct
      /\ input = IF opens THEN NoInput ELSE m.driver.input
  BY DEF Decides
<1>b. Direct(c) \in BOOLEAN /\ Direct(old) \in BOOLEAN
  BY DirectBoolean
<1> DEFINE b1 == If(reinit, Reset)
           b2 == OpenGate
           b3 == If(opens, Open(codes))
           b4 == If(rests, Standby)
<1>2. Script(b1) /\ Script(b2) /\ Script(b3) /\ Script(b4)
  <2>1. Script(Reset) /\ Script(OpenGate) /\ Script(Open(codes)) /\ Script(Standby)
    BY ScriptReset, ScriptOpenGate, ScriptOpen, ScriptParts
  <2> QED
    BY <1>a, <1>b, <2>1, ScriptIf
<1>3. Leads(m, b1 \o b2 \o b3 \o b4, n)
  OBVIOUS
<1> HIDE DEF b1, b2, b3, b4
<1>4. PICK p, q, r : Leads(m, b1, p) /\ Leads(p, b2, q) /\ Leads(q, b3, r) /\ Leads(r, b4, n)
  BY <1>2, <1>3, LeadsFour
<1>5. CASE reinit
  <2>1. Leads(m, Reset, p)
    BY <1>a, <1>b, <1>4, <1>5 DEF b1, If
  <2>2. /\ Shaped(p) /\ p.chip.gate = "open"
        /\ p.driver.known = TRUE
    BY <2>1, ResetEffect
  <2>3. /\ Shaped(q) /\ q.chip.gate = "open"
        /\ \A f \in DriverFields : q.driver[f] = p.driver[f]
    BY <1>4, <2>2, OpenGateEffect DEF b2
  <2>4. Leads(q, Open(codes), r) /\ opens
    BY <1>a, <1>b, <1>4, <1>5 DEF b3, If
  <2>5. Tuned(r) /\ Awake(r) /\ r.driver.input = NoInput /\ r.driver.known = q.driver.known
    BY <2>3, <2>4, OpenEffect
  <2>6. r.driver.known = TRUE
    BY <2>2, <2>3, <2>5, FieldNames DEF Flags
  <2>7. CASE Direct(c)
    <3>1. Leads(r, Standby, n)
      BY <1>a, <1>b, <1>4, <1>5, <2>7 DEF b4, If
    <3>2. Filled(r, RestFields, Asleep, n)
      BY <2>5, <3>1, StandbyEffect DEF Tuned, Mirrored
    <3>4. Tuned(n) /\ (\A f \in RestFields : n.chip[f] = Asleep)
          /\ \A f \in Flags : n.driver[f] = r.driver[f]
      BY <2>5, <3>2, RestedTuned
    <3> QED
      BY <1>a, <1>b, <2>4, <2>5, <2>6, <2>7, <3>4 DEF Flags, Prepared
  <2>8. CASE ~Direct(c)
    <3>1. n = r
      BY <1>a, <1>b, <1>4, <2>8, LeadsNowhere DEF b4, If
    <3> QED
      BY <1>a, <1>b, <2>4, <2>5, <2>6, <2>8, <3>1, InputRange DEF Prepared
  <2> QED
    BY <1>a, <1>b, <2>7, <2>8
<1>6. CASE ~reinit
  <2>1. p = m
    BY <1>a, <1>b, <1>4, <1>6, LeadsNowhere DEF b1, If
  <2>2. /\ Mirrored(m) /\ m.driver.known = TRUE /\ m.driver.direct = Direct(old)
        /\ IF Direct(old) THEN \A f \in RestFields : m.chip[f] = Asleep ELSE Awake(m)
        /\ board.r828d /\ ~Direct(old) => m.driver.input = Input(old) /\ Placed(Input(old), m)
    BY <1>a, <1>b, <1>6 DEF Steady
  <2>3. /\ Shaped(q) /\ q.chip.gate = "open"
        /\ \A f \in ChipFields \ {"gate"} : q.chip[f] = m.chip[f]
        /\ \A f \in DriverFields : q.driver[f] = m.driver[f]
    BY <1>4, <2>1, OpenGateEffect DEF b2
  <2>4. "gate" \notin RestFields /\ RestFields \subseteq TunerFields /\ Flags \cap RestFields = {}
    BY FieldNames DEF RestFields, Flags
  <2>5. /\ Tuned(q) /\ q.driver.known = TRUE /\ q.driver.input = m.driver.input
        /\ IF direct THEN \A f \in RestFields : q.chip[f] = Asleep ELSE Awake(q)
    BY <1>a, <1>b, <1>6, <2>2, <2>3, <2>4, FieldNames DEF Tuned, Mirrored, Awake, Flags
  <2>6. board.r828d /\ ~direct => m.driver.input = Input(old) /\ Placed(Input(old), q)
    BY <1>a, <1>b, <1>6, <2>2, <2>3, PlacedMeans, FieldNames
  <2>7. CASE opens
    <3>1. Leads(q, Open(codes), r)
      BY <1>a, <1>b, <1>4, <2>7 DEF b3, If
    <3>2. Tuned(r) /\ Awake(r) /\ r.driver.input = NoInput /\ r.driver.known = q.driver.known
      BY <2>3, <3>1, OpenEffect
    <3>3. ~Direct(c)
      BY <1>a, <1>b, <1>6, <2>7
    <3>4. n = r
      BY <1>a, <1>b, <1>4, <3>3, LeadsNowhere DEF b4, If
    <3> QED
      BY <1>a, <1>b, <2>5, <2>7, <3>2, <3>3, <3>4, InputRange DEF Prepared
  <2>8. CASE ~opens
    <3>1. r = q
      BY <1>a, <1>b, <1>4, <2>8, LeadsNowhere DEF b3, If
    <3>2. CASE rests
      <4>1. Leads(r, Standby, n) /\ Direct(c)
        BY <1>a, <1>b, <1>4, <3>2 DEF b4, If
      <4>2. Filled(r, RestFields, Asleep, n)
        BY <2>3, <3>1, <4>1, StandbyEffect
      <4>3. Tuned(n) /\ (\A f \in RestFields : n.chip[f] = Asleep)
            /\ \A f \in Flags : n.driver[f] = r.driver[f]
        BY <2>5, <3>1, <4>2, RestedTuned
      <4> QED
        BY <1>a, <1>b, <2>5, <2>8, <3>1, <4>1, <4>3 DEF Flags, Prepared
    <3>3. CASE ~rests
      <4>1. n = q
        BY <1>4, <3>1, <3>3, LeadsNowhere DEF b4, If
      <4>2. direct = Direct(c)
        BY <1>a, <1>b, <1>6, <2>8, <3>3
      <4> QED
        BY <1>a, <1>b, <1>6, <2>5, <2>6, <2>8, <4>1, <4>2 DEF Prepared
    <3> QED
      BY <3>2, <3>3
  <2> QED
    BY <1>a, <1>b, <2>7, <2>8
<1> QED
  BY <1>a, <1>b, <1>5, <1>6
\* What the values of a board and of settings are.
LEMMA BoardFacts ==
  ASSUME board \in Boards
  PROVE  board.r828d \in BOOLEAN /\ board.v4 \in BOOLEAN /\ (board.v4 => board.r828d)
BY HardwareAssumption


\* The rest of configure_inner, part by part.
Settles(c, input, retry, streams, m, n) ==
  \E a, b, d, e, g :
    /\ Leads(m, Path(c), a)
    /\ Leads(a, <<Know([direct |-> Direct(c)])>>, b)
    /\ Leads(b, Each(<<[ppm |-> c.ppm], [rate |-> c.rate]>>), d)
    /\ Leads(d, If(~Direct(c), Tune(c, input, retry)), e)
    /\ Leads(e, Each(<<[if |-> Plan(IF Direct(c) THEN c.hz ELSE IF_HZ, c.ppm)],
                       [gate |-> "closed"], [bias |-> c.bias]>>), g)
    /\ Leads(g, If(streams, Each(<<[streaming |-> FALSE], [streaming |-> TRUE]>>)), n)

\* What was prepared ends steady.
LEMMA SettleEffect ==
  ASSUME NEW c \in Configs, NEW input, NEW retry \in BOOLEAN, NEW streams \in BOOLEAN,
         NEW m, NEW n, board \in Boards,
         Prepared(c, input, m), Settles(c, input, retry, streams, m, n)
  PROVE  Steady(c, n)
<1> DEFINE us == <<[streaming |-> FALSE], [streaming |-> TRUE]>>
           plan == Plan(IF Direct(c) THEN c.hz ELSE IF_HZ, c.ppm)
           tunes == ~Direct(c)
           k == Know([direct |-> Direct(c)])
<1>a. PICK a, b, d, e, g :
        /\ Leads(m, Path(c), a)
        /\ Leads(a, <<k>>, b)
        /\ Leads(b, Each(<<[ppm |-> c.ppm], [rate |-> c.rate]>>), d)
        /\ Leads(d, If(tunes, Tune(c, input, retry)), e)
        /\ Leads(e, Each(<<[if |-> plan], [gate |-> "closed"], [bias |-> c.bias]>>), g)
        /\ Leads(g, If(streams, Each(us)), n)
  BY Zenon DEF Settles
<1>b. /\ Tuned(m)
      /\ m.driver.known = TRUE /\ m.driver.input = input
      /\ IF Direct(c) THEN \A f \in RestFields : m.chip[f] = Asleep ELSE Awake(m)
      /\ board.r828d /\ ~Direct(c) /\ input = Input(c) => Placed(Input(c), m)
  BY DEF Prepared
<1>c. board.r828d \in BOOLEAN /\ board.v4 \in BOOLEAN /\ (board.v4 => board.r828d)
  BY BoardFacts
<1>d. Direct(c) \in BOOLEAN /\ (tunes <=> ~Direct(c)) /\ plan = Plan(IF Direct(c) THEN c.hz ELSE IF_HZ, c.ppm)
  BY DirectBoolean
<1> HIDE DEF us, plan, tunes, k
<1>1. c.gain \in Nat /\ c.hz \in Nat
  BY HardwareAssumption
<1>2. RestFields \subseteq TunerFields /\ TunerFields \subseteq ChipFields
  BY FieldNames DEF RestFields
<1>3. /\ Tuned(a) /\ Kin(m, PathFields, a) /\ PathSet(c, a.chip)
      /\ Direct(c) => \A f \in TunerFields : a.chip[f] = m.chip[f]
      /\ Awake(m) => Awake(a)
  BY <1>1, <1>a, <1>b, PathEffect
<1>4. /\ a.driver.known = TRUE /\ a.driver.input = input
      /\ IF Direct(c) THEN \A f \in RestFields : a.chip[f] = Asleep ELSE Awake(a)
      /\ board.r828d /\ ~Direct(c) /\ input = Input(c) => Placed(Input(c), a)
  <2>1. a.chip.hf = m.chip.hf /\ a.chip.antenna = m.chip.antenna /\ a.chip.notHf = m.chip.notHf
    BY <1>3, FieldNames DEF Kin, PathFields
  <2> QED
    BY <1>b, <1>d, <1>2, <1>3, <2>1, PlacedMeans DEF Kin, Flags
<1>5. /\ Tuned(b) /\ b.chip = a.chip
      /\ b.driver.known = TRUE /\ b.driver.input = input /\ b.driver.direct = Direct(c)
  <2> DEFINE w == [direct |-> Direct(c)]
  <2>1. b = Go(a, Know(w))
    <3>1. b = Go(a, k)
      BY <1>a, LeadsOne
    <3> QED
      BY <3>1 DEF k
  <2>2. DOMAIN w = {"direct"} /\ w["direct"] = Direct(c)
    OBVIOUS
  <2> HIDE DEF w
  <2>3. DOMAIN w \subseteq Flags
    BY <2>2 DEF Flags
  <2>4. /\ Mirrored(b) /\ b.chip = a.chip
        /\ \A f \in Flags : b.driver[f] = IF f \in DOMAIN w THEN w[f] ELSE a.driver[f]
    BY <1>3, <2>1, <2>3, KnowEffect DEF Tuned
  <2> QED
    BY <1>3, <1>4, <2>2, <2>4 DEF Tuned, Flags
<1>6. Tuned(d) /\ Wrote(b, [ppm |-> c.ppm, rate |-> c.rate], d)
  <2> DEFINE x == [ppm |-> c.ppm]
             y == [rate |-> c.rate]
  <2>1. "gate" \notin DOMAIN x /\ "gate" \notin DOMAIN y
    OBVIOUS
  <2>2. Leads(b, Each(<<x, y>>), d)
    BY <1>a
  <2> HIDE DEF x, y
  <2>3. PICK o : Wrote(b, x, o) /\ Wrote(o, y, d) /\ Tuned(d)
    BY <1>5, <2>1, <2>2, TunedRow2
  <2> QED
    BY <2>3 DEF Wrote, x, y
<1>7. /\ PathSet(c, d.chip) /\ d.chip.ppm = c.ppm /\ d.chip.rate = c.rate
      /\ d.driver.known = TRUE /\ d.driver.input = input /\ d.driver.direct = Direct(c)
      /\ \A f \in TunerFields \cup {"notHf"} : d.chip[f] = a.chip[f]
  <2>1. d.chip.ppm = c.ppm /\ d.chip.rate = c.rate
    BY <1>6, FieldNames DEF Wrote
  <2>2. d.driver.known = TRUE /\ d.driver.input = input /\ d.driver.direct = Direct(c)
    BY <1>5, <1>6 DEF Wrote, Flags
  <2>3. \A f \in ChipFields : f \notin {"ppm", "rate"} => d.chip[f] = a.chip[f]
    BY <1>5, <1>6 DEF Wrote
  <2>4. PathSet(c, d.chip)
    BY <1>3, <2>3, FieldNames DEF PathSet
  <2>5. \A f \in TunerFields \cup {"notHf"} : d.chip[f] = a.chip[f]
    BY <2>3, FieldNames
  <2> QED
    BY <2>1, <2>2, <2>4, <2>5
<1>8. /\ IF Direct(c) THEN \A f \in RestFields : d.chip[f] = Asleep ELSE Awake(d)
      /\ board.r828d /\ ~Direct(c) /\ input = Input(c) => Placed(Input(c), d)
  <2>1. d.chip.hf = a.chip.hf /\ d.chip.antenna = a.chip.antenna /\ d.chip.notHf = a.chip.notHf
    BY <1>7, FieldNames
  <2> QED
    BY <1>c, <1>d, <1>2, <1>4, <1>7, <2>1, PlacedMeans DEF Awake
<1>9. /\ Tuned(e) /\ PathSet(c, e.chip) /\ e.chip.ppm = c.ppm /\ e.chip.rate = c.rate
      /\ e.driver.known = TRUE /\ e.driver.direct = Direct(c)
      /\ IF Direct(c) THEN \A f \in RestFields : e.chip[f] = Asleep
                      ELSE TuneSet(c, e.chip) /\ Awake(e)
      /\ board.r828d /\ ~Direct(c) => e.driver.input = Input(c) /\ Placed(Input(c), e)
  <2>1. CASE Direct(c)
    <3>1. e = d
      BY <1>a, <1>d, <2>1, LeadsNowhere DEF If
    <3> QED
      BY <1>6, <1>7, <1>8, <2>1, <3>1
  <2>2. CASE ~Direct(c)
    <3>1. Leads(d, Tune(c, input, retry), e)
      BY <1>a, <1>d, <2>2 DEF If
    <3>2. /\ Tuned(e)
          /\ TuneSet(c, e.chip)
          /\ board.r828d => e.driver.input = Input(c) /\ Placed(Input(c), e)
          /\ e.driver.known = d.driver.known /\ e.driver.direct = d.driver.direct
          /\ \A f \in ChipFields \ TuneFields : e.chip[f] = d.chip[f]
          /\ Awake(d) => Awake(e)
      <4>1. input = Input(c) /\ board.r828d => Placed(input, d)
        BY <1>8, <2>2
      <4>2. d.driver.input = input
        BY <1>7
      <4> QED
        BY <1>c, <1>1, <1>6, <3>1, <4>1, <4>2, TuneEffect
    <3>3. /\ e.chip.adc = d.chip.adc /\ e.chip.spectrum = d.chip.spectrum
          /\ e.chip.branch = d.chip.branch /\ e.chip.agc = d.chip.agc
          /\ e.chip.lnaMode = d.chip.lnaMode /\ e.chip.lnaStep = d.chip.lnaStep
          /\ e.chip.ppm = d.chip.ppm /\ e.chip.rate = d.chip.rate
      BY <3>2, FieldNames DEF TuneFields, SwitchFields
    <3>4. PathSet(c, e.chip)
      BY <1>7, <3>3 DEF PathSet
    <3> QED
      BY <1>7, <1>8, <2>2, <3>2, <3>3, <3>4
  <2> QED
    BY <1>d, <2>1, <2>2
<1>10. Wrote(e, [if |-> plan, gate |-> "closed", bias |-> c.bias], g)
  <2> DEFINE x == [if |-> plan]
             y == [gate |-> "closed"]
             z == [bias |-> c.bias]
             ws == <<x, y, z>>
  <2>1. /\ DOMAIN x \cap TunerFields = {} /\ DOMAIN y \cap TunerFields = {}
        /\ DOMAIN z \cap TunerFields = {}
    BY FieldNames
  <2>2. Leads(e, Each(ws), g)
    BY <1>a, Zenon
  <2> HIDE DEF x, y, z
  <2>3. Script(ws) /\ Len(ws) = 3 /\ ws[1] = x /\ ws[2] = y /\ ws[3] = z
    BY ScriptTuples
  <2> HIDE DEF ws
  <2>4. PICK h : h[0] = e /\ h[Len(ws)] = g /\ \A i \in 1..Len(ws) : h[i] = Go(h[i - 1], Radio(ws[i]))
    <3>1. Script(ws)
      BY <2>3
    <3> QED
      BY <2>2, <3>1, LeadsEach
  <2>5. h[1] = Go(e, Radio(x)) /\ h[2] = Go(h[1], Radio(y)) /\ g = Go(h[2], Radio(z))
    BY <2>3, <2>4
  <2>6. \A w : Radio(w).to = "radio" /\ Radio(w).set = w
    BY DEF Radio
  <2>7. Wrote(e, x, h[1])
    BY <1>9, <2>1, <2>5, <2>6, GoMirrors DEF Tuned
  <2>8. Wrote(h[1], y, h[2])
    BY <2>1, <2>5, <2>6, <2>7, GoMirrors DEF Wrote
  <2>9. Wrote(h[2], z, g)
    BY <2>1, <2>5, <2>6, <2>8, GoMirrors DEF Wrote
  <2>10. Wrote(e, [if |-> plan, gate |-> "closed", bias |-> c.bias], g)
    BY <2>7, <2>8, <2>9 DEF Wrote, x, y, z
  <2> QED
    BY <2>10
<1>11. Steady(c, g)
  <2>1. Mirrored(g) /\ \A f \in Flags : g.driver[f] = e.driver[f]
    BY <1>10 DEF Wrote
  <2>2. g.chip.if = plan /\ g.chip.bias = c.bias
    BY <1>10, FieldNames DEF Wrote
  <2>3. \A f \in ChipFields : f \notin {"if", "gate", "bias"} => g.chip[f] = e.chip[f]
    BY <1>10 DEF Wrote
  <2>4. \A f \in TunerFields : g.chip[f] = e.chip[f]
    BY <2>3, FieldNames
  <2>5. PathSet(c, g.chip) /\ g.chip.ppm = c.ppm /\ g.chip.rate = c.rate
    BY <1>9, <2>3, FieldNames DEF PathSet
  <2>6. TuneSet(c, e.chip) => TuneSet(c, g.chip)
    BY <2>4, FieldNames DEF TuneSet
  <2>7. Placed(Input(c), e) => Placed(Input(c), g)
    BY <2>3, PlacedMeans, FieldNames
  <2>8. Awake(e) => Awake(g)
    BY <1>2, <2>4 DEF Awake
  <2>9. Direct(c) => \A f \in RestFields : g.chip[f] = Asleep
    BY <1>2, <1>9, <2>4
  <2>10. g.driver.known = TRUE /\ g.driver.direct = Direct(c) /\ g.driver.input = e.driver.input
    BY <1>9, <2>1 DEF Flags
  <2> QED
    BY <1>9, <2>1, <2>2, <2>5, <2>6, <2>7, <2>8, <2>9, <2>10, <1>d DEF Steady
<1>12. CASE ~streams
  <2>1. n = g
    BY <1>a, <1>12, LeadsNowhere DEF If
  <2> QED
    BY <1>11, <2>1
<1>13. CASE streams
  <2> DEFINE x == [streaming |-> FALSE]
             y == [streaming |-> TRUE]
             ws == <<x, y>>
  <2>1. DOMAIN x \cap TunerFields = {} /\ DOMAIN y \cap TunerFields = {}
        /\ DOMAIN x = {"streaming"} /\ DOMAIN y = {"streaming"}
    BY FieldNames
  <2>2. Leads(g, Each(ws), n)
    <3> HIDE DEF ws
    <3>1. Leads(g, Each(us), n)
      BY <1>a, <1>13 DEF If
    <3> QED
      BY <3>1 DEF ws, us
  <2> HIDE DEF x, y
  <2>3. Script(ws) /\ Len(ws) = 2 /\ ws[1] = x /\ ws[2] = y
    BY ScriptTuples
  <2> HIDE DEF ws
  <2>4. PICK h : h[0] = g /\ h[Len(ws)] = n /\ \A i \in 1..Len(ws) : h[i] = Go(h[i - 1], Radio(ws[i]))
    <3>1. Script(ws)
      BY <2>3
    <3> QED
      BY <2>2, <3>1, LeadsEach
  <2>5. h[1] = Go(g, Radio(x)) /\ n = Go(h[1], Radio(y))
    BY <2>3, <2>4
  <2>6. \A w : Radio(w).to = "radio" /\ Radio(w).set = w
    BY DEF Radio
  <2>7. Wrote(g, x, h[1])
    BY <1>11, <2>1, <2>5, <2>6, GoMirrors DEF Steady
  <2>8. Wrote(h[1], y, n)
    BY <2>1, <2>5, <2>6, <2>7, GoMirrors DEF Wrote
  <2>9. /\ Mirrored(n) /\ \A f \in Flags : n.driver[f] = g.driver[f]
        /\ \A f \in ChipFields : f # "streaming" => n.chip[f] = g.chip[f]
    BY <2>1, <2>7, <2>8 DEF Wrote
  <2> QED
    BY <1>11, <2>9, SteadyKin
<1> QED
  BY <1>12, <1>13

\* The script of the receive path.
LEMMA ScriptPath ==
  ASSUME NEW c, Direct(c) \in BOOLEAN
  PROVE  Script(Path(c))
<1> DEFINE xs == <<[adc |-> "both"], [spectrum |-> 0], [branch |-> c.sampling],
                   [agc |-> IF c.gain = AutoGain THEN 37 ELSE 5]>>
           ys == <<[adc |-> "tuner"], [spectrum |-> 1], [branch |-> "I"], [agc |-> 5]>>
           s == SetGain(c.gain)
<1>1. Path(c) = IF Direct(c) THEN Each(xs) ELSE Each(ys) \o s
  BY Zenon DEF Path
<1>2. Script(xs) /\ Script(ys) /\ Script(s)
  BY ScriptTuples, ScriptSetGain
<1> HIDE DEF xs, ys, s
<1>3. Script(Each(xs)) /\ Script(Each(ys) \o s)
  BY <1>2, ScriptEach, ScriptConcat
<1> QED
  BY <1>1, <1>3

\* The script of Tuner::tune.
LEMMA ScriptTune ==
  ASSUME NEW c, NEW remembered, NEW retry \in BOOLEAN, board.r828d \in BOOLEAN, board.v4 \in BOOLEAN
  PROVE  Script(Tune(c, remembered, retry))
<1> DEFINE xs == <<[drain |-> Drain(c)], [filter |-> Mux(c)[3]], [corner |-> Mux(c)[4]]>>
           x == Each(xs)
           y == SetPll(Plan(Lo(c), c.ppm), retry)
           es == <<[filter |-> 64], [corner |-> 0]>>
           e == Each(es)
           new == remembered # Input(c)
           k == <<Know([input |-> Input(c)])>>
           w == Each(Switch(Input(c)))
           hf == Hf(c)
           z == If(hf, e) \o If(new, w \o k)
           r828d == board.r828d
<1>1. Tune(c, remembered, retry) = x \o y \o If(r828d, z)
  BY Zenon DEF Tune
<1>2. Script(xs) /\ Script(es) /\ Script(k) /\ Script(w) /\ Script(y)
  <2>1. Script(w)
    BY ScriptSwitch
  <2>2. Script(y)
    BY ScriptSetPll
  <2> QED
    BY <2>1, <2>2, ScriptTuples
<1>3. new \in BOOLEAN /\ hf \in BOOLEAN /\ r828d \in BOOLEAN
  BY DEF Hf
<1> HIDE DEF new, hf, r828d, y, w, k, xs, es
<1>4. Script(x) /\ Script(e)
  BY <1>2, ScriptEach
<1> HIDE DEF x, e
<1>5. Script(If(hf, e)) /\ Script(w \o k) /\ Script(x \o y)
  BY <1>2, <1>3, <1>4, ScriptIf, ScriptConcat
<1>6. Script(If(new, w \o k))
  BY <1>3, <1>5, ScriptIf
<1>7. Script(z)
  BY <1>5, <1>6, ScriptConcat
<1>8. Script(If(r828d, z))
  BY <1>3, <1>7, ScriptIf
<1> HIDE DEF z
<1>9. Script(x \o y \o If(r828d, z))
  BY <1>5, <1>8, ScriptConcat
<1> QED
  BY <1>1, <1>9

\* A configuration that comes to its end leaves the radio and the driver
\* steady, if it began with a valid configuration or reinitialized.
LEMMA ConfigureEffect ==
  ASSUME NEW c \in Configs, NEW old, NEW reinit \in BOOLEAN, NEW codes \in Codes, NEW retry \in BOOLEAN,
         board \in Boards, receiving \in BOOLEAN,
         Shaped(Begin), reinit \/ Steady(old, Begin)
  PROVE  /\ Script(ConfigureInner(c, reinit, codes, retry))
         /\ \A n : Leads(Begin, ConfigureInner(c, reinit, codes, retry), n) => Steady(c, n)
<1> DEFINE before == IF reinit THEN Over(NewTuner, driver) ELSE driver
           opens == reinit \/ (before.direct /\ ~Direct(c))
           opened == IF opens THEN Over(Forget, before) ELSE before
           input == opened.input
           direct == before.direct
           rests == Direct(c) /\ ~direct
           streams == reinit /\ receiving
           tunes == ~Direct(c)
           b1 == If(reinit, Reset)
           b3 == If(opens, Open(codes))
           b4 == If(rests, Standby)
           p == Path(c)
           k == <<Know([direct |-> Direct(c)])>>
           ys == <<[ppm |-> c.ppm], [rate |-> c.rate]>>
           y == Each(ys)
           t == If(tunes, Tune(c, input, retry))
           zs == <<[if |-> Plan(IF Direct(c) THEN c.hz ELSE IF_HZ, c.ppm)],
                   [gate |-> "closed"], [bias |-> c.bias]>>
           z == Each(zs)
           us == <<[streaming |-> FALSE], [streaming |-> TRUE]>>
           u == If(streams, Each(us))
           s4 == b1 \o OpenGate \o b3 \o b4
<1>1. ConfigureInner(c, reinit, codes, retry) = s4 \o p \o k \o y \o t \o z \o u
  BY Zenon DEF ConfigureInner
<1>2. DOMAIN driver = DriverFields /\ Begin.driver = driver
  BY DEF Shaped, Begin
<1>3. direct = IF reinit THEN FALSE ELSE Begin.driver.direct
  <2> DEFINE d == driver
  <2> HIDE DEF d
  <2>1. DOMAIN d = DriverFields => Over(NewTuner, d).direct = FALSE
    <3>1. "direct" \in DriverFields
      BY FieldNames DEF Flags
    <3> QED
      BY <3>1, OverAt, NewTunerFlags
  <2> QED
    BY <1>2, <2>1 DEF d
<1>4. direct \in BOOLEAN
  <2>1. CASE reinit
    BY <1>3, <2>1
  <2>2. CASE ~reinit
    <3>1. Begin.driver.direct = Direct(old)
      BY <2>2 DEF Steady
    <3> QED
      BY <1>3, <2>2, <3>1, DirectBoolean
  <2> QED
    BY <2>1, <2>2
<1>5. (opens <=> reinit \/ (direct /\ ~Direct(c))) /\ opens \in BOOLEAN
  OBVIOUS
<1>6. input = IF opens THEN NoInput ELSE Begin.driver.input
  <2>1. "input" \in DriverFields
    BY FieldNames DEF Flags
  <2>2. DOMAIN before = DriverFields
    <3> DEFINE d == driver
    <3> HIDE DEF d
    <3>1. DOMAIN Over(NewTuner, d) = DOMAIN d
      BY OverAt
    <3> QED
      BY <1>2, <3>1 DEF d
  <2>3. ~opens => before = driver
    OBVIOUS
  <2> HIDE DEF before, opens
  <2>4. DOMAIN Forget = {"input"} /\ Forget["input"] = NoInput
    BY DEF Forget
  <2>5. Over(Forget, before)["input"] = NoInput
    BY <2>1, <2>2, <2>4, OverAt
  <2> QED
    BY <1>2, <2>3, <2>5
<1>7. rests \in BOOLEAN /\ streams \in BOOLEAN /\ tunes \in BOOLEAN
  OBVIOUS
<1>8. board.r828d \in BOOLEAN /\ board.v4 \in BOOLEAN /\ (board.v4 => board.r828d)
  BY BoardFacts
<1> HIDE DEF before, opened
<1> HIDE DEF opens, direct, input
<1>9. Script(b1) /\ Script(OpenGate) /\ Script(b3) /\ Script(b4)
  <2> HIDE DEF rests
  <2> QED
    BY <1>5, <1>7, ScriptReset, ScriptOpenGate, ScriptOpen, ScriptParts, ScriptIf
<1>10. Script(p) /\ Script(k) /\ Script(ys) /\ Script(zs) /\ Script(us)
  BY ScriptPath, DirectBoolean, ScriptTuples
<1>11. Script(t)
  <2> HIDE DEF tunes
  <2> QED
    BY <1>7, <1>8, ScriptTune, ScriptIf
<1> DEFINE first == s4
<1>12. Script(first)
  <2> HIDE DEF b1, b3, b4
  <2>1. Script(b1 \o OpenGate)
    BY <1>9, ScriptConcat
  <2>2. Script(b1 \o OpenGate \o b3)
    BY <1>9, <2>1, ScriptConcat
  <2> QED
    BY <1>9, <2>2, ScriptConcat
<1>13. Script(y) /\ Script(z) /\ Script(u)
  <2> HIDE DEF ys, zs, us, streams
  <2> QED
    BY <1>7, <1>10, ScriptEach, ScriptIf
<1>14. ConfigureInner(c, reinit, codes, retry) = first \o p \o k \o y \o t \o z \o u
  BY <1>1
<1> HIDE DEF first, p, k, y, t, z, u
<1> DEFINE c2 == first \o p
           c3 == c2 \o k
           c4 == c3 \o y
           c5 == c4 \o t
           c6 == c5 \o z
<1>15. Script(c2) /\ Script(c3) /\ Script(c4) /\ Script(c5) /\ Script(c6)
  <2>1. Script(c2)
    BY <1>10, <1>12, ScriptConcat
  <2> HIDE DEF c2
  <2>2. Script(c3)
    BY <1>10, <2>1, ScriptConcat
  <2> HIDE DEF c3
  <2>3. Script(c4)
    BY <1>13, <2>2, ScriptConcat
  <2> HIDE DEF c4
  <2>4. Script(c5)
    BY <1>11, <2>3, ScriptConcat
  <2> HIDE DEF c5
  <2>5. Script(c6)
    BY <1>13, <2>4, ScriptConcat
  <2> QED
    BY <2>1, <2>2, <2>3, <2>4, <2>5
<1>16. Script(c6 \o u) /\ ConfigureInner(c, reinit, codes, retry) = c6 \o u
  <2>1. ConfigureInner(c, reinit, codes, retry) = c6 \o u
    BY <1>14
  <2> HIDE DEF c6
  <2> QED
    BY <1>13, <1>15, <2>1, ScriptConcat
<1> SUFFICES ASSUME NEW n, Leads(Begin, ConfigureInner(c, reinit, codes, retry), n)
             PROVE  Steady(c, n)
  BY <1>16
<1>17. PICK m6 : Leads(Begin, c6, m6) /\ Leads(m6, u, n)
  <2>1. Leads(Begin, c6 \o u, n)
    BY <1>16
  <2> HIDE DEF c6
  <2> QED
    BY <1>13, <1>15, <2>1, LeadsSplit
<1>18. PICK m5 : Leads(Begin, c5, m5) /\ Leads(m5, z, m6)
  <2>1. Leads(Begin, c5 \o z, m6)
    BY <1>17
  <2> HIDE DEF c5
  <2> QED
    BY <1>13, <1>15, <2>1, LeadsSplit
<1>19. PICK m4 : Leads(Begin, c4, m4) /\ Leads(m4, t, m5)
  <2>1. Leads(Begin, c4 \o t, m5)
    BY <1>18
  <2> HIDE DEF c4
  <2> QED
    BY <1>11, <1>15, <2>1, LeadsSplit
<1>20. PICK m3 : Leads(Begin, c3, m3) /\ Leads(m3, y, m4)
  <2>1. Leads(Begin, c3 \o y, m4)
    BY <1>19
  <2> HIDE DEF c3
  <2> QED
    BY <1>13, <1>15, <2>1, LeadsSplit
<1>21. PICK m2 : Leads(Begin, c2, m2) /\ Leads(m2, k, m3)
  <2>1. Leads(Begin, c2 \o k, m3)
    BY <1>20
  <2> HIDE DEF c2
  <2> QED
    BY <1>10, <1>15, <2>1, LeadsSplit
<1>22. PICK m1 : Leads(Begin, first, m1) /\ Leads(m1, p, m2)
  BY <1>10, <1>12, <1>21, LeadsSplit
<1>23. Prepared(c, input, m1)
  <2>1. Leads(Begin, If(reinit, Reset) \o OpenGate \o If(opens, Open(codes)) \o If(rests, Standby), m1)
    BY <1>22 DEF first
  <2>2. rests <=> Direct(c) /\ ~direct
    OBVIOUS
  <2> HIDE DEF rests
  <2>3. Decides(c, reinit, opens, direct, rests, input, Begin)
    BY <1>3, <1>4, <1>5, <1>6, <1>7, <2>2 DEF Decides
  <2>4. reinit \/ Steady(old, Begin)
    OBVIOUS
  <2> QED
    BY <2>1, <2>3, <2>4, PrepareEffect
<1>24. Steady(c, n)
  <2>1. Settles(c, input, retry, streams, m1, n)
    <3> HIDE DEF streams, tunes
    <3>1. /\ Leads(m1, p, m2) /\ Leads(m2, k, m3) /\ Leads(m3, y, m4)
          /\ Leads(m4, t, m5) /\ Leads(m5, z, m6) /\ Leads(m6, u, n)
      BY <1>17, <1>18, <1>19, <1>20, <1>21, <1>22
    <3> QED
      BY <3>1, Zenon DEF Settles, p, k, y, t, z, u, tunes
  <2> HIDE DEF streams
  <2> QED
    BY <1>7, <1>23, <2>1, SettleEffect
<1> QED
  BY <1>24

-----------------------------------------------------------------------------
(* The next state of what depends on the board *)

\* As long as the board stays, so does what is computed from it.
LEMMA BoardStays ==
  ASSUME board' = board, NEW c
  PROVE  /\ Lo(c)' = Lo(c) /\ Mux(c)' = Mux(c) /\ Input(c)' = Input(c)
         /\ Hf(c)' = Hf(c) /\ Drain(c)' = Drain(c)
<1> DEFINE M(l) == LET i == CHOOSE i \in DOMAIN STANDARD_MUX :
                              /\ STANDARD_MUX[i][1] <= l
                              /\ i = Len(STANDARD_MUX) \/ STANDARD_MUX[i + 1][1] > l
                   IN  STANDARD_MUX[i]
<1>1. Lo(c)' = Lo(c)
  BY DEF Lo, Upconvert
<1>2. Mux(c) = M(Lo(c)) /\ Mux(c)' = M(Lo(c)')
  BY Zenon DEF Mux
<1> HIDE DEF M
<1>3. Mux(c)' = Mux(c)
  BY <1>1, <1>2
<1>4. Input(c)' = Input(c)
  BY DEF Input
<1>5. Hf(c)' = Hf(c)
  BY <1>4 DEF Hf
<1>6. Drain(c)' = Drain(c)
  BY <1>3 DEF Drain
<1> QED
  BY <1>1, <1>3, <1>4, <1>5, <1>6

\* And the radio stays steady.
LEMMA SteadyStays ==
  ASSUME board' = board, NEW c, NEW m, Steady(c, m)
  PROVE  Steady(c, m)'
<1>1. TuneSet(c, m.chip)' <=> TuneSet(c, m.chip)
  BY BoardStays DEF TuneSet
<1>2. Placed(Input(c), m)' <=> Placed(Input(c), m)
  BY BoardStays DEF Placed, Switch
<1> QED
  BY <1>1, <1>2, BoardStays DEF Steady

-----------------------------------------------------------------------------
(* What a script does when transfers fail *)

\* A transfer that did not fail took effect, unless the tuner was deaf.
LEMMA StepTakes ==
  ASSUME NEW m, NEW st, NEW failed \in BOOLEAN, NEW reached \in BOOLEAN, Shaped(m), st.to = "radio",
         ~failed, ~Deaf(m.chip, st.set)
  PROVE  \A f \in DOMAIN st.set \cap ChipFields : Step(m, st, failed, reached).chip[f] = st.set[f]
<1> DEFINE w == st.set
           d == m.driver
           x == Sent(w, d)
           u == m.chip
<1>1. Step(m, st, failed, reached).chip = Over(x, u)
  BY DEF Step
<1>3. DOMAIN u = ChipFields
  BY DEF Shaped
<1> HIDE DEF w, d, u
<1>a. DOMAIN x = DOMAIN w \cup Beside(w) /\ \A f \in DOMAIN w : x[f] = w[f]
  BY SentAt
<1>2. \A f \in DOMAIN w : f \in DOMAIN x /\ x[f] = w[f]
  BY <1>a
<1> HIDE DEF x
<1>4. \A f \in DOMAIN u : Over(x, u)[f] = IF f \in DOMAIN x THEN x[f] ELSE u[f]
  BY OverAt
<1> QED
  BY <1>1, <1>2, <1>3, <1>4 DEF w

\* A transfer has no effect on what it does not write, failed or not.
LEMMA StepLeaves ==
  ASSUME NEW m, NEW st, NEW failed \in BOOLEAN, NEW reached \in BOOLEAN, Shaped(m), st.to = "radio",
         NEW f \in ChipFields, f \notin DOMAIN st.set, f \notin Beside(st.set)
  PROVE  Step(m, st, failed, reached).chip[f] = m.chip[f]
<1> DEFINE w == st.set
           d == m.driver
           x == Sent(w, d)
           u == m.chip
           r == Step(m, st, failed, reached)
<1>1. r.chip = u \/ r.chip = Over(x, u)
  BY DEF Step
<1>3. f \in DOMAIN u
  BY DEF Shaped
<1>a. f \notin DOMAIN w /\ f \notin Beside(w)
  OBVIOUS
<1> HIDE DEF w, d, u, r
<1>b. DOMAIN x = DOMAIN w \cup Beside(w)
  BY SentAt
<1>2. f \notin DOMAIN x
  BY <1>a, <1>b
<1> HIDE DEF x
<1>4. \A g \in DOMAIN u : Over(x, u)[g] = IF g \in DOMAIN x THEN x[g] ELSE u[g]
  BY OverAt
<1>5. r.chip[f] = u[f]
  BY <1>1, <1>2, <1>3, <1>4
<1> QED
  BY <1>5 DEF r, u

\* Nor on what the driver remembers besides the copy.
LEMMA StepRemembers ==
  ASSUME NEW m, NEW st, NEW failed \in BOOLEAN, NEW reached \in BOOLEAN, Shaped(m), st.to = "radio",
         NEW f \in Flags
  PROVE  Step(m, st, failed, reached).driver[f] = m.driver[f]
<1> DEFINE w == st.set
           y == Kept(w)
           d == m.driver
           r == Step(m, st, failed, reached)
<1>1. r.driver = d \/ r.driver = Over(y, d)
  BY DEF Step
<1>2. DOMAIN y = DOMAIN w \cap TunerFields
  <2> HIDE DEF w
  <2> QED
    BY KeptAt
<1>3. DOMAIN d = DriverFields
  BY DEF Shaped
<1> HIDE DEF y, d, r
<1>4. \A g \in DOMAIN d : Over(y, d)[g] = IF g \in DOMAIN y THEN y[g] ELSE d[g]
  BY OverAt
<1>5. f \in DriverFields /\ f \notin TunerFields
  BY FieldNames
<1>6. r.driver[f] = d[f]
  BY <1>1, <1>2, <1>3, <1>4, <1>5
<1> QED
  BY <1>6 DEF r, d

\* A field that no transfer from i on writes keeps its value.
LEMMA TraceStays ==
  ASSUME NEW h, NEW m, NEW s, NEW F, NEW R, NEW n \in Nat, Trace(h, m, s, F, R, n), Shaped(m),
         \A k \in 1..n : s[k].to = "radio",
         NEW f \in ChipFields, NEW i \in 0..n, NEW j \in i..n,
         \A k \in (i + 1)..j : f \notin DOMAIN s[k].set /\ f \notin Beside(s[k].set)
  PROVE  h[j].chip[f] = h[i].chip[f]
<1>1. \A k \in 1..n : h[k] = Step(h[k - 1], s[k], k \in F, k \in R)
  BY TraceSteps
<1>2. \A k \in 0..n : Shaped(h[k])
  BY TraceShaped
<1> DEFINE S == {k \in Nat : i <= k /\ k <= j => h[k].chip[f] = h[i].chip[f]}
<1>3. 0 \in S
  OBVIOUS
<1>4. ASSUME NEW k \in Nat, k \in S
      PROVE  k + 1 \in S
  <2> SUFFICES ASSUME i <= k + 1, k + 1 <= j
               PROVE  h[k + 1].chip[f] = h[i].chip[f]
    OBVIOUS
  <2>1. CASE i = k + 1
    BY <2>1
  <2>2. CASE i # k + 1
    <3> DEFINE l == k + 1
               failed == l \in F
               reached == l \in R
    <3>1. l \in 1..n /\ l - 1 = k /\ k \in 0..n /\ l \in (i + 1)..j /\ i <= k /\ k <= j
      BY <2>2
    <3>2. failed \in BOOLEAN /\ reached \in BOOLEAN
      OBVIOUS
    <3>3. h[k].chip[f] = h[i].chip[f]
      BY <1>4, <3>1
    <3> HIDE DEF l
    <3>4. h[l] = Step(h[k], s[l], failed, reached)
      BY <1>1, <3>1
    <3> HIDE DEF failed, reached
    <3>5. Shaped(h[k]) /\ s[l].to = "radio" /\ f \notin DOMAIN s[l].set /\ f \notin Beside(s[l].set)
      BY <1>2, <3>1
    <3>6. h[l].chip[f] = h[k].chip[f]
      <4> DEFINE o == h[k]
                 st == s[l]
      <4>1. Shaped(o) /\ st.to = "radio" /\ f \in ChipFields /\ f \notin DOMAIN st.set
        BY <3>5
      <4>2. f \notin Beside(st.set)
        BY <3>5
      <4>3. h[l] = Step(o, st, failed, reached)
        BY <3>4
      <4> HIDE DEF o, st
      <4>4. Step(o, st, failed, reached).chip[f] = o.chip[f]
        BY <3>2, <4>1, <4>2, StepLeaves
      <4> QED
        BY <4>3, <4>4 DEF o
    <3> QED
      BY <3>3, <3>6 DEF l
  <2> QED
    BY <2>1, <2>2
<1> HIDE DEF S
<1>5. \A k \in Nat : k \in S
  BY <1>3, <1>4, InductionOn
<1> QED
  BY <1>5 DEF S

\* Transfers leave what the driver remembers besides the copy.
LEMMA TraceRemembers ==
  ASSUME NEW h, NEW m, NEW s, NEW F, NEW R, NEW n \in Nat, Trace(h, m, s, F, R, n), Shaped(m),
         \A k \in 1..n : s[k].to = "radio", NEW f \in Flags
  PROVE  h[n].driver[f] = m.driver[f]
<1>1. h[0] = m /\ \A k \in 1..n : h[k] = Step(h[k - 1], s[k], k \in F, k \in R)
  BY TraceSteps
<1>2. \A k \in 0..n : Shaped(h[k])
  BY TraceShaped
<1> DEFINE S == {k \in Nat : k <= n => h[k].driver[f] = m.driver[f]}
<1>3. 0 \in S
  BY <1>1
<1>4. ASSUME NEW k \in Nat, k \in S
      PROVE  k + 1 \in S
  <2> SUFFICES ASSUME k + 1 <= n
               PROVE  h[k + 1].driver[f] = m.driver[f]
    OBVIOUS
  <2> DEFINE l == k + 1
             failed == l \in F
             reached == l \in R
  <2>1. l \in 1..n /\ l - 1 = k /\ k \in 0..n /\ k <= n
    OBVIOUS
  <2>2. failed \in BOOLEAN /\ reached \in BOOLEAN
    OBVIOUS
  <2>3. h[k].driver[f] = m.driver[f]
    BY <1>4, <2>1
  <2> HIDE DEF l
  <2>4. h[l] = Step(h[k], s[l], failed, reached)
    BY <1>1, <2>1
  <2> HIDE DEF failed, reached
  <2>5. Shaped(h[k]) /\ s[l].to = "radio"
    BY <1>2, <2>1
  <2>6. h[l].driver[f] = h[k].driver[f]
    <3>1. f \in Flags
      OBVIOUS
    <3> QED
      BY <2>2, <2>4, <2>5, <3>1, StepRemembers
  <2> QED
    BY <2>3, <2>6 DEF l
<1> HIDE DEF S
<1>5. \A k \in Nat : k \in S
  BY <1>3, <1>4, InductionOn
<1> QED
  BY <1>5 DEF S

\* What transfer k wrote is there at the end, if it did not fail, the tuner
\* was not deaf, and nothing wrote it later.
LEMMA TraceHolds ==
  ASSUME NEW h, NEW m, NEW s, NEW F, NEW R, NEW n \in Nat, Trace(h, m, s, F, R, n), Shaped(m),
         \A k \in 1..n : s[k].to = "radio",
         NEW k \in 1..n, k \notin F, ~Deaf(h[k - 1].chip, s[k].set),
         NEW f \in ChipFields, f \in DOMAIN s[k].set,
         NEW j \in k..n,
         \A i \in (k + 1)..j : f \notin DOMAIN s[i].set /\ f \notin Beside(s[i].set)
  PROVE  h[j].chip[f] = s[k].set[f]
<1> DEFINE reached == k \in R
           failed == k \in F
<1>1. h[k] = Step(h[k - 1], s[k], failed, reached)
  BY TraceSteps
<1>2. reached \in BOOLEAN /\ failed \in BOOLEAN /\ ~failed
  OBVIOUS
<1>3. Shaped(h[k - 1]) /\ s[k].to = "radio"
  BY TraceShaped
<1> HIDE DEF reached, failed
<1>4. h[k].chip[f] = s[k].set[f]
  <2>1. ~Deaf(h[k - 1].chip, s[k].set) /\ f \in DOMAIN s[k].set \cap ChipFields
    OBVIOUS
  <2> QED
    BY <1>1, <1>2, <1>3, <2>1, StepTakes
<1>5. k \in 0..n
  OBVIOUS
<1>6. h[j].chip[f] = h[k].chip[f]
  BY <1>5, TraceStays
<1> QED
  BY <1>4, <1>6

-----------------------------------------------------------------------------
(* Hardware::shutdown *)

\* How long the shutdown is.
Length(gated) == IF driver.known THEN IF gated THEN 11 ELSE 5 ELSE 4

\* What a script of length n writes, in which order, if it is a shutdown.
Shuts(s, n) ==
  /\ Script(s) /\ Len(s) = n /\ n \in {4, 5, 11}
  /\ s[1] = Tried([streaming |-> FALSE]) /\ s[2] = Tried([bias |-> FALSE])
  /\ n # 4 => s[3] = Tried([gate |-> "open"])
  /\ n = 11 => \A k \in 1..6 : s[3 + k] = Tried(RestRow(k))
  /\ s[n - 1] = Tried([gate |-> "closed"]) /\ s[n] = Tried([clock |-> FALSE])

\* ShutdownScript does.
LEMMA ShutdownForm ==
  ASSUME NEW gated \in BOOLEAN
  PROVE  Shuts(ShutdownScript(gated), Length(gated))
<1> DEFINE w1 == [streaming |-> FALSE]
           w2 == [bias |-> FALSE]
           w3 == [gate |-> "open"]
           w4 == [gate |-> "closed"]
           w5 == [clock |-> FALSE]
           as == <<w1, w2>>
           gs == <<w3>>
           zs == <<w4, w5>>
           a == Each(as)
           g == Each(gs)
           z == Each(zs)
           known == driver.known
           b == If(gated, Standby)
           mid == If(known, g \o b)
           sh == a \o mid \o z
           s == Tolerant(sh)
           n == Length(gated)
<1>1. ShutdownScript(gated) = s
  BY Zenon DEF ShutdownScript
<1>2. /\ Script(as) /\ Len(as) = 2 /\ as[1] = w1 /\ as[2] = w2
      /\ Script(gs) /\ Len(gs) = 1 /\ gs[1] = w3
      /\ Script(zs) /\ Len(zs) = 2 /\ zs[1] = w4 /\ zs[2] = w5
  <2> HIDE DEF w1, w2, w3, w4, w5
  <2> QED
    BY ScriptTuples
<1> HIDE DEF w1, w2, w3, w4, w5, as, gs, zs
<1>3. /\ Script(a) /\ Len(a) = 2 /\ a[1] = Radio(w1) /\ a[2] = Radio(w2)
      /\ Script(g) /\ Len(g) = 1 /\ g[1] = Radio(w3)
      /\ Script(z) /\ Len(z) = 2 /\ z[1] = Radio(w4) /\ z[2] = Radio(w5)
  <2>1. Script(a) /\ Len(a) = Len(as) /\ \A i \in 1..Len(as) : a[i] = Radio(as[i])
    BY <1>2, ScriptEach
  <2>2. Script(g) /\ Len(g) = Len(gs) /\ \A i \in 1..Len(gs) : g[i] = Radio(gs[i])
    BY <1>2, ScriptEach
  <2>3. Script(z) /\ Len(z) = Len(zs) /\ \A i \in 1..Len(zs) : z[i] = Radio(zs[i])
    BY <1>2, ScriptEach
  <2> HIDE DEF a, g, z
  <2>4. 1 \in 1..Len(as) /\ 2 \in 1..Len(as) /\ 1 \in 1..Len(gs) /\ 1 \in 1..Len(zs) /\ 2 \in 1..Len(zs)
    BY <1>2
  <2>5. /\ a[1] = Radio(as[1]) /\ a[2] = Radio(as[2]) /\ g[1] = Radio(gs[1])
        /\ z[1] = Radio(zs[1]) /\ z[2] = Radio(zs[2])
    BY <2>1, <2>2, <2>3, <2>4
  <2> QED
    BY <1>2, <2>1, <2>2, <2>3, <2>5, Zenon
<1>4. /\ Script(b)
      /\ gated => Len(b) = 6 /\ \A k \in 1..6 : b[k] = Tried(RestRow(k))
      /\ ~gated => Len(b) = 0
  <2>1. Script(<<>>) /\ Len(<<>>) = 0
    BY ScriptTuples
  <2> QED
    BY <2>1, StandbyForm DEF If
<1> HIDE DEF a, g, z, b
<1>5. /\ Script(g \o b) /\ Len(g \o b) = 1 + Len(b) /\ (g \o b)[1] = Radio(w3)
      /\ \A i \in 1..Len(b) : (g \o b)[1 + i] = b[i]
  <2>1. Script(g) /\ Script(b)
    BY <1>3, <1>4
  <2>2. /\ Script(g \o b) /\ Len(g \o b) = Len(g) + Len(b)
        /\ \A i \in 1..Len(g) : (g \o b)[i] = g[i]
        /\ \A i \in 1..Len(b) : (g \o b)[Len(g) + i] = b[i]
    BY <2>1, ScriptConcat
  <2> QED
    BY <1>3, <2>2
<1>6. /\ Script(mid)
      /\ known => mid = g \o b
      /\ ~known => Len(mid) = 0
  <2>1. Script(<<>>) /\ Len(<<>>) = 0
    BY ScriptTuples
  <2> QED
    BY <1>5, <2>1 DEF If
<1> HIDE DEF known, mid
<1>7. /\ Script(a \o mid) /\ Len(a \o mid) = 2 + Len(mid)
      /\ (a \o mid)[1] = Radio(w1) /\ (a \o mid)[2] = Radio(w2)
      /\ \A i \in 1..Len(mid) : (a \o mid)[2 + i] = mid[i]
  <2>1. Script(a) /\ Script(mid)
    BY <1>3, <1>6
  <2>2. /\ Script(a \o mid) /\ Len(a \o mid) = Len(a) + Len(mid)
        /\ \A i \in 1..Len(a) : (a \o mid)[i] = a[i]
        /\ \A i \in 1..Len(mid) : (a \o mid)[Len(a) + i] = mid[i]
    BY <2>1, ScriptConcat
  <2> QED
    BY <1>3, <2>2
<1> DEFINE c == a \o mid
<1> HIDE DEF c
<1>8. /\ Script(sh) /\ Len(sh) = Len(c) + 2
      /\ \A i \in 1..Len(c) : sh[i] = c[i]
      /\ sh[Len(c) + 1] = Radio(w4) /\ sh[Len(c) + 2] = Radio(w5)
  <2>1. Script(c) /\ Script(z)
    BY <1>3, <1>7 DEF c
  <2>2. /\ Script(c \o z) /\ Len(c \o z) = Len(c) + Len(z)
        /\ \A i \in 1..Len(c) : (c \o z)[i] = c[i]
        /\ \A i \in 1..Len(z) : (c \o z)[Len(c) + i] = z[i]
    BY <2>1, ScriptConcat
  <2>3. sh = c \o z
    BY DEF c
  <2> HIDE DEF sh
  <2> QED
    BY <1>3, <2>2, <2>3
<1>9. /\ Script(s) /\ Len(s) = Len(sh)
      /\ \A i \in 1..Len(sh) : s[i] = Trying(sh[i])
  <2> HIDE DEF sh
  <2> QED
    BY <1>8, ScriptTolerant
<1> HIDE DEF sh, s
<1>10. Len(mid) \in Nat /\ Len(c) = 2 + Len(mid)
  BY <1>6, <1>7, ScriptLen DEF c
<1>11. (n = 4 /\ ~known) \/ (n = 5 /\ known /\ ~gated) \/ (n = 11 /\ known /\ gated)
  BY DEF Length, known
<1> HIDE DEF n
<1>a. n = 4 + Len(mid)
  <2>1. known => Len(mid) = 1 + Len(b)
    BY <1>5, <1>6
  <2>2. (gated => Len(b) = 6) /\ (~gated => Len(b) = 0)
    BY <1>4
  <2>3. ~known => Len(mid) = 0
    BY <1>6
  <2>4. CASE n = 4 /\ ~known
    BY <2>3, <2>4
  <2>5. CASE n = 5 /\ known /\ ~gated
    <3>1. Len(b) = 0 /\ Len(mid) = 1 + Len(b)
      BY <2>1, <2>2, <2>5
    <3> QED
      BY <2>5, <3>1
  <2>6. CASE n = 11 /\ known /\ gated
    <3>1. Len(b) = 6 /\ Len(mid) = 1 + Len(b)
      BY <2>1, <2>2, <2>6
    <3> QED
      BY <2>6, <3>1
  <2> QED
    BY <1>11, <2>4, <2>5, <2>6
<1>b. Len(mid) = n - 4 /\ Len(c) = n - 2 /\ Len(sh) = n /\ Len(s) = n
  <2>1. n \in Int
    BY <1>11
  <2>2. Len(sh) = Len(c) + 2 /\ Len(s) = Len(sh)
    BY <1>8, <1>9
  <2> QED
    BY <1>10, <1>a, <2>1, <2>2
<1>c. n # 4 => known /\ n \in {5, 11}
  BY <1>11
<1>d. n = 11 => known /\ gated /\ Len(b) = 6
  BY <1>4, <1>11
<1>e. n \in {4, 5, 11}
  BY <1>11
<1>12. s[1] = Tried(w1) /\ s[2] = Tried(w2)
  <2>1. 1 \in 1..Len(c) /\ 2 \in 1..Len(c) /\ 1 \in 1..Len(sh) /\ 2 \in 1..Len(sh)
    BY <1>8, <1>10
  <2>2. sh[1] = Radio(w1) /\ sh[2] = Radio(w2)
    BY <1>7, <1>8, <2>1 DEF c
  <2> QED
    BY <1>9, <2>1, <2>2, TriedWrites
<1>13. s[n - 1] = Tried(w4) /\ s[n] = Tried(w5)
  <2>1. /\ n - 1 = Len(c) + 1 /\ n = Len(c) + 2
        /\ Len(c) + 1 \in 1..Len(sh) /\ Len(c) + 2 \in 1..Len(sh)
    BY <1>b, <1>e
  <2> QED
    BY <1>8, <1>9, <2>1, TriedWrites
<1>14. n # 4 => s[3] = Tried(w3)
  <2> SUFFICES ASSUME n # 4
               PROVE  s[3] = Tried(w3)
    OBVIOUS
  <2>1. known /\ 1 \in 1..Len(mid) /\ 3 \in 1..Len(c) /\ 3 \in 1..Len(sh)
    BY <1>b, <1>c
  <2>2. mid[1] = Radio(w3)
    BY <1>5, <1>6, <2>1
  <2>3. c[3] = mid[1]
    <3>1. \A i \in 1..Len(mid) : c[2 + i] = mid[i]
      BY <1>7 DEF c
    <3>2. c[2 + 1] = mid[1]
      BY <2>1, <3>1
    <3> QED
      BY <3>2
  <2> QED
    BY <1>8, <1>9, <2>1, <2>2, <2>3, TriedWrites
<1>15. n = 11 => \A k \in 1..6 : s[3 + k] = Tried(RestRow(k))
  <2> SUFFICES ASSUME n = 11, NEW k \in 1..6
               PROVE  s[3 + k] = Tried(RestRow(k))
    OBVIOUS
  <2> DEFINE i == 1 + k
             j == 3 + k
             w == RestRow(k)
  <2>a. known /\ gated
    BY <1>d
  <2>1. /\ k \in 1..Len(b) /\ i \in 1..Len(mid) /\ j \in 1..Len(c) /\ j \in 1..Len(sh)
        /\ j = 2 + i
    <3>1. Len(b) = 6 /\ Len(mid) = 7 /\ Len(c) = 9 /\ Len(sh) = 11
      BY <1>b, <1>d
    <3> HIDE DEF w
    <3> QED
      BY <3>1
  <2>2. mid[i] = Tried(w)
    <3>1. (g \o b)[1 + k] = b[k]
      BY <1>5, <2>1
    <3> QED
      BY <1>4, <1>6, <2>a, <2>1, <3>1
  <2> HIDE DEF i, j, w
  <2>3. c[j] = mid[i]
    BY <1>7, <2>1 DEF c
  <2>4. s[j] = Trying(Tried(w))
    BY <1>8, <1>9, <2>1, <2>2, <2>3
  <2>5. s[j] = Tried(w)
    BY <2>4, TriedWrites
  <2> QED
    BY <2>5 DEF j, w
<1>16. Script(s) /\ Len(s) = n
  BY <1>9, <1>b
<1>17. Shuts(s, n)
  BY <1>e, <1>12, <1>13, <1>14, <1>15, <1>16, Zenon DEF Shuts, w1, w2, w3, w4, w5
<1> QED
  BY <1>1, <1>17 DEF n

\* A register is put to sleep with nothing of the copy sent along, and no
\* register twice.
LEMMA RestRowFits ==
  /\ \A k : /\ DOMAIN RestRow(k) = InRegister(Standbys[k]) /\ InRegister(Standbys[k]) \subseteq TunerFields
            /\ \A f \in InRegister(Standbys[k]) : RestRow(k)[f] = Asleep
            /\ Beside(RestRow(k)) = {}
  /\ \A k, l \in 1..6 : k # l => InRegister(Standbys[k]) \cap InRegister(Standbys[l]) = {}
<1>1. ASSUME NEW k
      PROVE  /\ DOMAIN RestRow(k) = InRegister(Standbys[k]) /\ InRegister(Standbys[k]) \subseteq TunerFields
             /\ \A f \in InRegister(Standbys[k]) : RestRow(k)[f] = Asleep
             /\ Beside(RestRow(k)) = {}
  <2> DEFINE w == RestRow(k)
             r == Standbys[k]
  <2>1. /\ DOMAIN w = InRegister(r) /\ InRegister(r) \subseteq TunerFields
        /\ \A f \in InRegister(r) : w[f] = Asleep
    BY DEF RestRow, InRegister
  <2> HIDE DEF w, r
  <2>2. Beside(w) = {}
    <3>1. \A f \in InRegister(r) : Neighbours[f] \subseteq InRegister(r)
      BY <2>1 DEF Neighbours, InRegister
    <3> QED
      BY <2>1, <3>1 DEF Beside
  <2> QED
    BY <2>1, <2>2 DEF w, r
<1>2. ASSUME NEW k \in 1..6, NEW l \in 1..6, k # l
      PROVE  InRegister(Standbys[k]) \cap InRegister(Standbys[l]) = {}
  <2>1. Standbys[k] # Standbys[l]
    BY <1>2 DEF Standbys
  <2> QED
    BY <2>1 DEF InRegister
<1> QED
  BY <1>1, <1>2

\* What transfer i of a shutdown of length n writes.
Touched(n, i) ==
  IF i = 1 THEN {"streaming"} ELSE IF i = 2 THEN {"bias"} ELSE IF i = n THEN {"clock"}
  ELSE IF i = 3 \/ i = n - 1 THEN {"gate"} ELSE InRegister(Standbys[i - 3])

\* A write that is no tuner's sends nothing of the copy along.
LEMMA TriedPlain ==
  ASSUME NEW w, DOMAIN w \cap TunerFields = {}
  PROVE  Tried(w).to = "radio" /\ Tried(w).tolerant = TRUE /\ Tried(w).set = w /\ Beside(w) = {}
<1>1. Beside(w) = {}
  BY SentAt
<1> QED
  BY <1>1 DEF Tried

\* All of a shutdown's transfers are tried, and nothing is sent along.
LEMMA ShutsTouch ==
  ASSUME NEW s, NEW n, Shuts(s, n), NEW i \in 1..n
  PROVE  /\ s[i].to = "radio" /\ s[i].tolerant = TRUE
         /\ Beside(s[i].set) = {} /\ DOMAIN s[i].set = Touched(n, i)
<1> DEFINE w1 == [streaming |-> FALSE]
           w2 == [bias |-> FALSE]
           w3 == [gate |-> "open"]
           w4 == [gate |-> "closed"]
           w5 == [clock |-> FALSE]
<1>1. /\ n \in {4, 5, 11} /\ s[1] = Tried(w1) /\ s[2] = Tried(w2) /\ (n # 4 => s[3] = Tried(w3))
      /\ n = 11 => \A k \in 1..6 : s[3 + k] = Tried(RestRow(k))
      /\ s[n - 1] = Tried(w4) /\ s[n] = Tried(w5)
  BY Zenon DEF Shuts
<1>2. /\ DOMAIN w1 = {"streaming"} /\ DOMAIN w2 = {"bias"} /\ DOMAIN w3 = {"gate"}
      /\ DOMAIN w4 = {"gate"} /\ DOMAIN w5 = {"clock"}
  OBVIOUS
<1> HIDE DEF w1, w2, w3, w4, w5
<1>3. /\ DOMAIN w1 \cap TunerFields = {} /\ DOMAIN w2 \cap TunerFields = {} /\ DOMAIN w3 \cap TunerFields = {}
      /\ DOMAIN w4 \cap TunerFields = {} /\ DOMAIN w5 \cap TunerFields = {}
  BY <1>2, FieldNames
<1> DEFINE Good(st, D) == st.to = "radio" /\ st.tolerant = TRUE /\ Beside(st.set) = {} /\ DOMAIN st.set = D
<1>4. \A w : DOMAIN w \cap TunerFields = {} => Good(Tried(w), DOMAIN w)
  BY TriedPlain
<1>5. \A k : Good(Tried(RestRow(k)), InRegister(Standbys[k]))
  BY RestRowFits DEF Tried
<1> HIDE DEF Good
<1>6. /\ Good(s[1], {"streaming"}) /\ Good(s[2], {"bias"})
      /\ n # 4 => Good(s[3], {"gate"})
      /\ Good(s[n - 1], {"gate"}) /\ Good(s[n], {"clock"})
  BY <1>1, <1>2, <1>3, <1>4
<1>7. n = 11 => \A k \in 4..9 : Good(s[k], InRegister(Standbys[k - 3]))
  <2> SUFFICES ASSUME n = 11, NEW k \in 4..9
               PROVE  Good(s[k], InRegister(Standbys[k - 3]))
    OBVIOUS
  <2> DEFINE l == k - 3
  <2>1. l \in 1..6 /\ 3 + l = k
    OBVIOUS
  <2> HIDE DEF l
  <2>2. s[k] = Tried(RestRow(l))
    BY <1>1, <2>1
  <2>3. Good(s[k], InRegister(Standbys[l]))
    BY <1>5, <2>2
  <2> QED
    BY <2>3 DEF l
<1>8. Good(s[i], Touched(n, i))
  <2>1. CASE i = 1
    BY <1>6, <2>1 DEF Touched
  <2>2. CASE i = 2
    BY <1>6, <2>2 DEF Touched
  <2>3. CASE i = n
    BY <1>1, <1>6, <2>3 DEF Touched
  <2>4. CASE i = n - 1
    BY <1>1, <1>6, <2>4 DEF Touched
  <2>5. CASE i = 3 /\ n # 4
    BY <1>1, <1>6, <2>5 DEF Touched
  <2>6. CASE n = 11 /\ i \in 4..9
    BY <1>7, <2>6 DEF Touched
  <2>7. i = 1 \/ i = 2 \/ i = n \/ i = n - 1 \/ (i = 3 /\ n # 4) \/ (n = 11 /\ i \in 4..9)
    BY <1>1
  <2> QED
    BY <2>1, <2>2, <2>3, <2>4, <2>5, <2>6, <2>7
<1> QED
  BY <1>8 DEF Good

\* What was switched off when transfers F of a shutdown failed.
OffUnless(s, n, F, m) ==
  /\ 1 \notin F => m.chip.streaming = FALSE
  /\ 2 \notin F => m.chip.bias = FALSE
  /\ n - 1 \notin F => m.chip.gate = "closed"
  /\ n \notin F => m.chip.clock = FALSE
  /\ n = 11 /\ 3 \notin F =>
       \A k \in 1..6 : 3 + k \notin F => \A f \in InRegister(Standbys[k]) : m.chip[f] = Asleep

\* Each part is off whose own transfer did not fail.
LEMMA ShutdownEffect ==
  ASSUME NEW s, NEW n, Shuts(s, n), NEW m, Shaped(m), NEW h, NEW F, NEW R, Trace(h, m, s, F, R, n)
  PROVE  OffUnless(s, n, F, h[n])
<1>1. n \in {4, 5, 11} /\ n \in Nat
  BY DEF Shuts
<1> DEFINE w1 == [streaming |-> FALSE]
           w2 == [bias |-> FALSE]
           w3 == [gate |-> "open"]
           w4 == [gate |-> "closed"]
           w5 == [clock |-> FALSE]
<1>2. /\ s[1] = Tried(w1) /\ s[2] = Tried(w2) /\ (n # 4 => s[3] = Tried(w3))
      /\ n = 11 => \A k \in 1..6 : s[3 + k] = Tried(RestRow(k))
      /\ s[n - 1] = Tried(w4) /\ s[n] = Tried(w5)
  BY Zenon DEF Shuts
<1>3. w1["streaming"] = FALSE /\ w2["bias"] = FALSE /\ w3["gate"] = "open" /\ w4["gate"] = "closed"
      /\ w5["clock"] = FALSE
  OBVIOUS
<1> HIDE DEF w1, w2, w3, w4, w5
<1>4. s[1].set = w1 /\ s[2].set = w2 /\ (n # 4 => s[3].set = w3) /\ s[n - 1].set = w4 /\ s[n].set = w5
      /\ (n = 11 => \A k \in 1..6 : s[3 + k].set = RestRow(k))
  BY <1>2 DEF Tried
<1>5. \A i \in 1..n : s[i].to = "radio" /\ Beside(s[i].set) = {} /\ DOMAIN s[i].set = Touched(n, i)
  BY ShutsTouch
<1>6. \A k : InRegister(Standbys[k]) \subseteq TunerFields
  BY RestRowFits
<1>7. {"streaming", "bias", "gate", "clock"} \cap TunerFields = {}
      /\ {"streaming", "bias", "gate", "clock"} \subseteq ChipFields
  BY FieldNames
<1> DEFINE Last(f, i) == \A k \in (i + 1)..n : f \notin Touched(n, k)
<1>8. /\ Last("streaming", 1) /\ Last("bias", 2) /\ Last("gate", n - 1) /\ Last("clock", n)
  BY <1>1, <1>6, <1>7 DEF Touched
<1>9. ASSUME NEW i \in 1..n, i \notin F, ~Deaf(h[i - 1].chip, s[i].set), NEW f \in Touched(n, i) \cap ChipFields,
             NEW j \in i..n, \A k \in (i + 1)..j : f \notin Touched(n, k)
      PROVE  h[j].chip[f] = s[i].set[f]
  <2>1. \A k \in (i + 1)..j : f \notin DOMAIN s[k].set /\ f \notin Beside(s[k].set)
    BY <1>1, <1>5, <1>9
  <2>2. f \in ChipFields /\ f \in DOMAIN s[i].set
    BY <1>5, <1>9
  <2>3. \A k \in 1..n : s[k].to = "radio"
    BY <1>5
  <2>4. i \notin F /\ ~Deaf(h[i - 1].chip, s[i].set)
    BY <1>9
  <2> QED
    BY <1>1, <2>1, <2>2, <2>3, <2>4, TraceHolds
<1>10. \A i \in 1..n : i \in {1, 2, n - 1, n} \/ (i = 3 /\ n # 4) => ~Deaf(h[i - 1].chip, s[i].set)
  <2>1. \A i \in 1..n : i \in {1, 2, n - 1, n} \/ (i = 3 /\ n # 4) => DOMAIN s[i].set \cap TunerFields = {}
    BY <1>1, <1>5, <1>7 DEF Touched
  <2> QED
    BY <2>1 DEF Deaf
<1> HIDE DEF Last
<1>11. ASSUME NEW i \in 1..n, i \notin F, ~Deaf(h[i - 1].chip, s[i].set), NEW f \in Touched(n, i) \cap ChipFields,
              Last(f, i)
       PROVE  h[n].chip[f] = s[i].set[f]
  <2>1. n \in i..n /\ \A k \in (i + 1)..n : f \notin Touched(n, k)
    BY <1>1, <1>11 DEF Last
  <2> QED
    BY <1>9, <1>11, <2>1
<1>12. /\ "streaming" \in Touched(n, 1) /\ "bias" \in Touched(n, 2) /\ "gate" \in Touched(n, n - 1)
       /\ "clock" \in Touched(n, n) /\ (n # 4 => "gate" \in Touched(n, 3))
       /\ 1 \in 1..n /\ 2 \in 1..n /\ n - 1 \in 1..n /\ n \in 1..n /\ 3 \in 1..n
  BY <1>1 DEF Touched
<1>13. 1 \notin F => h[n].chip.streaming = FALSE
  BY <1>3, <1>4, <1>7, <1>8, <1>10, <1>11, <1>12
<1>14. 2 \notin F => h[n].chip.bias = FALSE
  BY <1>3, <1>4, <1>7, <1>8, <1>10, <1>11, <1>12
<1>15. n - 1 \notin F => h[n].chip.gate = "closed"
  BY <1>3, <1>4, <1>7, <1>8, <1>10, <1>11, <1>12
<1>16. n \notin F => h[n].chip.clock = FALSE
  BY <1>3, <1>4, <1>7, <1>8, <1>10, <1>11, <1>12
<1>17. ASSUME n = 11, 3 \notin F, NEW k \in 1..6, 3 + k \notin F, NEW f \in InRegister(Standbys[k])
       PROVE  h[n].chip[f] = Asleep
  <2> DEFINE i == 3 + k
             g == "gate"
  <2>1. i \in 4..9 /\ i \in 1..n /\ i - 1 \in 3..8 /\ i - 1 \in 3..n /\ i - 3 = k
    BY <1>17
  <2>a. g \notin TunerFields /\ g \in Touched(n, 3) \cap ChipFields
    BY <1>7, <1>12, <1>17
  <2>2. s[i].set = RestRow(k) /\ DOMAIN RestRow(k) = InRegister(Standbys[k]) /\ RestRow(k)[f] = Asleep
    BY <1>4, <1>17, RestRowFits
  <2>b. i \notin F
    BY <1>17
  <2>c. \A l \in 4..9 : Touched(n, l) = InRegister(Standbys[l - 3])
    BY <1>17 DEF Touched
  <2> HIDE DEF g, i
  <2>3. h[i - 1].chip[g] = "open"
    <3>1. \A l \in (3 + 1)..(i - 1) : g \notin Touched(n, l)
      BY <1>6, <2>1, <2>a, <2>c
    <3>2. 3 \in 1..n /\ 3 \notin F /\ ~Deaf(h[3 - 1].chip, s[3].set)
      BY <1>10, <1>12, <1>17
    <3>3. h[i - 1].chip[g] = s[3].set[g]
      BY <1>9, <2>1, <2>a, <3>1, <3>2
    <3> QED
      BY <1>3, <1>4, <1>17, <3>3 DEF g
  <2>4. ~Deaf(h[i - 1].chip, s[i].set)
    BY <2>3 DEF Deaf, g
  <2>5. f \in Touched(n, i) \cap ChipFields
    BY <1>6, <2>1, <2>c, <1>17, FieldNames
  <2>6. Last(f, i)
    <3> SUFFICES ASSUME NEW l \in (i + 1)..n
                 PROVE  f \notin Touched(n, l)
      BY DEF Last
    <3>1. CASE l \in 4..9
      <4>1. l - 3 \in 1..6 /\ l - 3 # k
        BY <2>1, <3>1
      <4>2. InRegister(Standbys[k]) \cap InRegister(Standbys[l - 3]) = {}
        BY <4>1, RestRowFits
      <4> QED
        BY <1>17, <2>c, <3>1, <4>2
    <3>2. CASE l \in 10..11
      <4>1. Touched(n, l) \subseteq {"gate", "clock"}
        BY <1>17, <3>2 DEF Touched
      <4> QED
        BY <1>6, <1>7, <1>17, <4>1
    <3>3. l \in 4..9 \/ l \in 10..11
      BY <1>17, <2>1
    <3> QED
      BY <3>1, <3>2, <3>3
  <2> QED
    BY <1>11, <2>1, <2>2, <2>4, <2>5, <2>6, <2>b
<1> QED
  BY <1>13, <1>14, <1>15, <1>16, <1>17 DEF OffUnless

-----------------------------------------------------------------------------
(* The inductive invariant *)

\* The settings of a configuration that may be relied on are in effect, and
\* the driver knows the radio; after a shutdown nothing is relied on.
HardwareInv ==
  /\ board \in Boards
  /\ valid \in BOOLEAN /\ receiving \in BOOLEAN
  /\ device \in {"Open", "Closing", "Closed"}
  /\ Shaped(Begin)
  /\ Ready => requested \in Configs /\ Steady(requested, Begin)
  /\ outcome.call = "shutdown" => device # "Open"
  /\ GateClosedOnReturn
  /\ PartsOffUnlessFailed

\* It holds of a radio as another program left it.
LEMMA HardwareInit ==
  Init => HardwareInv
<1> SUFFICES ASSUME Init
             PROVE  HardwareInv
  OBVIOUS
<1>1. PICK on \in BOOLEAN : chip = Left(on)
  BY DEF Init
<1>2. DOMAIN chip = ChipFields
  BY <1>1, OverAt DEF Left
<1>3. DOMAIN driver = DriverFields
  <2>1. driver = Over([input |-> NoInput, known |-> FALSE, direct |-> FALSE],
                      [f \in DriverFields |-> Initial])
    BY DEF Init
  <2> QED
    BY <2>1, OverAt
<1>4. Shaped(Begin)
  BY <1>2, <1>3 DEF Shaped, Begin
<1>5. /\ board \in Boards /\ valid = FALSE /\ receiving = FALSE /\ device = "Open"
      /\ outcome.call = "none"
  BY DEF Init
<1>6. ~Ready /\ GateClosedOnReturn /\ PartsOffUnlessFailed
  BY <1>5 DEF Ready, GateClosedOnReturn, PartsOffUnlessFailed
<1> QED
  BY <1>4, <1>5, <1>6 DEF HardwareInv

\* The next radio and driver.
LEMMA BeginNext ==
  Begin' = [chip |-> chip', driver |-> driver']
BY DEF Begin

\* A configuration preserves it.
LEMMA HardwareConfigure ==
  ASSUME HardwareInv, NEW c \in Configs, Configure(c)
  PROVE  HardwareInv'
<1> DEFINE Ran(e, close, m) ==
             LET result == IF e.result = "ok" /\ close # "ok" THEN "err" ELSE e.result IN
             /\ chip' = IF Closes(e.result) /\ close # "lost" THEN [m.chip EXCEPT !.gate = "closed"]
                                                              ELSE m.chip
             /\ driver' = m.driver
             /\ valid' = (result = "ok")
             /\ outcome' = [call |-> "configure", result |-> result,
                            failed |-> IF close = "ok" THEN {} ELSE {[gate |-> "closed"]}]
             /\ failures' = Fails(result)
           Body(a) == ConfigureInner(c, ~valid, a.codes, a.retry)
<1>1. PICK a \in Replies :
        \E s \in {Body(a)} : \E cs \in {Course(s)} :
        \E e \in Ends(s) : \E close \in Closings(e) : \E m \in {Run(s, cs, e)} : Ran(e, close, m)
  BY Zenon DEF Configure
<1> DEFINE s == Body(a)
<1> HIDE DEF Ran
<1>b. PICK e \in Ends(s) : \E close \in Closings(e) : Ran(e, close, Run(s, Course(s), e))
  BY <1>1, Zenon
<1>2. PICK close \in Closings(e) : Ran(e, close, Run(s, Course(s), e))
  BY <1>b, Zenon
<1>3. requested' = c /\ board' = board /\ receiving' = receiving /\ device' = device /\ device = "Open"
  BY DEF Configure
<1>4. /\ board \in Boards /\ valid \in BOOLEAN /\ receiving \in BOOLEAN /\ Shaped(Begin)
      /\ Ready => requested \in Configs /\ Steady(requested, Begin)
  BY DEF HardwareInv
<1> DEFINE m == Run(s, Course(s), e)
           old == requested
           reinit == ~valid
           codes == a.codes
           retry == a.retry
           result == IF e.result = "ok" /\ close # "ok" THEN "err" ELSE e.result
           closes == Closes(e.result)
<1>5. /\ chip' = IF closes /\ close # "lost" THEN [m.chip EXCEPT !.gate = "closed"] ELSE m.chip
      /\ driver' = m.driver
      /\ valid' = (result = "ok")
      /\ outcome' = [call |-> "configure", result |-> result,
                     failed |-> IF close = "ok" THEN {} ELSE {[gate |-> "closed"]}]
  BY <1>2, Zenon DEF Ran
<1>6. codes \in Codes /\ retry \in BOOLEAN /\ reinit \in BOOLEAN
  BY HardwareAssumption DEF Codes
<1>7. reinit \/ Steady(old, Begin)
  BY <1>3, <1>4 DEF Ready
<1>8. s = ConfigureInner(c, reinit, codes, retry)
  OBVIOUS
<1> HIDE DEF s, old, reinit, codes, retry, closes, result
<1>9. Script(s) /\ \A n : Leads(Begin, s, n) => Steady(c, n)
  BY <1>4, <1>6, <1>7, <1>8, ConfigureEffect
<1>10. /\ IsEnd(s, e) /\ e.result \in {"ok", "err", "canceled"}
       /\ e.result = "ok" => e.failed = {} /\ e.last = Len(s)
  BY <1>2, <1>9, EndsOf
<1>11. Len(s) \in Nat
  BY <1>9, ScriptLen
<1>12. PICK h : Trace(h, Begin, s, e.failed, e.reached, e.last) /\ m = h[e.last]
  BY <1>10, <1>11, RunIsTrace
<1>13. e.last \in Nat /\ e.reached \subseteq e.failed
  BY <1>10, <1>11 DEF IsEnd
<1>14. Shaped(m)
  <2>1. \A k \in 0..e.last : Shaped(h[k])
    BY <1>4, <1>12, <1>13, TraceShaped
  <2> QED
    BY <1>12, <1>13, <2>1
<1>15. e.result = "ok" => Steady(c, m)
  <2> SUFFICES ASSUME e.result = "ok"
               PROVE  Steady(c, m)
    OBVIOUS
  <2>1. e.failed = {} /\ e.reached = {} /\ e.last = Len(s)
    BY <1>10, <1>13
  <2>2. Trace(h, Begin, s, {}, {}, Len(s)) /\ m = h[Len(s)]
    BY <1>12, <2>1
  <2> QED
    BY <1>9, <2>2 DEF Leads
<1> HIDE DEF m
<1> DEFINE u == m.chip
           v == chip'
           x == "closed"
           shut == closes /\ close # "lost"
<1>c. v = IF shut THEN [u EXCEPT !["gate"] = x] ELSE u
  BY <1>5, Zenon
<1>d. DOMAIN u = ChipFields /\ "gate" \in ChipFields
  BY <1>14, FieldNames DEF Shaped
<1> HIDE DEF u, v, x, shut
<1>e. /\ DOMAIN v = ChipFields /\ \A f \in ChipFields \ {"gate"} : v[f] = u[f]
      /\ shut => v["gate"] = x
  BY <1>c, <1>d
<1>16. DOMAIN chip' = ChipFields /\ \A f \in ChipFields \ {"gate"} : chip'[f] = m.chip[f]
  BY <1>e DEF u, v
<1>17. closes /\ close # "lost" => chip'.gate = "closed"
  BY <1>e DEF v, x, shut
<1>18. Shaped(Begin)'
  BY <1>5, <1>14, <1>16 DEF Shaped, Begin
<1>19. Ready' => requested' \in Configs /\ Steady(requested, Begin)'
  <2> SUFFICES ASSUME Ready'
               PROVE  Steady(requested, Begin)'
    BY <1>3
  <2>5. PICK n : n = Begin'
    OBVIOUS
  <2>1. result = "ok"
    BY <1>5 DEF Ready
  <2>2. e.result = "ok"
    BY <2>1 DEF result
  <2>3. Steady(c, m)
    BY <1>15, <2>2
  <2>4. Shaped(n) /\ n.driver = m.driver /\ \A f \in ChipFields \ {"gate"} : n.chip[f] = m.chip[f]
    <3>1. n.chip = chip' /\ n.driver = driver'
      BY <2>5, BeginNext
    <3> QED
      BY <1>5, <1>14, <1>16, <3>1 DEF Shaped
  <2>6. Mirrored(n)
    <3>1. \A f \in TunerFields : f \in ChipFields \ {"gate"}
      BY FieldNames
    <3> QED
      BY <2>3, <2>4, <3>1 DEF Steady, Mirrored
  <2>7. Steady(c, n)
    BY <2>3, <2>4, <2>6, SteadyKin
  <2>8. Steady(c, n)'
    BY <1>3, <2>7, SteadyStays
  <2> QED
    BY <1>3, <2>5, <2>8
<1>20. outcome'.call = "configure" /\ outcome'.result = result
       /\ outcome'.failed = IF close = "ok" THEN {} ELSE {[gate |-> "closed"]}
  BY <1>5
<1>21. GateClosedOnReturn'
  <2> SUFFICES ASSUME result # "canceled", [gate |-> "closed"] \notin outcome'.failed
               PROVE  chip'.gate = "closed"
    BY <1>20 DEF GateClosedOnReturn
  <2>1. close = "ok" /\ closes
    BY <1>20 DEF Closes, closes, result
  <2> QED
    BY <1>17, <2>1
<1>22. PartsOffUnlessFailed'
  BY <1>20 DEF PartsOffUnlessFailed
<1>23. valid' \in BOOLEAN
  BY <1>5
<1> QED
  BY <1>3, <1>4, <1>18, <1>19, <1>20, <1>21, <1>22, <1>23 DEF HardwareInv

\* A shutdown preserves it, wherever it ends.
LEMMA HardwareShutdown ==
  ASSUME HardwareInv, Shutdown
  PROVE  HardwareInv'
<1> DEFINE Ran(gated, s, e, m) ==
             LET failed == Written(s, e.failed) IN
             /\ [gate |-> "open"] \in failed => ~gated
             /\ gated \/ [gate |-> "open"] \in failed \/ ~driver.known
             /\ chip' = m.chip
             /\ driver' = m.driver
             /\ valid' = (e.result = "canceled" /\ valid)
             /\ receiving' = (e.result = "canceled" /\ e.last = 1 /\ receiving)
             /\ outcome' = [call |-> "shutdown", result |-> e.result, failed |-> failed]
             /\ failures' = Fails(e.result)
             /\ device' = IF e.result = "ok" THEN "Closed" ELSE "Closing"
<1>1. PICK gated \in BOOLEAN :
        \E s \in {ShutdownScript(gated)} : \E cs \in {Course(s)} :
        \E e \in Ends(s) : \E m \in {Run(s, cs, e)} : Ran(gated, s, e, m)
  BY Zenon DEF Shutdown
<1> DEFINE s == ShutdownScript(gated)
           n == Length(gated)
<1> HIDE DEF Ran
<1>2. PICK e \in Ends(s) : Ran(gated, s, e, Run(s, Course(s), e))
  BY <1>1, Zenon
<1> DEFINE m == Run(s, Course(s), e)
           failed == Written(s, e.failed)
           w1 == [streaming |-> FALSE]
           w2 == [bias |-> FALSE]
           w3 == [gate |-> "open"]
           w4 == [gate |-> "closed"]
           w5 == [clock |-> FALSE]
           over == [call |-> "shutdown", result |-> e.result, failed |-> failed]
<1>3. /\ w3 \in failed => ~gated
      /\ gated \/ w3 \in failed \/ ~driver.known
  BY <1>2, Zenon DEF Ran
<1>4. chip' = m.chip /\ driver' = m.driver /\ outcome' = over
      /\ device' = IF e.result = "ok" THEN "Closed" ELSE "Closing"
  BY <1>2, Zenon DEF Ran
<1>5. /\ valid' = (e.result = "canceled" /\ valid)
      /\ receiving' = (e.result = "canceled" /\ e.last = 1 /\ receiving)
  BY <1>2, Zenon DEF Ran
<1>6. board' = board
  BY DEF Shutdown
<1>7. board \in Boards /\ Shaped(Begin)
  BY DEF HardwareInv
<1>8. Shuts(s, n)
  BY ShutdownForm
<1>9. n \in Nat /\ n = Length(gated)
  BY DEF Length
<1> HIDE DEF s, n
<1>10. Script(s) /\ Len(s) = n /\ n \in {4, 5, 11}
  BY <1>8 DEF Shuts
<1>11. \A i \in 1..n : s[i].to = "radio" /\ s[i].tolerant
  BY <1>8, ShutsTouch
<1>12. /\ IsEnd(s, e) /\ e.result \in {"ok", "err", "canceled"}
       /\ e.result = "ok" => e.last = n
       /\ e.result = "err" => e.last = n
  <2>1. \A i \in 1..Len(s) : s[i].to = "radio" /\ s[i].tolerant
    BY <1>10, <1>11
  <2> QED
    BY <1>2, <1>10, <2>1, EndsOf
<1>13. PICK h : Trace(h, Begin, s, e.failed, e.reached, e.last) /\ m = h[e.last]
  BY <1>9, <1>10, <1>12, RunIsTrace
<1>14. e.last \in Nat /\ e.last <= n
  BY <1>9, <1>10, <1>12 DEF IsEnd
<1>15. Shaped(m)
  <2>1. \A k \in 0..e.last : Shaped(h[k])
    BY <1>7, <1>13, <1>14, TraceShaped
  <2> QED
    BY <1>13, <1>14, <2>1
<1>16. m.driver.known = driver.known
  <2> DEFINE f == "known"
  <2>1. \A k \in 1..e.last : s[k].to = "radio"
    BY <1>9, <1>11, <1>14
  <2>2. f \in Flags
    BY DEF Flags
  <2> HIDE DEF f
  <2>3. h[e.last].driver[f] = Begin.driver[f]
    BY <1>7, <1>13, <1>14, <2>1, <2>2, TraceRemembers
  <2> QED
    BY <1>13, <2>3 DEF f, Begin
<1>17. e.result # "canceled" => OffUnless(s, n, e.failed, m)
  <2> SUFFICES ASSUME e.result # "canceled"
               PROVE  OffUnless(s, n, e.failed, m)
    OBVIOUS
  <2>1. e.last = n
    BY <1>12
  <2>2. Trace(h, Begin, s, e.failed, e.reached, n) /\ m = h[n]
    BY <1>13, <2>1
  <2> HIDE DEF m
  <2>3. OffUnless(s, n, e.failed, h[n])
    BY <1>7, <1>8, <2>2, ShutdownEffect
  <2> QED
    BY <2>2, <2>3
<1> HIDE DEF m
<1>18. \A i \in e.failed : s[i].set \in failed
  BY DEF Written
<1> HIDE DEF failed
<1>19. /\ s[1].set = w1 /\ s[2].set = w2 /\ (n # 4 => s[3].set = w3)
       /\ (n = 11 => \A k \in 1..6 : s[3 + k].set = RestRow(k))
       /\ s[n - 1].set = w4 /\ s[n].set = w5
  <2>1. /\ s[1] = Tried(w1) /\ s[2] = Tried(w2) /\ (n # 4 => s[3] = Tried(w3))
        /\ (n = 11 => \A k \in 1..6 : s[3 + k] = Tried(RestRow(k)))
        /\ s[n - 1] = Tried(w4) /\ s[n] = Tried(w5)
    BY <1>8, Zenon DEF Shuts
  <2> HIDE DEF w1, w2, w3, w4, w5
  <2> QED
    BY <2>1 DEF Tried
<1> HIDE DEF w1, w2, w3, w4, w5
<1>20. /\ w1 \notin failed => 1 \notin e.failed
       /\ w2 \notin failed => 2 \notin e.failed
       /\ w4 \notin failed => n - 1 \notin e.failed
       /\ w5 \notin failed => n \notin e.failed
       /\ n # 4 /\ w3 \notin failed => 3 \notin e.failed
       /\ n = 11 => \A k \in 1..6 : RestRow(k) \notin failed => 3 + k \notin e.failed
  BY <1>18, <1>19
<1>21. driver.known /\ w3 \notin failed => n = 11
  BY <1>3, <1>9 DEF Length
<1>22. e.result # "canceled" =>
          /\ w4 \notin failed => m.chip.gate = "closed"
          /\ w1 \notin failed => m.chip.streaming = FALSE
          /\ w2 \notin failed => m.chip.bias = FALSE
          /\ w5 \notin failed => m.chip.clock = FALSE
          /\ driver.known /\ w3 \notin failed =>
               \A k \in 1..6 : RestRow(k) \notin failed =>
                 \A f \in InRegister(Standbys[k]) : m.chip[f] = Asleep
  <2> SUFFICES ASSUME e.result # "canceled"
               PROVE  /\ w4 \notin failed => m.chip.gate = "closed"
                      /\ w1 \notin failed => m.chip.streaming = FALSE
                      /\ w2 \notin failed => m.chip.bias = FALSE
                      /\ w5 \notin failed => m.chip.clock = FALSE
                      /\ driver.known /\ w3 \notin failed =>
                           \A k \in 1..6 : RestRow(k) \notin failed =>
                             \A f \in InRegister(Standbys[k]) : m.chip[f] = Asleep
    OBVIOUS
  <2>1. OffUnless(s, n, e.failed, m)
    BY <1>17
  <2>2. /\ w4 \notin failed => m.chip.gate = "closed"
        /\ w1 \notin failed => m.chip.streaming = FALSE
        /\ w2 \notin failed => m.chip.bias = FALSE
        /\ w5 \notin failed => m.chip.clock = FALSE
    BY <1>20, <2>1 DEF OffUnless
  <2>3. driver.known /\ w3 \notin failed => n = 11 /\ 3 \notin e.failed
    BY <1>20, <1>21
  <2>4. n = 11 /\ 3 \notin e.failed =>
          \A k \in 1..6 : RestRow(k) \notin failed =>
            \A f \in InRegister(Standbys[k]) : m.chip[f] = Asleep
    BY <1>20, <2>1 DEF OffUnless
  <2> QED
    BY <2>2, <2>3, <2>4
<1>23. outcome'.call = "shutdown" /\ outcome'.result = e.result /\ outcome'.failed = failed
  BY <1>4
<1>24. GateClosedOnReturn'
  BY <1>4, <1>22, <1>23 DEF GateClosedOnReturn, w4
<1>25. PartsOffUnlessFailed'
  <2> SUFFICES ASSUME e.result # "canceled"
               PROVE  /\ w1 \notin failed => ~chip'.streaming
                      /\ w2 \notin failed => ~chip'.bias
                      /\ w5 \notin failed => ~chip'.clock
                      /\ driver'.known /\ w3 \notin failed =>
                           \A i \in DOMAIN Standbys :
                             RestRow(i) \notin failed => \A f \in DOMAIN RestRow(i) : chip'[f] = Asleep
    BY <1>23, Zenon DEF PartsOffUnlessFailed, w1, w2, w3, w5, RestRow
  <2>1. DOMAIN Standbys = 1..6
    BY RegistersCover, ScriptLen
  <2>2. \A k : DOMAIN RestRow(k) = InRegister(Standbys[k])
    BY RestRowFits
  <2> QED
    BY <1>4, <1>16, <1>22, <2>1, <2>2
<1>26. Shaped(Begin)'
  BY <1>4, <1>15 DEF Shaped, Begin
<1>27. valid' \in BOOLEAN /\ receiving' \in BOOLEAN
  BY <1>5
<1>28. device' \in {"Open", "Closing", "Closed"} /\ device' # "Open"
  BY <1>4
<1>29. ~Ready'
  BY <1>28 DEF Ready
<1> QED
  BY <1>6, <1>7, <1>24, <1>25, <1>26, <1>27, <1>28, <1>29 DEF HardwareInv

\* So does switching the receiver on or off.
LEMMA HardwareReceiver ==
  ASSUME HardwareInv, NEW enabled \in BOOLEAN, ReceiverMode(enabled)
  PROVE  HardwareInv'
<1> DEFINE w1 == [streaming |-> FALSE]
           w2 == [streaming |-> TRUE]
           a == Each(<<w1>>)
           b == Each(<<w2>>)
           s == a \o If(enabled, b)
<1>1. PICK e \in Ends(s) : chip' = Run(s, Course(s), e).chip
  BY Zenon DEF ReceiverMode
<1>2. /\ device = "Open" /\ device' = device /\ board' = board /\ outcome' = outcome /\ driver' = driver
      /\ valid' = valid /\ receiving' = enabled /\ requested' = requested
  BY DEF ReceiverMode
<1>3. /\ board \in Boards /\ valid \in BOOLEAN /\ Shaped(Begin)
      /\ Ready => requested \in Configs /\ Steady(requested, Begin)
      /\ outcome.call # "shutdown" /\ GateClosedOnReturn
  BY <1>2 DEF HardwareInv
<1>4. DOMAIN w1 = {"streaming"} /\ DOMAIN w2 = {"streaming"}
  OBVIOUS
<1> HIDE DEF w1, w2
<1>5. /\ Script(a) /\ Len(a) = 1 /\ a[1] = Radio(w1)
      /\ Script(b) /\ Len(b) = 1 /\ b[1] = Radio(w2)
  <2> DEFINE as == <<w1>>
             bs == <<w2>>
  <2>1. Script(as) /\ Len(as) = 1 /\ as[1] = w1 /\ Script(bs) /\ Len(bs) = 1 /\ bs[1] = w2
    BY ScriptTuples
  <2> HIDE DEF as, bs
  <2>a. a = Each(as) /\ b = Each(bs)
    BY DEF as, bs
  <2> HIDE DEF a, b
  <2>2. Script(a) /\ Len(a) = Len(as) /\ \A i \in 1..Len(as) : a[i] = Radio(as[i])
    BY <2>1, <2>a, ScriptEach
  <2>3. Script(b) /\ Len(b) = Len(bs) /\ \A i \in 1..Len(bs) : b[i] = Radio(bs[i])
    BY <2>1, <2>a, ScriptEach
  <2>4. 1 \in 1..Len(as) /\ 1 \in 1..Len(bs)
    BY <2>1
  <2>5. a[1] = Radio(as[1]) /\ b[1] = Radio(bs[1])
    BY <2>2, <2>3, <2>4
  <2> QED
    BY <2>1, <2>2, <2>3, <2>5, Zenon
<1> HIDE DEF a, b
<1>6. /\ Script(s) /\ Len(s) \in {1, 2}
      /\ \A i \in 1..Len(s) : s[i] = Radio(w1) \/ s[i] = Radio(w2)
  <2> DEFINE c == If(enabled, b)
  <2>1. Script(c) /\ Len(c) \in {0, 1} /\ \A i \in 1..Len(c) : c[i] = Radio(w2)
    <3>1. Script(<<>>) /\ Len(<<>>) = 0
      BY ScriptTuples
    <3>2. enabled => c = b
      BY DEF If
    <3>3. ~enabled => c = <<>>
      BY DEF If
    <3> HIDE DEF c
    <3>4. CASE enabled
      <4>1. c = b
        BY <3>2, <3>4
      <4>2. \A i \in 1..Len(b) : i = 1
        BY <1>5
      <4> QED
        BY <1>5, <4>1, <4>2
    <3>5. CASE ~enabled
      BY <3>1, <3>3, <3>5
    <3> QED
      BY <3>4, <3>5
  <2> HIDE DEF c
  <2>2. /\ Script(a \o c) /\ Len(a \o c) = Len(a) + Len(c)
        /\ \A i \in 1..Len(a) : (a \o c)[i] = a[i]
        /\ \A i \in 1..Len(c) : (a \o c)[Len(a) + i] = c[i]
    <3>1. Script(a) /\ Script(c)
      BY <1>5, <2>1
    <3> QED
      BY <3>1, ScriptConcat
  <2>3. s = a \o c
    BY DEF c
  <2> HIDE DEF s
  <2>4. Len(s) = 1 + Len(c) /\ s[1] = Radio(w1)
    BY <1>5, <2>2, <2>3
  <2>5. Len(c) = 1 => s[2] = Radio(w2)
    BY <1>5, <2>1, <2>2, <2>3
  <2> QED
    BY <2>1, <2>2, <2>3, <2>4, <2>5
<1> HIDE DEF s
<1>7. \A i \in 1..Len(s) : s[i].to = "radio" /\ DOMAIN s[i].set = {"streaming"} /\ Beside(s[i].set) = {}
  <2>1. DOMAIN w1 \cap TunerFields = {} /\ DOMAIN w2 \cap TunerFields = {}
    BY <1>4, FieldNames
  <2>2. Beside(w1) = {} /\ Beside(w2) = {}
    BY <2>1, SentAt
  <2>3. Radio(w1).to = "radio" /\ Radio(w1).set = w1 /\ Radio(w2).to = "radio" /\ Radio(w2).set = w2
    BY DEF Radio
  <2> QED
    BY <1>4, <1>6, <2>2, <2>3
<1>8. IsEnd(s, e) /\ Len(s) \in Nat
  BY <1>1, <1>6, EndsOf
<1> DEFINE m == Run(s, Course(s), e)
<1>9. PICK h : Trace(h, Begin, s, e.failed, e.reached, e.last) /\ m = h[e.last]
  BY <1>8, RunIsTrace
<1>10. e.last \in Nat /\ e.last <= Len(s)
  BY <1>8 DEF IsEnd
<1>11. Shaped(m)
  <2>1. \A k \in 0..e.last : Shaped(h[k])
    BY <1>3, <1>9, <1>10, TraceShaped
  <2> QED
    BY <1>9, <1>10, <2>1
<1>12. ASSUME NEW f \in ChipFields \ {"streaming"}
       PROVE  chip'[f] = chip[f]
  <2> DEFINE i == 0
             j == e.last
  <2>1. i \in 0..j /\ j \in i..j /\ j \in Nat
    BY <1>10
  <2>2. ASSUME NEW k \in (i + 1)..j
        PROVE  f \notin DOMAIN s[k].set /\ f \notin Beside(s[k].set)
    <3>1. k \in 1..Len(s)
      BY <1>8, <1>10
    <3>2. DOMAIN s[k].set = {"streaming"} /\ Beside(s[k].set) = {}
      BY <1>7, <3>1
    <3> QED
      BY <3>2
  <2>3. \A k \in 1..j : s[k].to = "radio"
    BY <1>7, <1>8, <1>10
  <2>4. f \in ChipFields
    OBVIOUS
  <2>5. Trace(h, Begin, s, e.failed, e.reached, j)
    BY <1>9
  <2>6. h[i] = Begin
    BY <2>1, <2>5, TraceSteps
  <2> HIDE DEF i, j
  <2>7. h[j].chip[f] = h[i].chip[f]
    BY <1>3, <2>1, <2>2, <2>3, <2>4, <2>5, TraceStays
  <2> QED
    BY <1>1, <1>9, <2>6, <2>7 DEF j, Begin
<1>13. Shaped(Begin)'
  BY <1>1, <1>2, <1>3, <1>11 DEF Shaped, Begin
<1>14. Ready' => requested' \in Configs /\ Steady(requested, Begin)'
  <2> SUFFICES ASSUME Ready
               PROVE  requested \in Configs /\ Steady(requested, Begin)'
    BY <1>2 DEF Ready
  <2>1. PICK n : n = Begin'
    OBVIOUS
  <2>2. PICK o : o = Begin
    OBVIOUS
  <2>3. PICK c : c = requested
    OBVIOUS
  <2>4. Steady(c, o)
    BY <1>3, <2>2, <2>3
  <2>5. n.chip = chip' /\ n.driver = driver' /\ o.chip = chip /\ o.driver = driver
    BY <2>1, <2>2 DEF Begin
  <2>6. /\ \A f \in Flags : n.driver[f] = o.driver[f]
        /\ \A f \in ChipFields : f \notin {"streaming", "gate"} => n.chip[f] = o.chip[f]
    BY <1>2, <1>12, <2>5
  <2>7. Mirrored(n)
    <3>1. \A f \in TunerFields : f \in ChipFields \ {"streaming"}
      BY FieldNames
    <3>2. Shaped(n)
      BY <1>13, <2>1 DEF Shaped
    <3> QED
      BY <1>2, <1>12, <2>4, <2>5, <3>1, <3>2 DEF Steady, Mirrored
  <2>8. Steady(c, n)
    BY <2>4, <2>6, <2>7, SteadyKin
  <2>9. Steady(c, n)'
    BY <1>2, <2>8, SteadyStays
  <2> QED
    BY <1>2, <1>3, <2>1, <2>3, <2>9
<1>15. GateClosedOnReturn' /\ PartsOffUnlessFailed'
  <2>1. "gate" \in ChipFields \ {"streaming"}
    BY FieldNames
  <2>2. chip'.gate = chip.gate
    BY <1>12, <2>1
  <2> QED
    BY <1>2, <1>3, <2>2 DEF GateClosedOnReturn, PartsOffUnlessFailed
<1>16. device \in {"Open", "Closing", "Closed"}
  BY <1>2
<1> QED
  BY <1>2, <1>3, <1>13, <1>14, <1>15, <1>16 DEF HardwareInv

-----------------------------------------------------------------------------
(* Theorems *)

\* The invariant is inductive: it holds initially and every step preserves it.
THEOREM HardwareInvariant ==
  Spec => []HardwareInv
<1>1. Init => HardwareInv
  BY HardwareInit
<1>2. HardwareInv /\ [Next]_vars => HardwareInv'
  <2> SUFFICES ASSUME HardwareInv, [Next]_vars
               PROVE  HardwareInv'
    OBVIOUS
  <2>1. ASSUME NEW c \in Configs, Configure(c)
        PROVE  HardwareInv'
    BY <2>1, HardwareConfigure
  <2>2. CASE Shutdown
    BY <2>2, HardwareShutdown
  <2>3. ASSUME NEW enabled \in BOOLEAN, ReceiverMode(enabled)
        PROVE  HardwareInv'
    BY <2>3, HardwareReceiver
  <2>4. CASE UNCHANGED vars
    <3>1. /\ board' = board /\ valid' = valid /\ receiving' = receiving /\ device' = device
          /\ requested' = requested /\ outcome' = outcome /\ chip' = chip /\ driver' = driver
      BY <2>4 DEF vars
    <3>2. Ready' => Steady(requested, Begin)'
      <4> SUFFICES ASSUME Ready
                   PROVE  Steady(requested, Begin)'
        BY <3>1 DEF Ready
      <4>1. PICK c : c = requested
        OBVIOUS
      <4>2. PICK m : m = Begin
        OBVIOUS
      <4>3. Steady(c, m)
        BY <4>1, <4>2 DEF HardwareInv
      <4>4. Steady(c, m)'
        BY <3>1, <4>3, SteadyStays
      <4>5. c = requested' /\ m = Begin'
        BY <3>1, <4>1, <4>2 DEF Begin
      <4> QED
        BY <4>4, <4>5
    <3>3. Shaped(Begin)' /\ GateClosedOnReturn' /\ PartsOffUnlessFailed'
      BY <3>1 DEF HardwareInv, Shaped, Begin, GateClosedOnReturn, PartsOffUnlessFailed
    <3>4. Ready' => requested' \in Configs
      BY <3>1 DEF HardwareInv, Ready
    <3> QED
      BY <3>1, <3>2, <3>3, <3>4 DEF HardwareInv
  <2> QED
    BY <2>1, <2>2, <2>3, <2>4 DEF Next, Closed
<1> QED
  BY <1>1, <1>2, PTL DEF Spec

\* The copies of the tuner's registers are right whenever the next
\* configuration will rely on them (Tuner::write), whatever failed before.
THEOREM ShadowHolds ==
  Spec => []ShadowMirrorsChip
<1>1. HardwareInv => ShadowMirrorsChip
  BY DEF HardwareInv, ShadowMirrorsChip, Steady, Mirrored, Begin
<1> QED
  BY <1>1, HardwareInvariant, PTL

\* A valid configuration is in effect, also when configure_inner skipped what
\* it took to be set already.
THEOREM SettingsHold ==
  Spec => []SettingsHeld
<1>1. HardwareInv => SettingsHeld
  BY DEF HardwareInv, SettingsHeld, Steady, PathSet, TuneSet, Begin
<1> QED
  BY <1>1, HardwareInvariant, PTL

\* The tuner sleeps exactly while sampling directly.
THEOREM TunerRests ==
  Spec => []TunerRestsWhenDirect
<1>1. HardwareInv => TunerRestsWhenDirect
  <2> SUFFICES ASSUME HardwareInv, Ready, NEW i \in DOMAIN Standbys, NEW f \in InRegister(Standbys[i])
               PROVE  (chip[f] = Asleep) <=> Direct(requested)
    BY DEF TunerRestsWhenDirect
  <2>1. i \in 1..6
    BY RegistersCover, ScriptLen
  <2>2. f \in RestFields
    BY <2>1, RegistersCover
  <2>3. IF Direct(requested) THEN \A g \in RestFields : chip[g] = Asleep
                             ELSE \A g \in RestFields : chip[g] # Asleep
    BY DEF HardwareInv, Steady, Awake, Begin
  <2> QED
    BY <2>2, <2>3
<1> QED
  BY <1>1, HardwareInvariant, PTL

\* The antenna switch follows the frequency although it is only written when
\* the remembered input differs (Tuner::tune).
THEOREM AntennaFollows ==
  Spec => []AntennaFollowsFrequency
<1>1. HardwareInv => AntennaFollowsFrequency
  <2> SUFFICES ASSUME HardwareInv, Ready, board.r828d, ~Direct(requested)
               PROVE  \A i \in DOMAIN Switch(Input(requested)) :
                        \A f \in DOMAIN Switch(Input(requested))[i] : chip[f] = Switch(Input(requested))[i][f]
    BY DEF AntennaFollowsFrequency
  <2>1. Placed(Input(requested), Begin)
    BY DEF HardwareInv, Steady
  <2>2. Begin.chip = chip
    BY DEF Begin
  <2> QED
    BY <2>1, <2>2, Zenon DEF Placed
<1> QED
  BY <1>1, HardwareInvariant, PTL

\* The repeater is closed on returned errors (rtl2832u.rs:103).
THEOREM GateCloses ==
  Spec => []GateClosedOnReturn
<1>1. HardwareInv => GateClosedOnReturn
  BY DEF HardwareInv
<1> QED
  BY <1>1, HardwareInvariant, PTL

\* A shutdown that returned has switched off every part whose own transfer
\* did not fail (Hardware::shutdown).
THEOREM PartsGoOff ==
  Spec => []PartsOffUnlessFailed
<1>1. HardwareInv => PartsOffUnlessFailed
  BY DEF HardwareInv
<1> QED
  BY <1>1, HardwareInvariant, PTL

=============================================================================
