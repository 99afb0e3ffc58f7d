--------------------------- MODULE MaybeFutureProofs ---------------------------
(***************************************************************************)
(* The safety properties of MaybeFuture, for every operation that can be   *)
(* put together from the combinators.  The invariant has two layers.       *)
(*                                                                         *)
(* ShapeInv is about what is built and held: the nodes that are held form  *)
(* one chain from the root, first the stack of `wait', then operations or  *)
(* futures, and the call in progress is made along it.                     *)
(*                                                                         *)
(* FlowInv is about results and the order of submission: the second        *)
(* operations are those the sequential program goes on with, what returns  *)
(* is what it returns there, and what was submitted is how its sequence of *)
(* uses begins.  Everything a node on the chain waits for, the root waits  *)
(* for (Frontier): what a step submits is what the program uses next.      *)
(*                                                                         *)
(* Both are stated for a tree, a stage and so on as arguments, and so are  *)
(* the lemmas about trees and programs, which are by induction from the    *)
(* leaves up (KidInduction) or from the root down (ParentInduction).       *)
(*                                                                         *)
(* What is built together with the root is the owner's doing, not the      *)
(* combinators': that nothing is submitted before an operation is begun    *)
(* is proved for what Defer makes of any operation (DeferredIsLazy).       *)
(***************************************************************************)
EXTENDS MaybeFuture, Operations, SequenceTheorems, FiniteSetTheorems, Induction

-----------------------------------------------------------------------------
(* Trees *)

\* The node that n is a part of in t.
ParentOf(t, n) == IF n = 1 THEN None ELSE CHOOSE p \in DOMAIN t : n \in KidsOf(t, p)

\* An operation has a root and finitely many nodes.
LEMMA TreeNodes ==
  ASSUME NEW t, Proper(t)
  PROVE  /\ Len(t) \in Nat \ {0} /\ DOMAIN t = 1..Len(t)
         /\ 1 \in DOMAIN t
         /\ None \notin DOMAIN t
         /\ \A n \in DOMAIN t : n \in Nat /\ n >= 1 /\ t[n] \in Nodes
<1>1. t \in Seq(Nodes) /\ t # <<>>
  BY DEF Proper
<1>2. Len(t) \in Nat \ {0} /\ DOMAIN t = 1..Len(t)
  BY <1>1, EmptySeq, LenProperties
<1> QED
  BY <1>1, <1>2, ElementOfSeq DEF None

\* Every node but the root has its parent before it.
LEMMA ParentBefore ==
  ASSUME NEW t, Proper(t), NEW m \in DOMAIN t, m # 1
  PROVE  /\ ParentOf(t, m) \in DOMAIN t
         /\ ParentOf(t, m) < m
         /\ \A p \in DOMAIN t : m \in KidsOf(t, p) <=> p = ParentOf(t, m)
<1>1. PICK n \in DOMAIN t : n < m /\ \A p \in DOMAIN t : m \in KidsOf(t, p) <=> p = n
  BY DEF Proper
<1>2. ParentOf(t, m) = n
  BY <1>1 DEF ParentOf
<1> QED
  BY <1>1, <1>2

\* A node's kids come after it, and it is their parent.
LEMMA KidAfter ==
  ASSUME NEW t, Proper(t), NEW p \in DOMAIN t, NEW k \in KidsOf(t, p)
  PROVE  k \in DOMAIN t /\ k # 1 /\ p < k /\ ParentOf(t, k) = p
<1>1. k \in DOMAIN t /\ k # 1
  BY DEF Proper
<1> QED
  BY <1>1, ParentBefore

\* What a node has: a first, what its continuation builds, or neither.
LEMMA NodeParts ==
  ASSUME NEW t, Proper(t), NEW n \in DOMAIN t
  PROVE  /\ t[n].kind \in Wrappers \cup Effects \cup {"operation", "ready"}
         /\ t[n].kind \in Wrappers \cup {"operation"} <=> t[n].first # None
         /\ t[n].first # None => t[n].first \in KidsOf(t, n)
         /\ t[n].kind \in {"and_then", "continue_with"} <=> t[n].ok # None
         /\ t[n].ok # None => t[n].ok \in KidsOf(t, n)
         /\ t[n].err # None => t[n].err \in KidsOf(t, n) /\ t[n].kind = "continue_with"
         /\ t[n].first # None => t[n].first # t[n].ok /\ t[n].first # t[n].err
         /\ t[n].kind = "ready" => t[n].value \in {"ok", "err"}
         /\ t[n].kind \in Effects \cup {"ready"} => KidsOf(t, n) = {}
<1>1. t[n] \in Nodes
  BY TreeNodes
<1>2. t[n].kind \in Wrappers \cup Effects \cup {"operation", "ready"}
  BY <1>1 DEF Nodes
<1>3. /\ t[n].kind \in Wrappers \cup {"operation"} <=> t[n].first # None
      /\ t[n].kind \in {"and_then", "continue_with"} <=> t[n].ok # None
      /\ t[n].first # None => t[n].first # t[n].ok /\ t[n].first # t[n].err
      /\ t[n].err # None => t[n].kind = "continue_with"
      /\ t[n].kind = "ready" => t[n].value \in {"ok", "err"}
  BY DEF Proper
<1>4. t[n].kind \in Effects \cup {"ready"} =>
        t[n].kind \notin Wrappers \cup {"operation"} /\ t[n].kind \notin {"and_then", "continue_with"}
  BY DEF Effects, Wrappers
<1>5. t[n].kind \in Effects \cup {"ready"} => t[n].first = None /\ t[n].ok = None /\ t[n].err = None
  BY <1>3, <1>4
<1> QED
  BY <1>2, <1>3, <1>5 DEF KidsOf

\* What holds of a node when it holds of its kids holds of every node.
LEMMA KidInduction ==
  ASSUME NEW t, Proper(t), NEW S,
         \A n \in DOMAIN t : KidsOf(t, n) \subseteq S => n \in S
  PROVE  DOMAIN t \subseteq S
<1>0. Len(t) \in Nat \ {0} /\ DOMAIN t = 1..Len(t)
  BY TreeNodes
<1> DEFINE H == {k \in Nat : \A n \in DOMAIN t : n + k > Len(t) => n \in S}
<1>1. 0 \in H
  BY <1>0
<1>2. \A k \in Nat : k \in H => k + 1 \in H
  <2> SUFFICES ASSUME NEW k \in Nat, k \in H
               PROVE  k + 1 \in H
    OBVIOUS
  <2>1. ASSUME NEW n \in DOMAIN t, n + (k + 1) > Len(t)
        PROVE  n \in S
    <3>1. \A m \in KidsOf(t, n) : m \in DOMAIN t /\ m > n
      BY KidAfter
    <3>2. \A m \in KidsOf(t, n) : m + k > Len(t)
      BY <2>1, <3>1, <1>0
    <3> QED
      BY <3>1, <3>2
  <2> QED
    BY <2>1
<1> HIDE DEF H
<1>3. Len(t) \in H
  BY <1>0, <1>1, <1>2, InductionOn
<1> QED
  BY <1>0, <1>3 DEF H

\* What holds of the root, and of a node when it holds of its parent, holds
\* of every node.
LEMMA ParentInduction ==
  ASSUME NEW t, Proper(t), NEW S, 1 \in S,
         \A n \in DOMAIN t \ {1} : ParentOf(t, n) \in S => n \in S
  PROVE  DOMAIN t \subseteq S
<1>0. DOMAIN t \subseteq Nat
  BY TreeNodes
<1> SUFFICES ASSUME DOMAIN t \ S # {}
             PROVE  FALSE
  OBVIOUS
<1>1. PICK n \in DOMAIN t \ S : \A m \in DOMAIN t \ S : n <= m
  BY <1>0, LeastOf
<1>2. n # 1
  OBVIOUS
<1>3. ParentOf(t, n) \in DOMAIN t /\ ParentOf(t, n) < n
  BY <1>2, ParentBefore
<1>4. ParentOf(t, n) \in S
  BY <1>0, <1>1, <1>3
<1> QED
  BY <1>2, <1>4

\* There is a function that is at every node what B makes of it there, if B
\* looks only at the kids.
LEMMA TreeRecursion ==
  ASSUME NEW t, Proper(t), NEW T, NEW c \in T,
         NEW B \in [[DOMAIN t -> T] -> [DOMAIN t -> T]],
         \A f, g \in [DOMAIN t -> T] : \A n \in DOMAIN t :
           (\A k \in KidsOf(t, n) : f[k] = g[k]) => B[f][n] = B[g][n]
  PROVE  \E f \in [DOMAIN t -> T] : f = B[f]
<1>0. Len(t) \in Nat \ {0} /\ DOMAIN t = 1..Len(t)
  BY TreeNodes
<1> DEFINE D == DOMAIN t
<1> DEFINE H == {k \in Nat : \E f \in [D -> T] : \A n \in D : n + k > Len(t) => f[n] = B[f][n]}
<1>1. 0 \in H
  <2>1. [n \in D |-> c] \in [D -> T]
    OBVIOUS
  <2>2. \A n \in D : ~(n + 0 > Len(t))
    BY <1>0
  <2> QED
    BY <2>1, <2>2
<1>2. \A k \in Nat : k \in H => k + 1 \in H
  <2> SUFFICES ASSUME NEW k \in Nat, k \in H
               PROVE  k + 1 \in H
    OBVIOUS
  <2>1. PICK f \in [D -> T] : \A n \in D : n + k > Len(t) => f[n] = B[f][n]
    OBVIOUS
  <2> DEFINE b == B[f]
  <2>2. b \in [D -> T]
    OBVIOUS
  <2> HIDE DEF b
  <2> DEFINE g == [n \in D |-> IF n + k = Len(t) THEN b[n] ELSE f[n]]
  <2>3. g \in [D -> T]
    BY <2>2
  <2>4. \A n \in D : (n + k = Len(t) => g[n] = b[n]) /\ (n + k # Len(t) => g[n] = f[n])
    OBVIOUS
  <2> HIDE DEF g
  <2>5. \A n \in D : n + (k + 1) > Len(t) => g[n] = B[g][n]
    <3> SUFFICES ASSUME NEW n \in D, n + (k + 1) > Len(t)
                 PROVE  g[n] = B[g][n]
      OBVIOUS
    <3>1. \A m \in KidsOf(t, n) : m \in D /\ m > n
      BY KidAfter
    <3>2. \A m \in KidsOf(t, n) : g[m] = f[m]
      BY <3>1, <2>4, <1>0
    <3>3. B[g][n] = B[f][n]
      BY <3>2, <2>3
    <3>4. CASE n + k = Len(t)
      BY <3>3, <3>4, <2>4 DEF b
    <3>5. CASE n + k > Len(t)
      BY <3>3, <3>5, <2>1, <2>4, <1>0
    <3> QED
      BY <3>4, <3>5, <1>0
  <2> QED
    BY <2>3, <2>5
<1> HIDE DEF H
<1>3. Len(t) \in H
  BY <1>0, <1>1, <1>2, InductionOn
<1>4. PICK f \in [D -> T] : \A n \in D : n + Len(t) > Len(t) => f[n] = B[f][n]
  BY <1>3 DEF H
<1>5. \A n \in D : f[n] = B[f][n]
  BY <1>0, <1>4
<1>6. f = B[f]
  <2>1. B[f] \in [D -> T]
    OBVIOUS
  <2> QED
    BY <1>5, <2>1
<1> QED
  BY <1>6

\* What is built with a node: the node, and what is built with its first if it
\* is a wrapper.
LEMMA SpineForm ==
  ASSUME NEW t, Proper(t)
  PROVE  \A m \in DOMAIN t :
           /\ t[m].kind \in Wrappers => SpineOf(t, m) = {m} \cup SpineOf(t, t[m].first)
           /\ t[m].kind \notin Wrappers => SpineOf(t, m) = {m}
<1> DEFINE G(f) == [n \in DOMAIN t |-> {n} \cup (IF t[n].kind \in Wrappers THEN f[t[n].first] ELSE {})]
<1> DEFINE s == CHOOSE f : f = G(f)
<1> DEFINE T == SUBSET DOMAIN t
<1>1. \A m : SpineOf(t, m) = s[m]
  BY Zenon DEF SpineOf
<1>2. \A n \in DOMAIN t : t[n].kind \in Wrappers => t[n].first \in KidsOf(t, n) /\ t[n].first \in DOMAIN t
  BY NodeParts, KidAfter
<1>3. \E f : f = G(f)
  <2> DEFINE B == [f \in [DOMAIN t -> T] |-> G(f)]
  <2>1. B \in [[DOMAIN t -> T] -> [DOMAIN t -> T]]
    <3>1. \A f \in [DOMAIN t -> T] : G(f) \in [DOMAIN t -> T]
      BY <1>2
    <3> QED
      BY <3>1
  <2>2. \A f, g \in [DOMAIN t -> T] : \A n \in DOMAIN t :
          (\A k \in KidsOf(t, n) : f[k] = g[k]) => B[f][n] = B[g][n]
    BY <1>2
  <2>3. {} \in T
    OBVIOUS
  <2>4. \A f \in [DOMAIN t -> T] : B[f] = G(f)
    OBVIOUS
  <2> HIDE DEF B, T, G
  <2>5. \E f \in [DOMAIN t -> T] : f = B[f]
    BY <2>1, <2>2, <2>3, TreeRecursion, ZenonT(60)
  <2> QED
    BY <2>4, <2>5
<1>4. s = G(s)
  BY <1>3, Zenon
<1> HIDE DEF s
<1>5. \A m \in DOMAIN t : s[m] = {m} \cup (IF t[m].kind \in Wrappers THEN s[t[m].first] ELSE {})
  BY <1>4
<1> QED
  BY <1>1, <1>5

\* What is dropped together with m in t.
SubtreeOf(t, m) == LET s[n \in DOMAIN t] == {n} \cup UNION {s[k] : k \in KidsOf(t, n)} IN s[m]

\* What is dropped with a node: the node and what is dropped with its kids.
LEMMA SubtreeForm ==
  ASSUME NEW t, Proper(t)
  PROVE  \A m \in DOMAIN t : SubtreeOf(t, m) = {m} \cup UNION {SubtreeOf(t, k) : k \in KidsOf(t, m)}
<1> DEFINE G(f) == [n \in DOMAIN t |-> {n} \cup UNION {f[k] : k \in KidsOf(t, n)}]
<1> DEFINE s == CHOOSE f : f = G(f)
<1> DEFINE T == SUBSET DOMAIN t
<1>1. \A m : SubtreeOf(t, m) = s[m]
  BY Zenon DEF SubtreeOf
<1>2. \A n \in DOMAIN t : KidsOf(t, n) \subseteq DOMAIN t
  BY KidAfter
<1>3. \E f : f = G(f)
  <2> DEFINE B == [f \in [DOMAIN t -> T] |-> G(f)]
  <2>1. B \in [[DOMAIN t -> T] -> [DOMAIN t -> T]]
    <3>1. \A f \in [DOMAIN t -> T] : G(f) \in [DOMAIN t -> T]
      BY <1>2
    <3> QED
      BY <3>1
  <2>2. \A f, g \in [DOMAIN t -> T] : \A n \in DOMAIN t :
          (\A k \in KidsOf(t, n) : f[k] = g[k]) => B[f][n] = B[g][n]
    <3> SUFFICES ASSUME NEW f \in [DOMAIN t -> T], NEW g \in [DOMAIN t -> T], NEW n \in DOMAIN t,
                        \A k \in KidsOf(t, n) : f[k] = g[k]
                 PROVE  B[f][n] = B[g][n]
      OBVIOUS
    <3>1. {f[k] : k \in KidsOf(t, n)} = {g[k] : k \in KidsOf(t, n)}
      OBVIOUS
    <3> QED
      BY <3>1
  <2>3. {} \in T
    OBVIOUS
  <2>4. \A f \in [DOMAIN t -> T] : B[f] = G(f)
    OBVIOUS
  <2> HIDE DEF B, T, G
  <2>5. \E f \in [DOMAIN t -> T] : f = B[f]
    BY <2>1, <2>2, <2>3, TreeRecursion, ZenonT(60)
  <2> QED
    BY <2>4, <2>5
<1>4. s = G(s)
  BY <1>3, Zenon
<1> HIDE DEF s
<1>5. \A m \in DOMAIN t : s[m] = {m} \cup UNION {s[k] : k \in KidsOf(t, m)}
  BY <1>4
<1> QED
  BY <1>1, <1>5

\* What is built with a node hangs together: a part of it is the node, or the
\* first of another part.
LEMMA SpineFacts ==
  ASSUME NEW t, Proper(t), NEW m \in DOMAIN t
  PROVE  /\ m \in SpineOf(t, m)
         /\ \A x \in SpineOf(t, m) :
              /\ x \in DOMAIN t /\ x >= m
              /\ t[x].kind \in Wrappers => t[x].first \in SpineOf(t, m)
              /\ x # m => /\ ParentOf(t, x) \in SpineOf(t, m)
                          /\ t[ParentOf(t, x)].kind \in Wrappers
                          /\ x = t[ParentOf(t, x)].first
<1> DEFINE Good(n, x) ==
      /\ x \in DOMAIN t /\ x >= n
      /\ t[x].kind \in Wrappers => t[x].first \in SpineOf(t, n)
      /\ x # n => /\ ParentOf(t, x) \in SpineOf(t, n)
                  /\ t[ParentOf(t, x)].kind \in Wrappers
                  /\ x = t[ParentOf(t, x)].first
<1> DEFINE S == {n \in DOMAIN t : n \in SpineOf(t, n) /\ \A x \in SpineOf(t, n) : Good(n, x)}
<1>1. ASSUME NEW n \in DOMAIN t, KidsOf(t, n) \subseteq S
      PROVE  n \in S
  <2>0. n \in Nat
    BY TreeNodes
  <2>1. CASE t[n].kind \in Wrappers
    <3> DEFINE k == t[n].first
    <3>1. k \in KidsOf(t, n) /\ k \in DOMAIN t /\ k > n /\ ParentOf(t, k) = n /\ k \in Nat
      BY <2>1, NodeParts, KidAfter, TreeNodes
    <3>2. SpineOf(t, n) = {n} \cup SpineOf(t, k)
      BY <2>1, SpineForm
    <3>3. k \in SpineOf(t, k) /\ \A x \in SpineOf(t, k) : Good(k, x)
      BY <1>1, <3>1
    <3>4. ASSUME NEW x \in SpineOf(t, k)
          PROVE  Good(n, x)
      <4>1. Good(k, x)
        BY <3>3
      <4>2. x \in Nat
        BY <4>1, TreeNodes
      <4>3. CASE x = k
        BY <4>1, <4>2, <4>3, <3>1, <3>2, <2>0, <2>1
      <4>4. CASE x # k
        BY <4>1, <4>2, <4>4, <3>1, <3>2, <2>0
      <4> QED
        BY <4>3, <4>4
    <3>5. Good(n, n)
      BY <2>0, <3>2, <3>3
    <3> QED
      BY <3>2, <3>4, <3>5
  <2>2. CASE t[n].kind \notin Wrappers
    <3>1. SpineOf(t, n) = {n}
      BY <2>2, SpineForm
    <3> QED
      BY <2>0, <2>2, <3>1
  <2> QED
    BY <2>1, <2>2
<1> HIDE DEF S
<1>2. m \in S
  BY <1>1, KidInduction
<1> QED
  BY <1>2 DEF S

\* What is built with a node ends in one node that is not a wrapper.
LEMMA SpineEnd ==
  ASSUME NEW t, Proper(t), NEW m \in DOMAIN t
  PROVE  \E e \in SpineOf(t, m) :
           /\ t[e].kind \notin Wrappers
           /\ \A x \in SpineOf(t, m) : t[x].kind \notin Wrappers => x = e
<1> DEFINE S == {n \in DOMAIN t : \E e \in SpineOf(t, n) :
                   /\ t[e].kind \notin Wrappers
                   /\ \A x \in SpineOf(t, n) : t[x].kind \notin Wrappers => x = e}
<1>1. ASSUME NEW n \in DOMAIN t, KidsOf(t, n) \subseteq S
      PROVE  n \in S
  <2>1. CASE t[n].kind \in Wrappers
    <3> DEFINE k == t[n].first
    <3>1. k \in KidsOf(t, n)
      BY <2>1, NodeParts
    <3>2. SpineOf(t, n) = {n} \cup SpineOf(t, k)
      BY <2>1, SpineForm
    <3>3. k \in S
      BY <1>1, <3>1
    <3> QED
      BY <2>1, <3>2, <3>3
  <2>2. CASE t[n].kind \notin Wrappers
    <3>1. SpineOf(t, n) = {n}
      BY <2>2, SpineForm
    <3> QED
      BY <2>2, <3>1
  <2> QED
    BY <2>1, <2>2
<1> HIDE DEF S
<1>2. m \in S
  BY <1>1, KidInduction
<1> QED
  BY <1>2 DEF S

\* What is dropped with a node is closed under kids, and, but for the node,
\* under parents.
LEMMA SubtreeFacts ==
  ASSUME NEW t, Proper(t), NEW m \in DOMAIN t
  PROVE  /\ m \in SubtreeOf(t, m)
         /\ \A x \in SubtreeOf(t, m) :
              /\ x \in DOMAIN t /\ x >= m
              /\ KidsOf(t, x) \subseteq SubtreeOf(t, m)
              /\ x # m => ParentOf(t, x) \in SubtreeOf(t, m)
<1> DEFINE Good(n, x) ==
      /\ x \in DOMAIN t /\ x >= n
      /\ KidsOf(t, x) \subseteq SubtreeOf(t, n)
      /\ x # n => ParentOf(t, x) \in SubtreeOf(t, n)
<1> DEFINE S == {n \in DOMAIN t : n \in SubtreeOf(t, n) /\ \A x \in SubtreeOf(t, n) : Good(n, x)}
<1>1. ASSUME NEW n \in DOMAIN t, KidsOf(t, n) \subseteq S
      PROVE  n \in S
  <2>0. n \in Nat
    BY TreeNodes
  <2>1. SubtreeOf(t, n) = {n} \cup UNION {SubtreeOf(t, k) : k \in KidsOf(t, n)}
    BY SubtreeForm
  <2>2. \A k \in KidsOf(t, n) : /\ k \in DOMAIN t /\ k > n /\ ParentOf(t, k) = n /\ k \in Nat
                                /\ k \in SubtreeOf(t, k)
                                /\ \A x \in SubtreeOf(t, k) : Good(k, x)
    BY <1>1, KidAfter, TreeNodes
  <2>3. ASSUME NEW k \in KidsOf(t, n), NEW x \in SubtreeOf(t, k)
        PROVE  Good(n, x)
    <3>1. Good(k, x)
      BY <2>2
    <3>2. x \in Nat
      BY <3>1, TreeNodes
    <3>3. SubtreeOf(t, k) \subseteq SubtreeOf(t, n)
      BY <2>1
    <3>4. x # k => ParentOf(t, x) \in SubtreeOf(t, n)
      BY <3>1, <3>3
    <3>5. x = k => ParentOf(t, x) \in SubtreeOf(t, n)
      BY <2>1, <2>2
    <3>6. x >= n
      BY <3>1, <3>2, <2>0, <2>2
    <3> QED
      BY <3>1, <3>3, <3>4, <3>5, <3>6
  <2>4. Good(n, n)
    BY <2>0, <2>1, <2>2
  <2> QED
    BY <2>1, <2>3, <2>4
<1> HIDE DEF S
<1>2. m \in S
  BY <1>1, KidInduction
<1> QED
  BY <1>2 DEF S

\* Nothing is part of two kids of a node.
LEMMA SubtreesApart ==
  ASSUME NEW t, Proper(t), NEW p \in DOMAIN t,
         NEW a \in KidsOf(t, p), NEW b \in KidsOf(t, p), a # b
  PROVE  SubtreeOf(t, a) \cap SubtreeOf(t, b) = {}
<1>1. /\ a \in DOMAIN t /\ p < a /\ ParentOf(t, a) = p /\ a \in Nat
      /\ b \in DOMAIN t /\ p < b /\ ParentOf(t, b) = p /\ b \in Nat
      /\ p \in Nat
  BY KidAfter, TreeNodes
<1> SUFFICES ASSUME SubtreeOf(t, a) \cap SubtreeOf(t, b) # {}
             PROVE  FALSE
  OBVIOUS
<1>2. SubtreeOf(t, a) \cap SubtreeOf(t, b) \subseteq Nat
  BY <1>1, SubtreeFacts, TreeNodes
<1>3. PICK x \in SubtreeOf(t, a) \cap SubtreeOf(t, b) :
        \A y \in SubtreeOf(t, a) \cap SubtreeOf(t, b) : x <= y
  BY <1>2, LeastOf
<1>4. x # a
  BY <1>1, <1>3, SubtreeFacts
<1>5. x # b
  BY <1>1, <1>3, SubtreeFacts
<1>6. x \in DOMAIN t /\ x > 1
  BY <1>1, <1>3, <1>4, SubtreeFacts, TreeNodes
<1>7. ParentOf(t, x) \in SubtreeOf(t, a) \cap SubtreeOf(t, b)
  BY <1>1, <1>3, <1>4, <1>5, SubtreeFacts
<1>8. ParentOf(t, x) < x /\ ParentOf(t, x) \in Nat /\ x \in Nat
  BY <1>6, ParentBefore, TreeNodes
<1> QED
  BY <1>3, <1>7, <1>8

-----------------------------------------------------------------------------
(* What is built and what is held *)

Held   == {"operation", "wait", "future"}
Stages == Held \cup {"none", "over"}

\* The second operation of n once there is one, its first before.
TargetOf(t, sec, n) == IF sec[n] # None THEN sec[n] ELSE t[n].first

\* What was built is the first or the second operation of something that was
\* built; the body of a block is not built before the block is a future.
Built(t, st, sec) ==
  \A n \in DOMAIN t :
    /\ n # 1 /\ st[n] # "none" =>
         /\ st[ParentOf(t, n)] # "none"
         /\ n = t[ParentOf(t, n)].first \/ n = sec[ParentOf(t, n)]
         /\ t[ParentOf(t, n)].kind = "operation" => st[ParentOf(t, n)] # "operation"
    /\ sec[n] # None =>
         /\ st[n] # "none"
         /\ sec[n] \in {t[n].ok, t[n].err}
         /\ t[n].kind \in {"and_then", "continue_with"}
    /\ st[n] = "operation" => sec[n] = None

\* What is held belongs to something that is held, which is done with its first
\* when it has a second.  From the root down there are nodes on the stack of
\* `wait', then operations or, in a block_on, futures.
Chain(t, st, sec) ==
  \A n \in DOMAIN t \ {1} : st[n] \in Held =>
    /\ st[ParentOf(t, n)] \in Held
    /\ n = TargetOf(t, sec, ParentOf(t, n))
    /\ st[n] = "wait" => st[ParentOf(t, n)] = "wait"
    /\ st[n] = "future" =>
         st[ParentOf(t, n)] = "future" \/ (st[ParentOf(t, n)] = "wait" /\ t[n].kind = "operation")
    /\ st[ParentOf(t, n)] = "future" => st[n] = "future"

\* Nothing of what is built with a node is built before the node.
LEMMA SpineUnbuilt ==
  ASSUME NEW t, Proper(t), NEW st, NEW sec, Built(t, st, sec),
         NEW m \in DOMAIN t, st[m] = "none"
  PROVE  \A x \in SpineOf(t, m) : st[x] = "none"
<1> DEFINE X == {x \in SpineOf(t, m) : st[x] # "none"}
<1> SUFFICES ASSUME X # {}
             PROVE  FALSE
  OBVIOUS
<1>1. X \subseteq Nat
  BY SpineFacts, TreeNodes
<1>2. PICK x \in X : \A y \in X : x <= y
  BY <1>1, LeastOf
<1>3. x # m /\ x \in DOMAIN t /\ x >= m
  BY SpineFacts
<1>4. x # 1
  BY <1>3, TreeNodes
<1>5. ParentOf(t, x) \in SpineOf(t, m) /\ ParentOf(t, x) < x /\ ParentOf(t, x) \in Nat /\ x \in Nat
  BY <1>3, <1>4, SpineFacts, ParentBefore, TreeNodes
<1>6. st[ParentOf(t, x)] # "none"
  BY <1>3, <1>4 DEF Built
<1> QED
  BY <1>2, <1>5, <1>6

\* Dropping a node with all its parts.
LEMMA Dropping ==
  ASSUME NEW t, Proper(t), NEW st \in [DOMAIN t -> Stages], NEW sec,
         Built(t, st, sec), Chain(t, st, sec),
         NEW q \in DOMAIN t, NEW st2, st2 = Put(st, {n \in SubtreeOf(t, q) : st[n] # "none"}, "over")
  PROVE  /\ st2 \in [DOMAIN t -> Stages]
         /\ Built(t, st2, sec) /\ Chain(t, st2, sec)
         /\ \A n \in DOMAIN t : /\ n \in SubtreeOf(t, q) => st2[n] \notin Held
                                /\ n \notin SubtreeOf(t, q) => st2[n] = st[n]
                                /\ st2[n] = "none" <=> st[n] = "none"
                                /\ st2[n] \in Held => st2[n] = st[n]
<1> DEFINE X == {n \in SubtreeOf(t, q) : st[n] # "none"}
<1>1. "over" \in Stages
  BY DEF Stages
<1>2. /\ st2 \in [DOMAIN t -> Stages]
      /\ \A n \in DOMAIN t : (n \in X => st2[n] = "over") /\ (n \notin X => st2[n] = st[n])
  BY <1>1 DEF Put
<1>3. \A n \in DOMAIN t : /\ n \in SubtreeOf(t, q) => st2[n] \notin Held
                          /\ n \notin SubtreeOf(t, q) => st2[n] = st[n]
                          /\ st2[n] = "none" <=> st[n] = "none"
                          /\ st2[n] \in Held => st2[n] = st[n]
  BY <1>2 DEF Held
<1>4. \A n \in DOMAIN t \ {1} : ParentOf(t, n) \in DOMAIN t /\ n \in KidsOf(t, ParentOf(t, n))
  BY ParentBefore
<1>5. Built(t, st2, sec)
  BY <1>3, <1>4 DEF Built, Held
<1>6. Chain(t, st2, sec)
  <2> SUFFICES ASSUME NEW n \in DOMAIN t \ {1}, st2[n] \in Held
               PROVE  st2[ParentOf(t, n)] = st[ParentOf(t, n)] /\ st2[n] = st[n]
    BY DEF Chain
  <2>1. n \notin SubtreeOf(t, q)
    BY <1>3
  <2>2. ParentOf(t, n) \notin SubtreeOf(t, q)
    BY <2>1, <1>4, SubtreeFacts
  <2> QED
    BY <2>1, <2>2, <1>3, <1>4
<1> QED
  BY <1>2, <1>3, <1>5, <1>6

\* p has no second operation and m is its first, or m becomes its second.
Seconds(t, p, m, sec, sec2) ==
  \/ sec2 = sec /\ m = t[p].first
  \/ sec2 = Put(sec, {p}, m) /\ m \in {t[p].ok, t[p].err} /\ t[p].kind \in {"and_then", "continue_with"}

\* What building m adds is held by its parent p.
LEMMA Building ==
  ASSUME NEW t, Proper(t), NEW st \in [DOMAIN t -> Stages], NEW sec \in [DOMAIN t -> DOMAIN t \cup {None}],
         Built(t, st, sec), Chain(t, st, sec),
         NEW p \in DOMAIN t, NEW m \in KidsOf(t, p), NEW mode \in {"operation", "future"},
         st[p] \in {"wait", "future"}, st[p] = "future" <=> mode = "future",
         \A n \in KidsOf(t, p) : st[n] \notin Held,
         st[m] = "none", sec[p] = None,
         NEW sec2, Seconds(t, p, m, sec, sec2),
         NEW st2, st2 = Put(st, SpineOf(t, m), mode)
  PROVE  /\ st2 \in [DOMAIN t -> Stages] /\ sec2 \in [DOMAIN t -> DOMAIN t \cup {None}]
         /\ m = TargetOf(t, sec2, p)
         /\ \A n \in DOMAIN t : /\ n \in SpineOf(t, m) => st[n] = "none" /\ st2[n] = mode
                                /\ n \notin SpineOf(t, m) => st2[n] = st[n]
                                /\ n # p => sec2[n] = sec[n]
         /\ Built(t, st2, sec2) /\ Chain(t, st2, sec2)
<1>0. /\ p \in Nat /\ m \in DOMAIN t /\ m \in Nat /\ m > p /\ ParentOf(t, m) = p /\ m # 1 /\ m # None
      /\ \A n \in DOMAIN t : n \in Nat /\ n # None
  BY KidAfter, TreeNodes
<1>1. mode \in Held /\ mode \in Stages /\ mode # "none" /\ mode # "wait"
  BY DEF Stages, Held
<1>2. \A x \in SpineOf(t, m) : st[x] = "none"
  BY <1>0, SpineUnbuilt
<1>3. /\ st2 \in [DOMAIN t -> Stages]
      /\ \A n \in DOMAIN t : /\ n \in SpineOf(t, m) => st2[n] = mode
                             /\ n \notin SpineOf(t, m) => st2[n] = st[n]
  BY <1>1 DEF Put
<1>4. /\ sec2 \in [DOMAIN t -> DOMAIN t \cup {None}]
      /\ \A n \in DOMAIN t : n # p => sec2[n] = sec[n]
      /\ (sec2[p] = None /\ m = t[p].first) \/ sec2[p] = m
  <2>1. CASE sec2 = sec /\ m = t[p].first
    BY <2>1
  <2>2. CASE sec2 = Put(sec, {p}, m) /\ m \in {t[p].ok, t[p].err} /\ t[p].kind \in {"and_then", "continue_with"}
    <3>1. m \in DOMAIN t \cup {None}
      BY <1>0
    <3> QED
      BY <2>2, <3>1 DEF Put
  <2> QED
    BY <2>1, <2>2 DEF Seconds
<1>5. m = TargetOf(t, sec2, p)
  BY <1>0, <1>4 DEF TargetOf
<1>6. p \notin SpineOf(t, m) /\ st2[p] = st[p]
  BY <1>0, <1>3, SpineFacts
<1>7. \A n \in DOMAIN t \ {1} : ParentOf(t, n) \in DOMAIN t /\ n \in KidsOf(t, ParentOf(t, n))
  BY ParentBefore
<1>8. Built(t, st2, sec2)
  <2> SUFFICES ASSUME NEW n \in DOMAIN t
               PROVE
                 /\ n # 1 /\ st2[n] # "none" =>
                      /\ st2[ParentOf(t, n)] # "none"
                      /\ n = t[ParentOf(t, n)].first \/ n = sec2[ParentOf(t, n)]
                      /\ t[ParentOf(t, n)].kind = "operation" => st2[ParentOf(t, n)] # "operation"
                 /\ sec2[n] # None =>
                      /\ st2[n] # "none"
                      /\ sec2[n] \in {t[n].ok, t[n].err}
                      /\ t[n].kind \in {"and_then", "continue_with"}
                 /\ st2[n] = "operation" => sec2[n] = None
    BY DEF Built
  <2>1. ASSUME n # 1, st2[n] # "none", n \in SpineOf(t, m)
        PROVE  /\ st2[ParentOf(t, n)] # "none"
               /\ n = t[ParentOf(t, n)].first \/ n = sec2[ParentOf(t, n)]
               /\ t[ParentOf(t, n)].kind = "operation" => st2[ParentOf(t, n)] # "operation"
    <3>1. CASE n = m
      BY <3>1, <1>0, <1>4, <1>6
    <3>2. CASE n # m
      <4>1. ParentOf(t, n) \in SpineOf(t, m) /\ t[ParentOf(t, n)].kind \in Wrappers /\ n = t[ParentOf(t, n)].first
        BY <3>2, <2>1, <1>0, SpineFacts
      <4>2. st2[ParentOf(t, n)] = mode
        BY <4>1, <2>1, <1>3, <1>7
      <4> QED
        BY <4>1, <4>2, <1>1 DEF Wrappers
    <3> QED
      BY <3>1, <3>2
  <2>2. ASSUME n # 1, st2[n] # "none", n \notin SpineOf(t, m)
        PROVE  /\ st2[ParentOf(t, n)] # "none"
               /\ n = t[ParentOf(t, n)].first \/ n = sec2[ParentOf(t, n)]
               /\ t[ParentOf(t, n)].kind = "operation" => st2[ParentOf(t, n)] # "operation"
    <3>1. st[n] # "none"
      BY <2>2, <1>3
    <3>2. /\ st[ParentOf(t, n)] # "none"
          /\ n = t[ParentOf(t, n)].first \/ n = sec[ParentOf(t, n)]
          /\ t[ParentOf(t, n)].kind = "operation" => st[ParentOf(t, n)] # "operation"
      BY <2>2, <3>1 DEF Built
    <3>3. ParentOf(t, n) \notin SpineOf(t, m) /\ st2[ParentOf(t, n)] = st[ParentOf(t, n)]
      BY <3>2, <1>2, <1>3, <1>7, <2>2
    <3>4. ParentOf(t, n) = p => n = t[p].first
      BY <3>2, <1>0
    <3> QED
      BY <3>2, <3>3, <3>4, <1>4, <1>7, <2>2
  <2>3. ASSUME sec2[n] # None
        PROVE  st2[n] # "none" /\ sec2[n] \in {t[n].ok, t[n].err} /\ t[n].kind \in {"and_then", "continue_with"}
    <3>1. CASE n = p
      <4>1. sec2 # sec
        BY <3>1, <2>3
      <4> QED
        BY <3>1, <2>3, <4>1, <1>4, <1>6 DEF Seconds
    <3>2. CASE n # p
      <4>1. sec[n] # None /\ st[n] # "none"
        BY <3>2, <2>3, <1>4 DEF Built
      <4> QED
        BY <3>2, <4>1, <1>2, <1>3, <1>4 DEF Built
    <3> QED
      BY <3>1, <3>2
  <2>4. ASSUME st2[n] = "operation"
        PROVE  sec2[n] = None
    <3>1. n # p
      BY <2>4, <1>6
    <3>2. CASE n \in SpineOf(t, m)
      BY <3>1, <3>2, <1>2, <1>4 DEF Built
    <3>3. CASE n \notin SpineOf(t, m)
      BY <3>1, <3>3, <2>4, <1>3, <1>4 DEF Built
    <3> QED
      BY <3>2, <3>3
  <2> QED
    BY <2>1, <2>2, <2>3, <2>4
<1>9. Chain(t, st2, sec2)
  <2> SUFFICES ASSUME NEW n \in DOMAIN t \ {1}, st2[n] \in Held
               PROVE  /\ st2[ParentOf(t, n)] \in Held
                      /\ n = TargetOf(t, sec2, ParentOf(t, n))
                      /\ st2[n] = "wait" => st2[ParentOf(t, n)] = "wait"
                      /\ st2[n] = "future" =>
                           \/ st2[ParentOf(t, n)] = "future"
                           \/ st2[ParentOf(t, n)] = "wait" /\ t[n].kind = "operation"
                      /\ st2[ParentOf(t, n)] = "future" => st2[n] = "future"
    BY DEF Chain
  <2>1. CASE n = m
    <3>1. st2[n] = mode /\ st2[ParentOf(t, n)] = st[p]
      BY <2>1, <1>0, <1>3, <1>6, SpineFacts
    <3> QED
      BY <2>1, <3>1, <1>0, <1>1, <1>5 DEF Held
  <2>2. CASE n \in SpineOf(t, m) /\ n # m
    <3>1. ParentOf(t, n) \in SpineOf(t, m) /\ n = t[ParentOf(t, n)].first
      BY <2>2, <1>0, SpineFacts
    <3>2. st2[n] = mode /\ st2[ParentOf(t, n)] = mode /\ st[ParentOf(t, n)] = "none"
      BY <2>2, <3>1, <1>2, <1>3, <1>7
    <3>3. sec2[ParentOf(t, n)] = None
      BY <3>1, <3>2, <1>4, <1>6, <1>7 DEF Built
    <3> QED
      BY <3>1, <3>2, <3>3, <1>1 DEF TargetOf
  <2>3. CASE n \notin SpineOf(t, m)
    <3>1. st2[n] = st[n] /\ st[n] \in Held
      BY <2>3, <1>3
    <3>2. st[ParentOf(t, n)] \in Held
      BY <3>1 DEF Chain
    <3>3. st2[ParentOf(t, n)] = st[ParentOf(t, n)]
      BY <3>2, <1>2, <1>3, <1>7 DEF Held
    <3>4. ParentOf(t, n) # p
      BY <3>1, <1>7
    <3>5. TargetOf(t, sec2, ParentOf(t, n)) = TargetOf(t, sec, ParentOf(t, n))
      BY <3>4, <1>4, <1>7 DEF TargetOf
    <3> QED
      BY <3>1, <3>3, <3>5 DEF Chain
  <2> QED
    BY <2>1, <2>2, <2>3
<1> QED
  BY <1>2, <1>3, <1>4, <1>5, <1>8, <1>9

\* The root with what is built with it, and nothing else.
LEMMA Rooted ==
  ASSUME NEW t, Proper(t), NEW mode \in {"operation", "future"},
         NEW st, st = [n \in DOMAIN t |-> IF n \in SpineOf(t, 1) THEN mode ELSE "none"],
         NEW sec \in [DOMAIN t -> DOMAIN t \cup {None}], \A n \in DOMAIN t : sec[n] = None
  PROVE  st \in [DOMAIN t -> Stages] /\ Built(t, st, sec) /\ Chain(t, st, sec)
<1>0. 1 \in DOMAIN t
  BY TreeNodes
<1>1. mode \in Held /\ mode \in Stages /\ mode # "none" /\ mode # "wait" /\ "none" \in Stages /\ "none" \notin Held
  BY DEF Stages, Held
<1>2. /\ st \in [DOMAIN t -> Stages]
      /\ \A n \in DOMAIN t : (n \in SpineOf(t, 1) => st[n] = mode) /\ (n \notin SpineOf(t, 1) => st[n] = "none")
  BY <1>1
<1>3. \A n \in SpineOf(t, 1) \ {1} : /\ ParentOf(t, n) \in SpineOf(t, 1) /\ ParentOf(t, n) \in DOMAIN t
                                     /\ t[ParentOf(t, n)].kind \in Wrappers
                                     /\ n = t[ParentOf(t, n)].first
  BY <1>0, SpineFacts
<1>4. Built(t, st, sec)
  BY <1>1, <1>2, <1>3 DEF Built, Wrappers
<1>5. Chain(t, st, sec)
  <2> SUFFICES ASSUME NEW n \in DOMAIN t \ {1}, st[n] \in Held
               PROVE  /\ st[ParentOf(t, n)] = mode /\ st[n] = mode
                      /\ n = TargetOf(t, sec, ParentOf(t, n))
    BY <1>1 DEF Chain
  <2>1. n \in SpineOf(t, 1) \ {1}
    BY <1>1, <1>2
  <2> QED
    BY <2>1, <1>2, <1>3 DEF TargetOf
<1> QED
  BY <1>2, <1>4, <1>5

\* n may become v: a wrapper on the stack, a block run by block_on, or a leaf
\* that wait consumed.
Becomes(t, n, v) ==
  \/ v = "wait"
  \/ v = "future" /\ t[n].kind = "operation"
  \/ v = "over" /\ t[n].kind \in Effects \cup {"ready"}

\* A node whose parent waits is waited for, run by block_on, or consumed.
LEMMA Marking ==
  ASSUME NEW t, Proper(t), NEW st \in [DOMAIN t -> Stages], NEW sec,
         Built(t, st, sec), Chain(t, st, sec),
         NEW n \in DOMAIN t, st[n] = "operation", n # 1 => st[ParentOf(t, n)] = "wait",
         NEW v, Becomes(t, n, v),
         NEW st2, st2 = Put(st, {n}, v)
  PROVE  /\ st2 \in [DOMAIN t -> Stages]
         /\ st2[n] = v /\ \A x \in DOMAIN t : x # n => st2[x] = st[x]
         /\ Built(t, st2, sec) /\ Chain(t, st2, sec)
<1>1. v \in Stages /\ v # "none" /\ v # "operation"
  BY DEF Stages, Held, Becomes
<1>2. /\ st2 \in [DOMAIN t -> Stages]
      /\ st2[n] = v /\ \A x \in DOMAIN t : x # n => st2[x] = st[x]
  BY <1>1 DEF Put
<1>3. \A x \in DOMAIN t \ {1} : /\ ParentOf(t, x) \in DOMAIN t /\ ParentOf(t, x) # x
                                /\ x \in KidsOf(t, ParentOf(t, x))
                                /\ ParentOf(t, x) \in Nat /\ x \in Nat
  BY ParentBefore, TreeNodes
<1>4. Built(t, st2, sec)
  <2>1. \A x \in DOMAIN t : (st2[x] = "none" <=> st[x] = "none") /\ (st2[x] = "operation" => st[x] = "operation")
    BY <1>1, <1>2
  <2> QED
    BY <2>1, <1>3 DEF Built
<1>5. Chain(t, st2, sec)
  <2> SUFFICES ASSUME NEW x \in DOMAIN t \ {1}, st2[x] \in Held
               PROVE  /\ st2[ParentOf(t, x)] \in Held
                      /\ x = TargetOf(t, sec, ParentOf(t, x))
                      /\ st2[x] = "wait" => st2[ParentOf(t, x)] = "wait"
                      /\ st2[x] = "future" =>
                           \/ st2[ParentOf(t, x)] = "future"
                           \/ st2[ParentOf(t, x)] = "wait" /\ t[x].kind = "operation"
                      /\ st2[ParentOf(t, x)] = "future" => st2[x] = "future"
    BY DEF Chain
  <2>1. CASE x = n
    <3>1. st2[ParentOf(t, x)] = "wait"
      BY <2>1, <1>2, <1>3
    <3>2. x = TargetOf(t, sec, ParentOf(t, x))
      BY <2>1 DEF Chain, Held
    <3>3. v \in Held /\ (v = "future" => t[n].kind = "operation")
      BY <2>1, <1>2 DEF Becomes
    <3> QED
      BY <2>1, <3>1, <3>2, <3>3, <1>2 DEF Held
  <2>2. CASE x # n /\ ParentOf(t, x) # n
    <3>1. st2[x] = st[x] /\ st2[ParentOf(t, x)] = st[ParentOf(t, x)]
      BY <2>2, <1>2, <1>3
    <3> QED
      BY <3>1 DEF Chain
  <2>3. CASE x # n /\ ParentOf(t, x) = n
    <3>1. st2[x] = st[x] /\ st[x] \in Held /\ st[x] # "none"
      BY <2>3, <1>2 DEF Held
    <3>2. st[x] = "operation" /\ x = TargetOf(t, sec, ParentOf(t, x))
      BY <3>1, <2>3 DEF Chain, Held
    <3>3. t[n].kind # "operation"
      BY <3>1, <2>3 DEF Built
    <3>4. t[n].kind \notin Effects \cup {"ready"}
      BY <2>3, <1>3, NodeParts
    <3>5. v = "wait"
      BY <3>3, <3>4 DEF Becomes
    <3> QED
      BY <3>1, <3>2, <3>5, <2>3, <1>2 DEF Held
  <2> QED
    BY <2>1, <2>2, <2>3
<1> QED
  BY <1>2, <1>4, <1>5

\* What is held is a chain: between a node that is held and its parent there
\* is nothing held.
LEMMA Between ==
  ASSUME NEW t, Proper(t), NEW st, NEW sec, Chain(t, st, sec),
         NEW b \in DOMAIN t \ {1}, st[b] \in Held,
         NEW a \in DOMAIN t, st[a] \in Held, ParentOf(t, b) < a
  PROVE  b <= a
<1>0. \A x \in DOMAIN t : x \in Nat /\ x >= 1
  BY TreeNodes
<1>1. \A x \in DOMAIN t \ {1} : ParentOf(t, x) \in DOMAIN t /\ ParentOf(t, x) < x
  BY ParentBefore
<1> DEFINE A(y) == {x \in DOMAIN t : st[x] \in Held /\ ParentOf(t, y) < x /\ x < y}
<1> DEFINE Bad == {y \in DOMAIN t \ {1} : st[y] \in Held /\ A(y) # {}}
<1> SUFFICES ASSUME a < b
             PROVE  FALSE
  BY <1>0
<1>2. b \in Bad
  OBVIOUS
<1>3. Bad \subseteq Nat
  BY <1>0
<1> HIDE DEF Bad
<1>4. PICK y \in Bad : \A z \in Bad : y <= z
  BY <1>2, <1>3, LeastOf
<1>5. y \in DOMAIN t \ {1} /\ st[y] \in Held /\ A(y) # {}
  BY <1>4 DEF Bad
<1>6. A(y) \subseteq Nat
  BY <1>0
<1> HIDE DEF A
<1>7. PICK x \in A(y) : \A z \in A(y) : x <= z
  BY <1>5, <1>6, LeastOf
<1>8. x \in DOMAIN t /\ st[x] \in Held /\ ParentOf(t, y) < x /\ x < y
  BY <1>7 DEF A
<1>9. x # 1 /\ ParentOf(t, y) \in DOMAIN t /\ ParentOf(t, y) \in Nat
  BY <1>0, <1>1, <1>5, <1>8
<1> DEFINE q == ParentOf(t, x)
<1>10. q \in DOMAIN t /\ q < x /\ q \in Nat /\ x \in Nat /\ y \in Nat
  BY <1>0, <1>1, <1>5, <1>8, <1>9
<1>11. st[q] \in Held /\ x = TargetOf(t, sec, q)
  BY <1>8, <1>9 DEF Chain
<1>12. st[ParentOf(t, y)] \in Held /\ y = TargetOf(t, sec, ParentOf(t, y))
  BY <1>5 DEF Chain
<1>13. q # ParentOf(t, y)
  BY <1>8, <1>10, <1>11, <1>12
<1>14. CASE ParentOf(t, y) < q
  <2>1. q \in A(y)
    BY <1>14, <1>8, <1>10, <1>11 DEF A
  <2> QED
    BY <2>1, <1>7, <1>10
<1>15. CASE q < ParentOf(t, y)
  <2>1. ParentOf(t, y) \in A(x)
    BY <1>15, <1>8, <1>9, <1>12 DEF A
  <2>2. x \in Bad
    BY <2>1, <1>8, <1>9 DEF Bad
  <2> QED
    BY <2>2, <1>4, <1>8, <1>10
<1> QED
  BY <1>9, <1>10, <1>13, <1>14, <1>15

\* What is before a future that is the root, or that a stack waits for, is the
\* stack.
LEMMA StackAbove ==
  ASSUME NEW t, Proper(t), NEW st, NEW sec, Chain(t, st, sec),
         NEW p \in DOMAIN t, st[p] = "future", p # 1 => st[ParentOf(t, p)] = "wait",
         NEW y \in DOMAIN t, st[y] \in Held, y < p
  PROVE  st[y] = "wait"
<1>0. \A x \in DOMAIN t : x \in Nat /\ x >= 1
  BY TreeNodes
<1>1. \A x \in DOMAIN t \ {1} : ParentOf(t, x) \in DOMAIN t /\ ParentOf(t, x) < x
  BY ParentBefore
<1> DEFINE Bad == {q \in DOMAIN t : st[q] = "wait" /\ \E x \in DOMAIN t : x < q /\ st[x] \in Held /\ st[x] # "wait"}
<1>2. Bad = {}
  <2> SUFFICES ASSUME Bad # {}
               PROVE  FALSE
    OBVIOUS
  <2>1. Bad \subseteq Nat
    BY <1>0
  <2>2. PICK q \in Bad : \A z \in Bad : q <= z
    BY <2>1, LeastOf
  <2>3. PICK x \in DOMAIN t : x < q /\ st[x] \in Held /\ st[x] # "wait"
    OBVIOUS
  <2>4. q # 1 /\ q \in DOMAIN t /\ st[q] = "wait"
    BY <1>0, <2>3
  <2>5. st[ParentOf(t, q)] = "wait" /\ ParentOf(t, q) \in DOMAIN t /\ ParentOf(t, q) < q
    BY <2>4, <1>1 DEF Chain, Held
  <2>6. ~(ParentOf(t, q) < x)
    BY <2>3, <2>4, <1>0, Between DEF Held
  <2>7. x < ParentOf(t, q)
    BY <2>3, <2>5, <2>6, <1>0
  <2>8. ParentOf(t, q) \in Bad
    BY <2>3, <2>5, <2>7
  <2> QED
    BY <2>2, <2>4, <2>5, <2>8, <1>0
<1> HIDE DEF Bad
<1>3. p # 1
  BY <1>0
<1>4. ParentOf(t, p) \in DOMAIN t /\ st[ParentOf(t, p)] = "wait"
  BY <1>1, <1>3
<1>5. ~(ParentOf(t, p) < y)
  BY <1>0, <1>3, Between DEF Held
<1>6. y = ParentOf(t, p) \/ y < ParentOf(t, p)
  BY <1>0, <1>4, <1>5
<1>7. y < ParentOf(t, p) => st[y] = "wait"
  BY <1>2, <1>4 DEF Bad
<1> QED
  BY <1>4, <1>6, <1>7

\* A part of n is held only if n is.
LEMMA PartsHeld ==
  ASSUME NEW t, Proper(t), NEW st, NEW sec, Chain(t, st, sec),
         NEW n \in DOMAIN t, NEW x \in SubtreeOf(t, n), st[x] \in Held
  PROVE  st[n] \in Held
<1> DEFINE X == {y \in SubtreeOf(t, n) : st[y] \in Held}
<1>1. X \subseteq Nat /\ X # {}
  BY SubtreeFacts, TreeNodes
<1>2. PICK y \in X : \A z \in X : y <= z
  BY <1>1, LeastOf
<1>3. CASE y = n
  BY <1>2, <1>3
<1>4. CASE y # n
  <2>1. y \in DOMAIN t /\ y >= n /\ ParentOf(t, y) \in SubtreeOf(t, n)
    BY <1>4, SubtreeFacts
  <2>2. y # 1
    BY <2>1, <1>4, TreeNodes
  <2>3. ParentOf(t, y) < y /\ ParentOf(t, y) \in Nat /\ y \in Nat
    BY <2>1, <2>2, ParentBefore, TreeNodes
  <2>4. st[ParentOf(t, y)] \in Held
    BY <2>1, <2>2 DEF Chain
  <2> QED
    BY <2>1, <2>3, <2>4, <1>2
<1> QED
  BY <1>3, <1>4

\* Of two nodes that are held the first has kids.
LEMMA LeafIsLast ==
  ASSUME NEW t, Proper(t), NEW st, NEW sec, Chain(t, st, sec),
         NEW a \in DOMAIN t, st[a] \in Held, NEW b \in DOMAIN t, st[b] \in Held, a < b
  PROVE  KidsOf(t, a) # {}
<1>0. \A x \in DOMAIN t : x \in Nat /\ x >= 1
  BY TreeNodes
<1> DEFINE X == {x \in DOMAIN t : st[x] \in Held /\ a < x}
<1>1. X \subseteq Nat /\ b \in X
  BY <1>0
<1>2. PICK y \in X : \A z \in X : y <= z
  BY <1>1, LeastOf
<1>3. y \in DOMAIN t \ {1} /\ st[y] \in Held /\ a < y
  BY <1>0, <1>2
<1>4. ParentOf(t, y) \in DOMAIN t /\ ParentOf(t, y) < y /\ y \in KidsOf(t, ParentOf(t, y))
  BY <1>3, ParentBefore
<1>5. st[ParentOf(t, y)] \in Held
  BY <1>3 DEF Chain
<1>6. ~(ParentOf(t, y) < a)
  BY <1>0, <1>3, Between
<1>7. ~(a < ParentOf(t, y))
  BY <1>0, <1>2, <1>3, <1>4, <1>5
<1>8. a = ParentOf(t, y)
  BY <1>0, <1>4, <1>6, <1>7
<1> QED
  BY <1>4, <1>8

-----------------------------------------------------------------------------
(* The shape of the execution *)

\* What comes next at a node is one of its kids.
LEMMA TargetKid ==
  ASSUME NEW t, Proper(t), NEW st, NEW sec, Built(t, st, sec),
         NEW n \in DOMAIN t, t[n].first # None
  PROVE  /\ TargetOf(t, sec, n) \in KidsOf(t, n) /\ TargetOf(t, sec, n) \in DOMAIN t
         /\ TargetOf(t, sec, n) # 1 /\ ParentOf(t, TargetOf(t, sec, n)) = n
<1>1. sec[n] # None => sec[n] \in KidsOf(t, n)
  BY DEF Built, KidsOf
<1>2. t[n].first \in KidsOf(t, n)
  BY NodeParts
<1>3. TargetOf(t, sec, n) \in KidsOf(t, n)
  BY <1>1, <1>2 DEF TargetOf
<1> QED
  BY <1>3, KidAfter

\* An operation is ready to be waited for.
Waitable(t, st) ==
  \A x \in DOMAIN t : st[x] = "operation" /\ t[x].kind \in Wrappers => st[t[x].first] = "operation"

\* The future x is ready to be polled.
Pollable(t, st, sec, x) ==
  st[x] = "future" /\ t[x].first # None =>
    \/ st[TargetOf(t, sec, x)] = "future"
    \/ t[x].kind = "operation" /\ st[TargetOf(t, sec, x)] = "none"

\* When n is no operation any more, the others are as ready as before.
LEMMA ReadyMarking ==
  ASSUME NEW t, Proper(t), NEW st, NEW sec, Built(t, st, sec),
         NEW n \in DOMAIN t, st[n] = "operation", n # 1 => st[ParentOf(t, n)] = "wait",
         NEW st2, st2[n] # "operation", \A x \in DOMAIN t : x # n => st2[x] = st[x],
         Waitable(t, st), \A x \in DOMAIN t : Pollable(t, st, sec, x)
  PROVE  Waitable(t, st2) /\ \A x \in DOMAIN t \ {n} : Pollable(t, st2, sec, x)
<1>1. ASSUME NEW x \in DOMAIN t, st2[x] = "operation", t[x].kind \in Wrappers
      PROVE  st2[t[x].first] = "operation"
  <2>1. x # n /\ st[x] = "operation"
    BY <1>1
  <2>2. st[t[x].first] = "operation"
    BY <1>1, <2>1 DEF Waitable
  <2>3. t[x].first \in DOMAIN t /\ t[x].first # 1 /\ ParentOf(t, t[x].first) = x
    BY <1>1, NodeParts, KidAfter
  <2>4. t[x].first # n
    BY <2>1, <2>3
  <2> QED
    BY <2>2, <2>3, <2>4
<1>2. ASSUME NEW x \in DOMAIN t, st2[x] = "future", t[x].first # None, x # n
      PROVE  \/ st2[TargetOf(t, sec, x)] = "future"
             \/ t[x].kind = "operation" /\ st2[TargetOf(t, sec, x)] = "none"
  <2>1. \/ st[TargetOf(t, sec, x)] = "future"
        \/ t[x].kind = "operation" /\ st[TargetOf(t, sec, x)] = "none"
    BY <1>2 DEF Pollable
  <2>2. TargetOf(t, sec, x) # n /\ TargetOf(t, sec, x) \in DOMAIN t
    BY <1>2, <2>1, TargetKid
  <2> QED
    BY <2>1, <2>2
<1> QED
  BY <1>1, <1>2 DEF Waitable, Pollable

\* When q is dropped with its parts, only its parent may be less ready than it
\* was.
LEMMA ReadyDropping ==
  ASSUME NEW t, Proper(t), NEW st, NEW sec, Built(t, st, sec),
         NEW q \in DOMAIN t, q # 1 => st[ParentOf(t, q)] # "operation",
         NEW st2, \A n \in DOMAIN t : /\ n \in SubtreeOf(t, q) => st2[n] \notin Held
                                      /\ n \notin SubtreeOf(t, q) => st2[n] = st[n]
                                      /\ st2[n] = "none" <=> st[n] = "none"
                                      /\ st2[n] \in Held => st2[n] = st[n],
         Waitable(t, st)
  PROVE  /\ Waitable(t, st2)
         /\ \A x \in DOMAIN t : /\ st2[x] = "future" => st[x] = "future" /\ x \notin SubtreeOf(t, q)
                                /\ x # ParentOf(t, q) /\ Pollable(t, st, sec, x) => Pollable(t, st2, sec, x)
<1>0. \A n \in DOMAIN t \ {1} : ParentOf(t, n) \in DOMAIN t
  BY ParentBefore
<1>1. ASSUME NEW x \in DOMAIN t, st2[x] = "operation", t[x].kind \in Wrappers
      PROVE  st2[t[x].first] = "operation"
  <2>1. x \notin SubtreeOf(t, q) /\ st[x] = "operation"
    BY <1>1 DEF Held
  <2>2. st[t[x].first] = "operation"
    BY <1>1, <2>1 DEF Waitable
  <2>3. t[x].first \in DOMAIN t /\ t[x].first # 1 /\ ParentOf(t, t[x].first) = x
    BY <1>1, NodeParts, KidAfter
  <2>4. t[x].first # q
    BY <2>1, <2>3
  <2>5. t[x].first \notin SubtreeOf(t, q)
    BY <2>1, <2>3, <2>4, SubtreeFacts
  <2> QED
    BY <2>2, <2>3, <2>5
<1>2. ASSUME NEW x \in DOMAIN t, st2[x] = "future"
      PROVE  st[x] = "future" /\ x \notin SubtreeOf(t, q)
  BY <1>2 DEF Held
<1>3. ASSUME NEW x \in DOMAIN t, st2[x] = "future", t[x].first # None, x # ParentOf(t, q), Pollable(t, st, sec, x)
      PROVE  \/ st2[TargetOf(t, sec, x)] = "future"
             \/ t[x].kind = "operation" /\ st2[TargetOf(t, sec, x)] = "none"
  <2>1. \/ st[TargetOf(t, sec, x)] = "future"
        \/ t[x].kind = "operation" /\ st[TargetOf(t, sec, x)] = "none"
    BY <1>2, <1>3 DEF Pollable
  <2>2. TargetOf(t, sec, x) \in DOMAIN t /\ TargetOf(t, sec, x) # 1 /\ ParentOf(t, TargetOf(t, sec, x)) = x
    BY <1>3, TargetKid
  <2>3. TargetOf(t, sec, x) # q /\ TargetOf(t, sec, x) \notin SubtreeOf(t, q)
    BY <1>2, <1>3, <2>2, SubtreeFacts
  <2> QED
    BY <2>1, <2>2, <2>3
<1> QED
  BY <1>1, <1>2, <1>3 DEF Waitable, Pollable

\* When p has what was built for it, everything is ready.
LEMMA ReadyBuilding ==
  ASSUME NEW t, Proper(t), NEW st, NEW sec, Built(t, st, sec),
         NEW p \in DOMAIN t, NEW m \in KidsOf(t, p), NEW mode \in {"operation", "future"},
         NEW st2, NEW sec2,
         \A n \in DOMAIN t : /\ n \in SpineOf(t, m) => st[n] = "none" /\ st2[n] = mode
                             /\ n \notin SpineOf(t, m) => st2[n] = st[n]
                             /\ n # p => sec2[n] = sec[n],
         st[p] = "wait" \/ (st[p] = "future" /\ mode = "future"),
         m = TargetOf(t, sec2, p),
         Waitable(t, st), \A x \in DOMAIN t \ {p} : Pollable(t, st, sec, x)
  PROVE  Waitable(t, st2) /\ \A x \in DOMAIN t : Pollable(t, st2, sec2, x)
<1>0. m \in DOMAIN t /\ ParentOf(t, m) = p
  BY KidAfter
<1>1. ASSUME NEW x \in DOMAIN t, st2[x] = "operation", t[x].kind \in Wrappers
      PROVE  st2[t[x].first] = "operation"
  <2>1. t[x].first \in DOMAIN t
    BY <1>1, NodeParts, KidAfter
  <2>2. CASE x \in SpineOf(t, m)
    <3>1. t[x].first \in SpineOf(t, m)
      BY <1>0, <1>1, <2>2, SpineFacts
    <3> QED
      BY <1>1, <2>1, <2>2, <3>1
  <2>3. CASE x \notin SpineOf(t, m)
    <3>1. st[t[x].first] = "operation"
      BY <1>1, <2>3 DEF Waitable
    <3> QED
      BY <2>1, <3>1
  <2> QED
    BY <2>2, <2>3
<1>2. ASSUME NEW x \in DOMAIN t, st2[x] = "future", t[x].first # None
      PROVE  \/ st2[TargetOf(t, sec2, x)] = "future"
             \/ t[x].kind = "operation" /\ st2[TargetOf(t, sec2, x)] = "none"
  <2>1. CASE x = p
    <3>1. m \in SpineOf(t, m)
      BY <1>0, SpineFacts
    <3>2. p \notin SpineOf(t, m)
      BY DEF Held
    <3> QED
      BY <1>0, <1>2, <2>1, <3>1, <3>2
  <2>2. CASE x # p /\ x \in SpineOf(t, m)
    <3>1. sec[x] = None /\ st[x] = "none"
      BY <2>2 DEF Built
    <3>2. TargetOf(t, sec2, x) = t[x].first
      BY <2>2, <3>1 DEF TargetOf
    <3>3. t[x].first \in DOMAIN t /\ t[x].first # 1 /\ ParentOf(t, t[x].first) = x
      BY <1>2, NodeParts, KidAfter
    <3>4. CASE t[x].kind \in Wrappers
      <4>1. t[x].first \in SpineOf(t, m)
        BY <1>0, <2>2, <3>4, SpineFacts
      <4> QED
        BY <1>2, <2>2, <3>2, <3>3, <4>1
    <3>5. CASE t[x].kind \notin Wrappers
      <4>1. t[x].kind = "operation"
        BY <1>2, <3>5, NodeParts
      <4>2. st[t[x].first] = "none"
        BY <3>1, <3>3 DEF Built
      <4>3. st2[t[x].first] \in {mode, "none"} /\ mode = "future"
        BY <4>2, <3>3, <1>2, <2>2
      <4> QED
        BY <3>2, <4>1, <4>3
    <3> QED
      BY <3>4, <3>5
  <2>3. CASE x # p /\ x \notin SpineOf(t, m)
    <3>1. st[x] = "future" /\ TargetOf(t, sec2, x) = TargetOf(t, sec, x)
      BY <1>2, <2>3 DEF TargetOf
    <3>2. \/ st[TargetOf(t, sec, x)] = "future"
          \/ t[x].kind = "operation" /\ st[TargetOf(t, sec, x)] = "none"
      BY <1>2, <2>3, <3>1 DEF Pollable
    <3>3. TargetOf(t, sec, x) \in DOMAIN t
      BY <1>2, TargetKid
    <3>4. CASE st[TargetOf(t, sec, x)] = "future"
      BY <3>1, <3>3, <3>4
    <3>5. CASE t[x].kind = "operation" /\ st[TargetOf(t, sec, x)] = "none"
      <4>1. CASE TargetOf(t, sec, x) \in SpineOf(t, m)
        <5>1. x = ParentOf(t, TargetOf(t, sec, x)) /\ TargetOf(t, sec, x) # 1
          BY <1>2, TargetKid
        <5>2. TargetOf(t, sec, x) = m \/ x \in SpineOf(t, m)
          BY <4>1, <5>1, <1>0, SpineFacts
        <5> QED
          BY <5>1, <5>2, <1>0, <2>3
      <4>2. CASE TargetOf(t, sec, x) \notin SpineOf(t, m)
        BY <3>1, <3>3, <3>5, <4>2
      <4> QED
        BY <4>1, <4>2
    <3> QED
      BY <3>2, <3>4, <3>5
  <2> QED
    BY <2>1, <2>2, <2>3
<1> QED
  BY <1>1, <1>2 DEF Waitable, Pollable

\* The operations are ready, and so are the futures, but those whose call is
\* returning, and the one whose first operation was just released.
Prepared(t, st, sec, do, at) ==
  /\ Waitable(t, st)
  /\ \A n \in DOMAIN t : \/ Pollable(t, st, sec, n)
                         \/ do = "return" /\ n \in SubtreeOf(t, at)
                         \/ do = "released" /\ n = ParentOf(t, at)

\* The call in progress was made by the parent, which waits or is polled, to
\* what comes next there; wait has consumed what returns to it, and a poll
\* has released its first operation before it builds the second.
At(t, st, sec, do, at) ==
  do # "idle" =>
    /\ at \in DOMAIN t
    /\ do = "call" => st[at] \in {"operation", "future"}
    /\ at # 1 => /\ st[ParentOf(t, at)] \in {"wait", "future"}
                 /\ at = TargetOf(t, sec, ParentOf(t, at))
                 /\ do = "return" /\ st[ParentOf(t, at)] = "wait" => st[at] \notin Held
    /\ do = "released" => /\ at # 1 /\ st[ParentOf(t, at)] = "future" /\ st[at] \notin Held
                          /\ at = t[ParentOf(t, at)].first
                          /\ t[ParentOf(t, at)].kind \in {"and_then", "continue_with"}

\* What the owner did with the operation, and what it has of it.
Owner(t, st, sec, c, do) ==
  /\ c = "held" => /\ st = [n \in DOMAIN t |-> IF n \in SpineOf(t, 1) THEN "operation" ELSE "none"]
                   /\ \A n \in DOMAIN t : sec[n] = None
  /\ c \in {"held", "converted", "done", "dropped"} => do = "idle"
  /\ c \in {"converted", "polling"} => \A n \in DOMAIN t : st[n] \notin {"operation", "wait"}
  /\ c \in {"converted", "waiting", "polling"} /\ do = "idle" => \E n \in DOMAIN t : st[n] = "future"
  /\ c \in {"done", "dropped"} => \A n \in DOMAIN t : st[n] \notin Held

\* The calls and returns among the nodes in S.
Progress(S) ==
  [do : {"idle", "call", "return", "released"}, at : S \cup {None}, value : {"none", "ok", "err"}]

TypeOK ==
  /\ tree \in Trees
  /\ stage \in [Node -> Stages]
  /\ taken \in [Node -> BOOLEAN]
  /\ second \in [Node -> Node \cup {None}]
  /\ caller \in {"held", "converted", "waiting", "polling", "done", "dropped"}
  /\ pc \in Progress(Node)

ShapeInv ==
  /\ TypeOK
  /\ Built(tree, stage, second)
  /\ Chain(tree, stage, second)
  /\ Prepared(tree, stage, second, pc.do, pc.at)
  /\ At(tree, stage, second, pc.do, pc.at)
  /\ Owner(tree, stage, second, caller, pc.do)
  /\ \A n \in Node : taken[n] <=> second[n] # None

\* The calls and returns, field by field.
LEMMA Calls ==
  /\ \A n : Call(n).do = "call" /\ Call(n).at = n /\ Call(n).value = "none"
  /\ \A n, v : Return(n, v).do = "return" /\ Return(n, v).at = n /\ Return(n, v).value = v
  /\ \A n, v : /\ Running("released", n, v).do = "released"
              /\ Running("released", n, v).at = n /\ Running("released", n, v).value = v
  /\ Idle.do = "idle" /\ Idle.at = None /\ Idle.value = "none"
BY DEF Call, Return, Idle, Running

\* The operators of the model are those of the tree.
LEMMA OfTree ==
  /\ Node = DOMAIN tree
  /\ \A n : /\ Parent(n) = ParentOf(tree, n)
            /\ Subtree(n) = SubtreeOf(tree, n)
            /\ Spine(n) = SpineOf(tree, n)
            /\ Kids(n) = KidsOf(tree, n)
            /\ Kind(n) = tree[n].kind
            /\ Target(n) = TargetOf(tree, second, n)
<1>1. \A n : Parent(n) = ParentOf(tree, n)
  BY Zenon DEF Parent, ParentOf, Kids, Node
<1>2. \A n : Subtree(n) = SubtreeOf(tree, n)
  BY Zenon DEF Subtree, SubtreeOf, Kids, Node
<1> QED
  BY <1>1, <1>2, Zenon DEF Node, Spine, Kids, Kind, Target, TargetOf

\* An operation that was just built.
LEMMA ShapeInit ==
  Init => ShapeInv
<1> SUFFICES ASSUME Init
             PROVE  ShapeInv
  OBVIOUS
<1>1. tree \in Trees /\ Proper(tree) /\ 1 \in DOMAIN tree /\ None \notin DOMAIN tree
  BY MaybeFutureAssumption, TreeNodes DEF Init
<1>2. stage = [n \in DOMAIN tree |-> IF n \in SpineOf(tree, 1) THEN "operation" ELSE "none"]
  BY OfTree DEF Init
<1>3. second = [n \in DOMAIN tree |-> None] /\ taken = [n \in DOMAIN tree |-> FALSE]
  BY OfTree DEF Init
<1>4. stage \in [DOMAIN tree -> Stages] /\ Built(tree, stage, second) /\ Chain(tree, stage, second)
  BY <1>1, <1>2, <1>3, Rooted
<1>5. pc = Idle /\ caller = "held"
  BY DEF Init
<1>6. \A n \in DOMAIN tree : /\ n \in SpineOf(tree, 1) => stage[n] = "operation"
                             /\ n \notin SpineOf(tree, 1) => stage[n] = "none"
  BY <1>2
<1>7. Prepared(tree, stage, second, pc.do, pc.at)
  BY <1>1, <1>6, SpineFacts DEF Prepared, Waitable, Pollable
<1>8. At(tree, stage, second, pc.do, pc.at) /\ Owner(tree, stage, second, caller, pc.do)
  BY <1>2, <1>3, <1>5, Calls DEF At, Owner
<1>9. TypeOK
  <2>1. pc \in Progress(Node)
    BY <1>5 DEF Idle, Running, Progress
  <2> QED
    BY <2>1, <1>1, <1>3, <1>4, <1>5 DEF TypeOK, Node
<1>10. \A n \in Node : taken[n] <=> second[n] # None
  BY <1>3 DEF Node
<1> QED
  BY <1>4, <1>7, <1>8, <1>9, <1>10 DEF ShapeInv

\* What an action may rely on.
LEMMA ShapeGives ==
  ASSUME ShapeInv
  PROVE  /\ tree \in Trees /\ Proper(tree) /\ 1 \in DOMAIN tree
         /\ \A n \in DOMAIN tree : n # None /\ n \in Nat /\ n >= 1
         /\ stage \in [DOMAIN tree -> Stages]
         /\ second \in [DOMAIN tree -> DOMAIN tree \cup {None}]
         /\ taken \in [DOMAIN tree -> BOOLEAN]
         /\ pc \in Progress(DOMAIN tree)
         /\ caller \in {"held", "converted", "waiting", "polling", "done", "dropped"}
         /\ Built(tree, stage, second)
         /\ Chain(tree, stage, second)
         /\ Prepared(tree, stage, second, pc.do, pc.at)
         /\ At(tree, stage, second, pc.do, pc.at)
         /\ Owner(tree, stage, second, caller, pc.do)
         /\ \A n \in DOMAIN tree : taken[n] <=> second[n] # None
<1>1. tree \in Trees /\ Proper(tree)
  BY MaybeFutureAssumption DEF ShapeInv, TypeOK
<1>2. 1 \in DOMAIN tree /\ \A n \in DOMAIN tree : n # None /\ n \in Nat /\ n >= 1
  BY <1>1, TreeNodes
<1> QED
  BY <1>1, <1>2 DEF ShapeInv, TypeOK, Node

\* The values pc may have.
LEMMA PcValues ==
  ASSUME NEW S
  PROVE  /\ \A n \in S : Call(n) \in Progress(S)
         /\ \A n \in S, v \in {"none", "ok", "err"} :
              /\ Return(n, v) \in Progress(S)
              /\ Running("released", n, v) \in Progress(S)
         /\ \A v \in {"none", "ok", "err"} : Running("idle", None, v) \in Progress(S)
BY DEF Call, Return, Running, Progress

\* A step that changes no more than the leaves, the waker and the result of an
\* idle pc.
LEMMA ShapeSame ==
  ASSUME ShapeInv, UNCHANGED <<tree, stage, taken, second, caller, pc>>
  PROVE  ShapeInv'
BY DEF ShapeInv, TypeOK, Node

\* The operation is converted.
LEMMA ShapeIntoFuture ==
  ASSUME ShapeInv, IntoFuture
  PROVE  ShapeInv'
<1>1. /\ Proper(tree) /\ 1 \in DOMAIN tree /\ tree \in Trees
      /\ \A n \in DOMAIN tree : n # None /\ n \in Nat /\ n >= 1
      /\ second \in [DOMAIN tree -> DOMAIN tree \cup {None}]
      /\ Owner(tree, stage, second, caller, pc.do)
  BY ShapeGives
<1>2. /\ tree' = tree /\ second' = second /\ pc' = pc /\ taken' = taken
      /\ caller = "held" /\ caller' = "converted"
      /\ stage' = Put(stage, SpineOf(tree, 1), "future")
  BY OfTree DEF IntoFuture
<1>3. /\ stage = [n \in DOMAIN tree |-> IF n \in SpineOf(tree, 1) THEN "operation" ELSE "none"]
      /\ \A n \in DOMAIN tree : second[n] = None
      /\ pc.do = "idle"
  BY <1>1, <1>2 DEF Owner
<1>4. stage' = [n \in DOMAIN tree |-> IF n \in SpineOf(tree, 1) THEN "future" ELSE "none"]
  BY <1>2, <1>3 DEF Put
<1>5. stage' \in [DOMAIN tree -> Stages] /\ Built(tree, stage', second) /\ Chain(tree, stage', second)
  BY <1>1, <1>3, <1>4, Rooted
<1>6. \A n \in DOMAIN tree : /\ n \in SpineOf(tree, 1) => stage'[n] = "future"
                             /\ n \notin SpineOf(tree, 1) => stage'[n] = "none"
  BY <1>4
<1>7. Prepared(tree, stage', second, pc.do, pc.at)
  <2> SUFFICES ASSUME NEW n \in DOMAIN tree, stage'[n] = "future", tree[n].first # None
               PROVE  \/ stage'[TargetOf(tree, second, n)] = "future"
                      \/ tree[n].kind = "operation" /\ stage'[TargetOf(tree, second, n)] = "none"
    BY <1>6 DEF Prepared, Waitable, Pollable
  <2>1. TargetOf(tree, second, n) = tree[n].first /\ tree[n].first \in DOMAIN tree
    BY <1>1, <1>3, NodeParts, KidAfter DEF TargetOf
  <2>2. tree[n].kind \in Wrappers \/ tree[n].kind = "operation"
    BY <1>1, NodeParts
  <2>3. tree[n].kind \in Wrappers => stage'[tree[n].first] = "future"
    BY <1>1, <1>6, <2>1, SpineFacts
  <2>4. stage'[tree[n].first] = "future" \/ stage'[tree[n].first] = "none"
    BY <1>6, <2>1
  <2> QED
    BY <2>1, <2>2, <2>3, <2>4
<1>8. At(tree, stage', second, pc.do, pc.at)
  BY <1>3 DEF At
<1>9. Owner(tree, stage', second, caller', pc.do)
  <2>1. stage'[1] = "future"
    BY <1>1, <1>6, SpineFacts
  <2> QED
    BY <1>1, <1>2, <1>3, <1>6, <2>1 DEF Owner
<1>10. TypeOK'
  BY <1>2, <1>5 DEF ShapeInv, TypeOK, Node
<1> QED
  BY <1>2, <1>5, <1>7, <1>8, <1>9, <1>10 DEF ShapeInv, Node

\* Everything there is is dropped.
LEMMA ShapeOver ==
  ASSUME ShapeInv, NEW c \in {"done", "dropped"}, NEW v \in {"none", "ok", "err"},
         stage' = Put(stage, {n \in Node : stage[n] # "none"}, "over"),
         caller' = c, pc' = Running("idle", None, v), UNCHANGED <<tree, taken, second>>
  PROVE  ShapeInv'
<1>1. /\ Proper(tree)
      /\ stage \in [DOMAIN tree -> Stages]
      /\ Built(tree, stage, second)
  BY ShapeGives
<1>2. /\ stage' \in [DOMAIN tree -> Stages]
      /\ \A n \in DOMAIN tree : stage'[n] = IF stage[n] # "none" THEN "over" ELSE "none"
  BY <1>1 DEF Put, Node, Stages
<1>3. \A n \in DOMAIN tree : stage'[n] \in {"none", "over"} /\ (stage'[n] = "none" <=> stage[n] = "none")
  BY <1>2
<1>4. Built(tree, stage', second)
  BY <1>1, <1>3, ParentBefore DEF Built
<1>5. Chain(tree, stage', second)
  BY <1>3 DEF Chain, Held
<1>6. pc'.do = "idle"
  BY DEF Running
<1>7. Prepared(tree, stage', second, pc'.do, pc'.at)
  BY <1>3 DEF Prepared, Waitable, Pollable
<1>8. At(tree, stage', second, pc'.do, pc'.at)
  BY <1>6 DEF At
<1>9. Owner(tree, stage', second, caller', pc'.do)
  BY <1>3, <1>6 DEF Owner, Held
<1>10. TypeOK'
  BY <1>2, PcValues DEF ShapeInv, TypeOK, Node
<1> QED
  BY <1>4, <1>5, <1>7, <1>8, <1>9, <1>10 DEF ShapeInv, Node

\* The owner waits: the root is an operation.
LEMMA ShapeStartWait ==
  ASSUME ShapeInv, StartWait
  PROVE  ShapeInv'
<1>1. /\ Proper(tree) /\ 1 \in DOMAIN tree
      /\ Prepared(tree, stage, second, pc.do, pc.at)
      /\ Owner(tree, stage, second, caller, pc.do)
  BY ShapeGives
<1>2. /\ tree' = tree /\ stage' = stage /\ second' = second /\ taken' = taken
      /\ caller = "held" /\ caller' = "waiting" /\ pc' = Call(1)
  BY DEF StartWait
<1>3. stage[1] = "operation"
  BY <1>1, <1>2, SpineFacts DEF Owner
<1>4. pc'.do = "call" /\ pc'.at = 1
  BY <1>2, Calls
<1>5. At(tree, stage, second, pc'.do, pc'.at)
  BY <1>1, <1>3, <1>4 DEF At
<1>6. pc.do = "idle"
  BY <1>1, <1>2 DEF Owner
<1>7. Prepared(tree, stage, second, pc'.do, pc'.at)
  BY <1>1, <1>6 DEF Prepared
<1>8. Owner(tree, stage, second, caller', pc'.do)
  BY <1>2, <1>4 DEF Owner
<1>9. TypeOK'
  BY <1>1, <1>2, PcValues DEF ShapeInv, TypeOK, Node
<1> QED
  BY <1>2, <1>5, <1>7, <1>8, <1>9 DEF ShapeInv, Node

\* The future that is polled is the root or one that the stack waits for.
LEMMA DrivenIs ==
  ASSUME ShapeInv, NEW x \in DOMAIN tree, stage[x] = "future"
  PROVE  /\ Driven \in DOMAIN tree /\ stage[Driven] = "future"
         /\ \A y \in DOMAIN tree : stage[y] = "future" => Driven <= y
         /\ Driven # 1 => stage[ParentOf(tree, Driven)] = "wait"
<1>1. /\ Proper(tree) /\ \A n \in DOMAIN tree : n \in Nat
      /\ Chain(tree, stage, second)
  BY ShapeGives
<1> DEFINE X == {n \in DOMAIN tree : stage[n] = "future"}
<1>2. \E n \in X : \A y \in X : n <= y
  <2>1. X \subseteq Nat /\ X # {}
    BY <1>1
  <2> QED
    BY <2>1, LeastOf
<1>3. /\ Driven \in DOMAIN tree /\ stage[Driven] = "future"
      /\ \A y \in DOMAIN tree : stage[y] = "future" => Driven <= y
  <2>1. \E n \in Node : stage[n] = "future" /\ \A m \in Node : stage[m] = "future" => n <= m
    BY <1>2 DEF Node
  <2> QED
    BY <2>1, Zenon DEF Driven, Node
<1>4. ASSUME Driven # 1
      PROVE  stage[ParentOf(tree, Driven)] = "wait"
  <2>1. ParentOf(tree, Driven) \in DOMAIN tree /\ ParentOf(tree, Driven) < Driven
    BY <1>1, <1>3, <1>4, ParentBefore
  <2>2. stage[ParentOf(tree, Driven)] \in {"future", "wait"}
    BY <1>1, <1>3, <1>4 DEF Chain, Held
  <2> QED
    BY <2>1, <2>2, <1>1, <1>3
<1> QED
  BY <1>3, <1>4

\* A future that the stack waits for is the one that is polled.
LEMMA DrivenOnly ==
  ASSUME ShapeInv, NEW p \in DOMAIN tree, stage[p] = "future",
         p # 1 => stage[ParentOf(tree, p)] = "wait"
  PROVE  p = Driven
<1>1. /\ Proper(tree) /\ \A n \in DOMAIN tree : n \in Nat
      /\ Chain(tree, stage, second)
  BY ShapeGives
<1>2. Driven \in DOMAIN tree /\ stage[Driven] = "future" /\ Driven <= p
  BY DrivenIs
<1>3. ~(Driven < p)
  BY <1>1, <1>2, StackAbove DEF Held
<1> QED
  BY <1>1, <1>2, <1>3

\* The future is polled from outside.
LEMMA ShapePoll ==
  ASSUME ShapeInv, Poll
  PROVE  ShapeInv'
<1>1. /\ Proper(tree)
      /\ Chain(tree, stage, second)
      /\ Prepared(tree, stage, second, pc.do, pc.at)
      /\ Owner(tree, stage, second, caller, pc.do)
  BY ShapeGives
<1>2. /\ tree' = tree /\ stage' = stage /\ second' = second /\ taken' = taken
      /\ caller \in {"converted", "polling", "waiting"}
      /\ caller' \in {"polling", "waiting"} /\ (caller' = "polling" => caller \in {"converted", "polling"})
      /\ pc = Idle /\ pc' = Call(Driven)
  BY DEF Poll
<1>3. pc.do = "idle"
  BY <1>2, Calls
<1>4. \E x \in DOMAIN tree : stage[x] = "future"
  BY <1>1, <1>2, <1>3 DEF Owner
<1>5. /\ Driven \in DOMAIN tree /\ stage[Driven] = "future"
      /\ Driven # 1 => stage[ParentOf(tree, Driven)] = "wait"
  BY <1>4, DrivenIs
<1>6. pc'.do = "call" /\ pc'.at = Driven
  BY <1>2, Calls
<1>7. At(tree, stage, second, pc'.do, pc'.at)
  BY <1>1, <1>5, <1>6 DEF At, Chain, Held
<1>8. Prepared(tree, stage, second, pc'.do, pc'.at)
  BY <1>1, <1>3 DEF Prepared
<1>9. Owner(tree, stage, second, caller', pc'.do)
  BY <1>1, <1>2, <1>6 DEF Owner
<1>10. TypeOK'
  BY <1>2, <1>5, PcValues DEF ShapeInv, TypeOK, Node
<1> QED
  BY <1>2, <1>7, <1>8, <1>9, <1>10 DEF ShapeInv, Node

\* A call has reached n.
LEMMA CallAt ==
  ASSUME ShapeInv, NEW n, pc = Call(n)
  PROVE  /\ n \in DOMAIN tree /\ pc.do = "call" /\ pc.at = n
         /\ stage[n] \in {"operation", "future"} /\ caller \in {"waiting", "polling"}
         /\ n # 1 => /\ ParentOf(tree, n) \in DOMAIN tree
                     /\ n \in KidsOf(tree, ParentOf(tree, n))
                     /\ stage[ParentOf(tree, n)] \in {"wait", "future"}
                     /\ n = TargetOf(tree, second, ParentOf(tree, n))
         /\ stage[n] = "operation" =>
              /\ caller = "waiting"
              /\ n # 1 => stage[ParentOf(tree, n)] = "wait"
         /\ Waitable(tree, stage) /\ \A x \in DOMAIN tree : Pollable(tree, stage, second, x)
<1>1. /\ Proper(tree)
      /\ Chain(tree, stage, second)
      /\ caller \in {"held", "converted", "waiting", "polling", "done", "dropped"}
      /\ Prepared(tree, stage, second, pc.do, pc.at)
      /\ At(tree, stage, second, pc.do, pc.at)
      /\ Owner(tree, stage, second, caller, pc.do)
  BY ShapeGives
<1>2. pc.do = "call" /\ pc.at = n
  BY Calls
<1>3. n \in DOMAIN tree /\ stage[n] \in {"operation", "future"}
  BY <1>1, <1>2 DEF At
<1>4. n # 1 => /\ ParentOf(tree, n) \in DOMAIN tree
               /\ n \in KidsOf(tree, ParentOf(tree, n))
               /\ stage[ParentOf(tree, n)] \in {"wait", "future"}
               /\ n = TargetOf(tree, second, ParentOf(tree, n))
  BY <1>1, <1>2, <1>3, ParentBefore DEF At
<1>5. caller \in {"waiting", "polling"}
  BY <1>1, <1>2 DEF Owner
<1>6. stage[n] = "operation" => caller = "waiting" /\ (n # 1 => stage[ParentOf(tree, n)] = "wait")
  BY <1>1, <1>3, <1>4, <1>5 DEF Owner, Chain, Held
<1> QED
  BY <1>1, <1>2, <1>3, <1>4, <1>5, <1>6 DEF Prepared

\* A wrapper waits for its first.
LEMMA ShapeWaitFirst ==
  ASSUME ShapeInv, NEW n, WaitFirst(n)
  PROVE  ShapeInv'
<1>1. /\ Proper(tree) /\ \A x \in DOMAIN tree : x \in Nat
      /\ stage \in [DOMAIN tree -> Stages]
      /\ Built(tree, stage, second) /\ Chain(tree, stage, second)
      /\ Prepared(tree, stage, second, pc.do, pc.at)
      /\ Owner(tree, stage, second, caller, pc.do)
  BY ShapeGives
<1>2. /\ tree' = tree /\ second' = second /\ taken' = taken /\ caller' = caller
      /\ pc = Call(n) /\ stage[n] = "operation" /\ tree[n].kind \in Wrappers
      /\ stage' = Put(stage, {n}, "wait") /\ pc' = Call(tree[n].first)
  BY DEF WaitFirst, Waits, Kind
<1>3. /\ n \in DOMAIN tree /\ pc.do = "call" /\ caller = "waiting"
      /\ n # 1 => stage[ParentOf(tree, n)] = "wait"
      /\ Waitable(tree, stage) /\ \A x \in DOMAIN tree : Pollable(tree, stage, second, x)
  BY <1>2, CallAt
<1>4. /\ stage' \in [DOMAIN tree -> Stages]
      /\ stage'[n] = "wait" /\ \A x \in DOMAIN tree : x # n => stage'[x] = stage[x]
      /\ Built(tree, stage', second) /\ Chain(tree, stage', second)
  <2>1. Becomes(tree, n, "wait") /\ stage[n] = "operation" /\ stage' = Put(stage, {n}, "wait")
    BY <1>2 DEF Becomes
  <2>2. n \in DOMAIN tree /\ (n # 1 => stage[ParentOf(tree, n)] = "wait")
    BY <1>3
  <2>3. /\ Proper(tree) /\ stage \in [DOMAIN tree -> Stages]
        /\ Built(tree, stage, second) /\ Chain(tree, stage, second)
    BY <1>1
  <2> QED
    BY <2>1, <2>2, <2>3, Marking
<1> DEFINE k == tree[n].first
<1>5. k \in KidsOf(tree, n) /\ k \in DOMAIN tree /\ k # n /\ ParentOf(tree, k) = n /\ k # 1
  BY <1>1, <1>2, <1>3, NodeParts, KidAfter
<1>6. stage[k] = "operation" /\ second[n] = None
  BY <1>1, <1>2, <1>3 DEF Waitable, Built
<1>7. pc'.do = "call" /\ pc'.at = k
  BY <1>2, Calls
<1>8. At(tree, stage', second, pc'.do, pc'.at)
  BY <1>4, <1>5, <1>6, <1>7 DEF At, TargetOf
<1>9. Prepared(tree, stage', second, pc'.do, pc'.at)
  <2>1. Waitable(tree, stage') /\ \A x \in DOMAIN tree \ {n} : Pollable(tree, stage', second, x)
    <3>1. /\ Proper(tree) /\ Built(tree, stage, second)
          /\ n \in DOMAIN tree /\ stage[n] = "operation" /\ (n # 1 => stage[ParentOf(tree, n)] = "wait")
      BY <1>1, <1>2, <1>3
    <3>2. stage'[n] # "operation" /\ \A x \in DOMAIN tree : x # n => stage'[x] = stage[x]
      BY <1>4
    <3>3. Waitable(tree, stage) /\ \A x \in DOMAIN tree : Pollable(tree, stage, second, x)
      BY <1>3
    <3> QED
      BY <3>1, <3>2, <3>3, ReadyMarking
  <2>2. Pollable(tree, stage', second, n)
    BY <1>4 DEF Pollable
  <2> QED
    BY <2>1, <2>2 DEF Prepared
<1>10. Owner(tree, stage', second, caller', pc'.do)
  BY <1>2, <1>3, <1>7 DEF Owner
<1>11. TypeOK'
  <2>1. pc' \in Progress(DOMAIN tree)
    BY <1>2, <1>5, PcValues
  <2> QED
    BY <2>1, <1>2, <1>4 DEF ShapeInv, TypeOK, Node
<1> QED
  BY <1>2, <1>4, <1>8, <1>9, <1>10, <1>11 DEF ShapeInv, Node

\* What comes next at a node is a node.
LEMMA TargetNode ==
  ASSUME NEW t, Proper(t), NEW sec \in [DOMAIN t -> DOMAIN t \cup {None}],
         NEW n \in DOMAIN t, t[n].first # None
  PROVE  TargetOf(t, sec, n) \in DOMAIN t
BY NodeParts, KidAfter DEF TargetOf

\* block_on makes a block a future.
LEMMA ShapeBlockOn ==
  ASSUME ShapeInv, NEW n, BlockOn(n)
  PROVE  ShapeInv'
<1>1. /\ Proper(tree) /\ \A x \in DOMAIN tree : x \in Nat
      /\ stage \in [DOMAIN tree -> Stages]
      /\ second \in [DOMAIN tree -> DOMAIN tree \cup {None}]
      /\ Built(tree, stage, second) /\ Chain(tree, stage, second)
      /\ Prepared(tree, stage, second, pc.do, pc.at)
      /\ At(tree, stage, second, pc.do, pc.at)
      /\ Owner(tree, stage, second, caller, pc.do)
  BY ShapeGives
<1>2. /\ tree' = tree /\ second' = second /\ taken' = taken /\ caller' = caller /\ pc' = pc
      /\ pc = Call(n) /\ stage[n] = "operation" /\ tree[n].kind = "operation"
      /\ stage' = Put(stage, {n}, "future")
  BY DEF BlockOn, Waits, Kind
<1>3. /\ n \in DOMAIN tree /\ pc.do = "call" /\ pc.at = n /\ caller = "waiting"
      /\ n # 1 => ParentOf(tree, n) \in DOMAIN tree
      /\ n # 1 => stage[ParentOf(tree, n)] = "wait"
      /\ n # 1 => n = TargetOf(tree, second, ParentOf(tree, n))
      /\ Waitable(tree, stage) /\ \A x \in DOMAIN tree : Pollable(tree, stage, second, x)
  BY <1>2, CallAt
<1>4. /\ stage' \in [DOMAIN tree -> Stages]
      /\ stage'[n] = "future" /\ \A x \in DOMAIN tree : x # n => stage'[x] = stage[x]
      /\ Built(tree, stage', second) /\ Chain(tree, stage', second)
  <2>1. Becomes(tree, n, "future") /\ stage[n] = "operation" /\ stage' = Put(stage, {n}, "future")
    BY <1>2 DEF Becomes
  <2>2. n \in DOMAIN tree /\ (n # 1 => stage[ParentOf(tree, n)] = "wait")
    BY <1>3
  <2>3. /\ Proper(tree) /\ stage \in [DOMAIN tree -> Stages]
        /\ Built(tree, stage, second) /\ Chain(tree, stage, second)
    BY <1>1
  <2> QED
    BY <2>1, <2>2, <2>3, Marking
<1>5. At(tree, stage', second, pc'.do, pc'.at)
  BY <1>2, <1>3, <1>4 DEF At
<1>6. Prepared(tree, stage', second, pc'.do, pc'.at)
  <2>1. Waitable(tree, stage') /\ \A x \in DOMAIN tree \ {n} : Pollable(tree, stage', second, x)
    <3>1. /\ Proper(tree) /\ Built(tree, stage, second)
          /\ n \in DOMAIN tree /\ stage[n] = "operation" /\ (n # 1 => stage[ParentOf(tree, n)] = "wait")
      BY <1>1, <1>2, <1>3
    <3>2. stage'[n] # "operation" /\ \A x \in DOMAIN tree : x # n => stage'[x] = stage[x]
      BY <1>4
    <3>3. Waitable(tree, stage) /\ \A x \in DOMAIN tree : Pollable(tree, stage, second, x)
      BY <1>3
    <3> QED
      BY <3>1, <3>2, <3>3, ReadyMarking
  <2>2. stage'[TargetOf(tree, second, n)] = "none"
    <3> DEFINE k == tree[n].first
    <3>1. second[n] = None /\ k \in KidsOf(tree, n)
      BY <1>1, <1>2, <1>3, NodeParts DEF Built
    <3>2. k \in DOMAIN tree /\ k # 1 /\ ParentOf(tree, k) = n /\ k # n
      BY <3>1, <1>1, <1>3, KidAfter
    <3>3. stage[k] = "none"
      BY <3>2, <1>1, <1>2 DEF Built
    <3> QED
      BY <3>1, <3>2, <3>3, <1>4 DEF TargetOf
  <2>3. Pollable(tree, stage', second, n)
    BY <2>2, <1>2 DEF Pollable
  <2> QED
    BY <2>1, <2>3 DEF Prepared
<1>7. Owner(tree, stage', second, caller', pc'.do)
  BY <1>2, <1>3 DEF Owner
<1>8. TypeOK'
  BY <1>2, <1>4 DEF ShapeInv, TypeOK, Node
<1> QED
  BY <1>2, <1>4, <1>5, <1>6, <1>7, <1>8 DEF ShapeInv, Node

\* A wrapper polls what comes next, which is there to be polled.
LEMMA ShapePollCombinator ==
  ASSUME ShapeInv, NEW n, PollCombinator(n)
  PROVE  ShapeInv'
<1>1. /\ Proper(tree)
      /\ second \in [DOMAIN tree -> DOMAIN tree \cup {None}]
      /\ Built(tree, stage, second)
      /\ Prepared(tree, stage, second, pc.do, pc.at)
      /\ Owner(tree, stage, second, caller, pc.do)
  BY ShapeGives
<1> DEFINE k == TargetOf(tree, second, n)
<1>2. /\ tree' = tree /\ stage' = stage /\ second' = second /\ taken' = taken /\ caller' = caller
      /\ pc = Call(n) /\ stage[n] = "future" /\ tree[n].kind \in Wrappers
      /\ pc' = IF stage[k] = "future" THEN Call(k) ELSE Panic(n)
  BY OfTree DEF PollCombinator, Polls
<1>3. /\ n \in DOMAIN tree /\ pc.do = "call"
      /\ Waitable(tree, stage) /\ \A x \in DOMAIN tree : Pollable(tree, stage, second, x)
  BY <1>2, CallAt
<1>4. tree[n].first # None /\ tree[n].kind # "operation"
  BY <1>1, <1>2, <1>3, NodeParts DEF Wrappers
<1>5. k \in DOMAIN tree /\ stage[k] = "future" /\ k \in KidsOf(tree, n)
  <2>1. k \in DOMAIN tree /\ stage[k] = "future"
    BY <1>1, <1>2, <1>3, <1>4, TargetNode DEF Pollable
  <2>2. second[n] # None => second[n] \in KidsOf(tree, n)
    BY <1>1, <1>3 DEF Built, KidsOf
  <2>3. tree[n].first \in KidsOf(tree, n)
    BY <1>1, <1>3, <1>4, NodeParts
  <2> QED
    BY <2>1, <2>2, <2>3 DEF TargetOf
<1>6. ParentOf(tree, k) = n
  BY <1>1, <1>3, <1>5, KidAfter
<1>7. pc' = Call(k) /\ pc'.do = "call" /\ pc'.at = k
  BY <1>2, <1>5, Calls
<1>8. At(tree, stage, second, pc'.do, pc'.at)
  BY <1>2, <1>5, <1>6, <1>7 DEF At
<1>9. Prepared(tree, stage, second, pc'.do, pc'.at)
  BY <1>1, <1>3 DEF Prepared
<1>10. Owner(tree, stage, second, caller', pc'.do)
  BY <1>1, <1>2, <1>3, <1>7 DEF Owner
<1>11. TypeOK'
  <2>1. pc' \in Progress(DOMAIN tree)
    BY <1>5, <1>7, PcValues
  <2> QED
    BY <2>1, <1>2 DEF ShapeInv, TypeOK, Node
<1> QED
  BY <1>2, <1>8, <1>9, <1>10, <1>11 DEF ShapeInv, Node

\* A leaf is pending.
LEMMA ShapePollPending ==
  ASSUME ShapeInv, NEW n, PollPending(n)
  PROVE  ShapeInv'
<1>1. /\ Prepared(tree, stage, second, pc.do, pc.at)
      /\ Owner(tree, stage, second, caller, pc.do)
  BY ShapeGives
<1>2. /\ tree' = tree /\ stage' = stage /\ second' = second /\ taken' = taken /\ caller' = caller
      /\ pc = Call(n) /\ stage[n] = "future" /\ pc' = Idle
  BY DEF PollPending, Polls
<1>3. n \in DOMAIN tree /\ pc.do = "call"
  BY <1>2, CallAt
<1>4. pc'.do = "idle"
  BY <1>2, Calls
<1>5. At(tree, stage, second, pc'.do, pc'.at)
  BY <1>4 DEF At
<1>6. Prepared(tree, stage, second, pc'.do, pc'.at)
  BY <1>1, <1>3 DEF Prepared
<1>7. Owner(tree, stage, second, caller', pc'.do)
  BY <1>1, <1>2, <1>3, <1>4 DEF Owner
<1>8. TypeOK'
  BY <1>2, PcValues DEF ShapeInv, TypeOK, Node, Idle
<1> QED
  BY <1>2, <1>5, <1>6, <1>7, <1>8 DEF ShapeInv, Node

\* A block polls its body, which is built and converted when it is not there.
LEMMA ShapePollBlock ==
  ASSUME ShapeInv, NEW n, PollBlock(n)
  PROVE  ShapeInv'
<1>1. /\ Proper(tree) /\ \A x \in DOMAIN tree : x # None
      /\ stage \in [DOMAIN tree -> Stages]
      /\ second \in [DOMAIN tree -> DOMAIN tree \cup {None}]
      /\ Built(tree, stage, second) /\ Chain(tree, stage, second)
      /\ Owner(tree, stage, second, caller, pc.do)
  BY ShapeGives
<1> DEFINE k == tree[n].first
<1>2. /\ tree' = tree /\ second' = second /\ taken' = taken /\ caller' = caller
      /\ pc = Call(n) /\ stage[n] = "future" /\ tree[n].kind = "operation" /\ pc' = Call(k)
      /\ stage[k] = "none" => stage' = Put(stage, SpineOf(tree, k), "future")
      /\ stage[k] # "none" => stage' = stage
  BY OfTree DEF PollBlock, Polls, BuildFuture
<1>3. /\ n \in DOMAIN tree /\ pc.do = "call"
      /\ Waitable(tree, stage) /\ \A x \in DOMAIN tree : Pollable(tree, stage, second, x)
  BY <1>2, CallAt
<1>4. second[n] = None
  BY <1>1, <1>2, <1>3 DEF Built
<1>5. k \in KidsOf(tree, n) /\ k \in DOMAIN tree /\ k # 1 /\ ParentOf(tree, k) = n /\ k # None
  BY <1>1, <1>2, <1>3, NodeParts, KidAfter
<1>6. TargetOf(tree, second, n) = k
  BY <1>4 DEF TargetOf
<1>7. /\ stage' \in [DOMAIN tree -> Stages]
      /\ Built(tree, stage', second) /\ Chain(tree, stage', second)
      /\ Waitable(tree, stage') /\ \A x \in DOMAIN tree : Pollable(tree, stage', second, x)
      /\ stage'[n] = "future" /\ stage'[k] = "future"
      /\ \A x \in DOMAIN tree : stage'[x] \in {stage[x], "future"}
  <2>1. CASE stage[k] = "none"
    <3>1. stage' = Put(stage, SpineOf(tree, k), "future")
      <4>1. Put(stage, {}, "over") = stage
        BY <1>1 DEF Put
      <4> QED
        BY <4>1, <1>2, <2>1
    <3>2. \A x \in KidsOf(tree, n) : stage[x] \notin Held
      <4>1. \A x \in KidsOf(tree, n) : x \in DOMAIN tree \ {1} /\ ParentOf(tree, x) = n
        BY <1>1, <1>3, KidAfter
      <4> QED
        BY <4>1, <1>1, <1>6, <2>1 DEF Chain, Held
    <3> DEFINE mode == "future"
    <3>3. /\ mode \in {"operation", "future"} /\ stage[n] \in {"wait", "future"}
          /\ stage[n] = "future" <=> mode = "future"
          /\ stage' = Put(stage, SpineOf(tree, k), mode)
      BY <1>2, <3>1
    <3> HIDE DEF mode
    <3>4. Seconds(tree, n, k, second, second)
      BY DEF Seconds
    <3> HIDE DEF k
    <3>5. /\ stage' \in [DOMAIN tree -> Stages]
          /\ k = TargetOf(tree, second, n)
          /\ \A x \in DOMAIN tree : /\ x \in SpineOf(tree, k) => stage[x] = "none" /\ stage'[x] = mode
                                    /\ x \notin SpineOf(tree, k) => stage'[x] = stage[x]
                                    /\ x # n => second[x] = second[x]
          /\ Built(tree, stage', second) /\ Chain(tree, stage', second)
      BY <3>2, <3>3, <3>4, <2>1, <1>1, <1>3, <1>4, <1>5, Building
    <3>6. Waitable(tree, stage') /\ \A x \in DOMAIN tree : Pollable(tree, stage', second, x)
      <4>1. stage[n] = "wait" \/ (stage[n] = "future" /\ mode = "future")
        BY <1>2, <3>3
      <4>2. \A x \in DOMAIN tree \ {n} : Pollable(tree, stage, second, x)
        BY <1>3
      <4> QED
        BY <4>1, <4>2, <3>3, <3>5, <1>1, <1>3, <1>5, ReadyBuilding
    <3>7. n \notin SpineOf(tree, k) /\ k \in SpineOf(tree, k)
      BY <1>1, <1>2, <1>3, <1>5, <3>5, SpineFacts
    <3> QED
      BY <3>5, <3>6, <3>7, <1>2, <1>3, <1>5 DEF mode
  <2>2. CASE stage[k] # "none"
    <3>1. stage[k] = "future"
      BY <2>2, <1>2, <1>3, <1>5, <1>6 DEF Pollable
    <3> QED
      BY <2>2, <3>1, <1>1, <1>2, <1>3
  <2> QED
    BY <2>1, <2>2
<1>8. pc'.do = "call" /\ pc'.at = k
  BY <1>2, Calls
<1>9. At(tree, stage', second, pc'.do, pc'.at)
  BY <1>5, <1>6, <1>7, <1>8 DEF At
<1>10. Prepared(tree, stage', second, pc'.do, pc'.at)
  BY <1>7 DEF Prepared
<1>11. Owner(tree, stage', second, caller', pc'.do)
  BY <1>1, <1>2, <1>3, <1>7, <1>8 DEF Owner
<1>12. TypeOK'
  <2>1. pc' \in Progress(DOMAIN tree)
    BY <1>2, <1>5, PcValues
  <2> QED
    BY <2>1, <1>2, <1>7 DEF ShapeInv, TypeOK, Node
<1> QED
  BY <1>2, <1>7, <1>9, <1>10, <1>11, <1>12 DEF ShapeInv, Node

\* A leaf with a result returns it.
LEMMA ShapeReturnLeaf ==
  ASSUME ShapeInv, NEW n, ReturnLeaf(n)
  PROVE  ShapeInv'
<1>1. /\ Proper(tree) /\ \A x \in DOMAIN tree : x \in Nat
      /\ stage \in [DOMAIN tree -> Stages]
      /\ Built(tree, stage, second) /\ Chain(tree, stage, second)
      /\ Owner(tree, stage, second, caller, pc.do)
  BY ShapeGives
<1>2. /\ tree' = tree /\ second' = second /\ taken' = taken /\ caller' = caller
      /\ pc = Call(n) /\ tree[n].kind \in Effects \cup {"ready"}
      /\ stage[n] = "operation" => stage' = Put(stage, {n}, "over")
      /\ stage[n] # "operation" => stage' = stage
      /\ pc' = Return(n, Result(n)) /\ Result(n) \in {"ok", "err"}
  BY DEF ReturnLeaf, Kind
<1>3. /\ n \in DOMAIN tree /\ pc.do = "call" /\ stage[n] \in {"operation", "future"}
      /\ n # 1 => ParentOf(tree, n) \in DOMAIN tree
      /\ n # 1 => stage[ParentOf(tree, n)] \in {"wait", "future"}
      /\ n # 1 => n = TargetOf(tree, second, ParentOf(tree, n))
  BY <1>2, CallAt
<1>4. Waitable(tree, stage) /\ \A x \in DOMAIN tree : Pollable(tree, stage, second, x)
  BY <1>2, CallAt
<1>5. /\ stage' \in [DOMAIN tree -> Stages]
      /\ Built(tree, stage', second) /\ Chain(tree, stage', second)
      /\ Waitable(tree, stage') /\ \A x \in DOMAIN tree : Pollable(tree, stage', second, x)
      /\ \A x \in DOMAIN tree : x # n => stage'[x] = stage[x]
      /\ \A x \in DOMAIN tree : stage'[x] \in {stage[x], "over"}
      /\ n # 1 /\ stage[ParentOf(tree, n)] = "wait" => stage'[n] \notin Held
  <2>1. CASE stage[n] = "operation"
    <3>1. Becomes(tree, n, "over") /\ stage[n] = "operation" /\ stage' = Put(stage, {n}, "over")
      BY <1>2, <2>1 DEF Becomes
    <3>2. n \in DOMAIN tree /\ (n # 1 => stage[ParentOf(tree, n)] = "wait")
      BY <1>2, <2>1, CallAt
    <3>3. /\ Proper(tree) /\ stage \in [DOMAIN tree -> Stages]
          /\ Built(tree, stage, second) /\ Chain(tree, stage, second)
      BY <1>1
    <3>4. /\ stage' \in [DOMAIN tree -> Stages]
          /\ stage'[n] = "over" /\ \A x \in DOMAIN tree : x # n => stage'[x] = stage[x]
          /\ Built(tree, stage', second) /\ Chain(tree, stage', second)
      BY <3>1, <3>2, <3>3, Marking
    <3>5. stage'[n] # "operation" /\ \A x \in DOMAIN tree : x # n => stage'[x] = stage[x]
      BY <3>4
    <3>6. Waitable(tree, stage') /\ \A x \in DOMAIN tree \ {n} : Pollable(tree, stage', second, x)
      BY <3>1, <3>2, <3>3, <3>5, <1>4, ReadyMarking
    <3>7. Pollable(tree, stage', second, n)
      BY <3>4 DEF Pollable
    <3> QED
      BY <3>4, <3>6, <3>7 DEF Held
  <2>2. CASE stage[n] # "operation"
    <3>1. stage[n] = "future" /\ stage' = stage /\ tree[n].kind # "operation"
      BY <2>2, <1>2, <1>3 DEF Effects
    <3>2. ~(n # 1 /\ stage[ParentOf(tree, n)] = "wait")
      BY <3>1, <1>1, <1>3 DEF Chain, Held
    <3> QED
      BY <3>1, <3>2, <1>1, <1>4
  <2> QED
    BY <2>1, <2>2
<1>6. pc'.do = "return" /\ pc'.at = n
  BY <1>2, Calls
<1>7. At(tree, stage', second, pc'.do, pc'.at)
  <2>1. n # 1 => stage'[ParentOf(tree, n)] = stage[ParentOf(tree, n)]
    BY <1>1, <1>3, <1>5, ParentBefore
  <2> QED
    BY <2>1, <1>3, <1>5, <1>6 DEF At
<1>8. Prepared(tree, stage', second, pc'.do, pc'.at)
  BY <1>5 DEF Prepared
<1>9. Owner(tree, stage', second, caller', pc'.do)
  BY <1>1, <1>2, <1>3, <1>5, <1>6 DEF Owner
<1>10. TypeOK'
  <2>1. pc' \in Progress(DOMAIN tree)
    BY <1>2, <1>3, PcValues
  <2> QED
    BY <2>1, <1>2, <1>5 DEF ShapeInv, TypeOK, Node
<1> QED
  BY <1>2, <1>5, <1>7, <1>8, <1>9, <1>10 DEF ShapeInv, Node

\* A return has reached the parent of n, and perhaps released n.
LEMMA CameBack ==
  ASSUME ShapeInv, pc.do \in {"return", "released"}, Parent(pc.at) # None,
         NEW n, n = pc.at, NEW p, p = Parent(n)
  PROVE  /\ n \in DOMAIN tree \ {1}
         /\ p = ParentOf(tree, n) /\ p \in DOMAIN tree /\ n \in KidsOf(tree, p)
         /\ stage[p] \in {"wait", "future"}
         /\ n = TargetOf(tree, second, p)
         /\ p # 1 => /\ ParentOf(tree, p) \in DOMAIN tree
                     /\ ParentOf(tree, p) < p
                     /\ stage[ParentOf(tree, p)] \in {"wait", "future"}
                     /\ p = TargetOf(tree, second, ParentOf(tree, p))
                     /\ stage[p] = "wait" => stage[ParentOf(tree, p)] = "wait"
         /\ caller \in {"waiting", "polling"}
         /\ stage[p] = "wait" => caller = "waiting"
<1>1. /\ Proper(tree)
      /\ Chain(tree, stage, second)
      /\ caller \in {"held", "converted", "waiting", "polling", "done", "dropped"}
      /\ At(tree, stage, second, pc.do, pc.at)
      /\ Owner(tree, stage, second, caller, pc.do)
  BY ShapeGives
<1>3. p = ParentOf(tree, n) /\ n # 1
  BY OfTree DEF Parent
<1>4. n \in DOMAIN tree
  BY <1>1 DEF At
<1>5. p \in DOMAIN tree /\ n \in KidsOf(tree, p)
  BY <1>1, <1>3, <1>4, ParentBefore
<1>6. stage[p] \in {"wait", "future"} /\ n = TargetOf(tree, second, p)
  BY <1>1, <1>3 DEF At
<1>7. p # 1 => ParentOf(tree, p) \in DOMAIN tree /\ ParentOf(tree, p) < p
  BY <1>1, <1>5, ParentBefore
<1>8. p # 1 => /\ stage[ParentOf(tree, p)] \in {"wait", "future"}
               /\ p = TargetOf(tree, second, ParentOf(tree, p))
               /\ stage[p] = "wait" => stage[ParentOf(tree, p)] = "wait"
  BY <1>1, <1>5, <1>6 DEF Chain, Held
<1>9. caller \in {"waiting", "polling"}
  BY <1>1 DEF Owner
<1>10. stage[p] = "wait" => caller = "waiting"
  BY <1>1, <1>5, <1>9 DEF Owner
<1> QED
  BY <1>3, <1>4, <1>5, <1>6, <1>7, <1>8, <1>9, <1>10

\* A return has reached the parent of n.
LEMMA ReturnAt ==
  ASSUME ShapeInv, NEW n, NEW v, pc = Return(n, v), Parent(n) # None
  PROVE  /\ n \in DOMAIN tree \ {1} /\ pc.do = "return" /\ pc.at = n /\ pc.value = v
         /\ Parent(n) = ParentOf(tree, n) /\ Parent(n) \in DOMAIN tree /\ n \in KidsOf(tree, Parent(n))
         /\ stage[Parent(n)] \in {"wait", "future"}
         /\ n = TargetOf(tree, second, Parent(n))
         /\ stage[Parent(n)] = "wait" => stage[n] \notin Held
         /\ Parent(n) # 1 => /\ ParentOf(tree, Parent(n)) \in DOMAIN tree
                             /\ ParentOf(tree, Parent(n)) < Parent(n)
                             /\ stage[ParentOf(tree, Parent(n))] \in {"wait", "future"}
                             /\ Parent(n) = TargetOf(tree, second, ParentOf(tree, Parent(n)))
                             /\ stage[Parent(n)] = "wait" => stage[ParentOf(tree, Parent(n))] = "wait"
         /\ Waitable(tree, stage)
         /\ \A x \in DOMAIN tree : Pollable(tree, stage, second, x) \/ x \in SubtreeOf(tree, n)
         /\ caller \in {"waiting", "polling"}
         /\ stage[Parent(n)] = "wait" => caller = "waiting"
<1>1. /\ Prepared(tree, stage, second, pc.do, pc.at)
      /\ At(tree, stage, second, pc.do, pc.at)
  BY ShapeGives
<1>2. pc.do = "return" /\ pc.at = n /\ pc.value = v
  BY Calls
<1> DEFINE p == Parent(n)
<1>3. p = Parent(n) /\ pc.do \in {"return", "released"} /\ Parent(pc.at) # None /\ n = pc.at
  BY <1>2
<1> HIDE DEF p
<1>4. /\ n \in DOMAIN tree \ {1}
      /\ p = ParentOf(tree, n) /\ p \in DOMAIN tree /\ n \in KidsOf(tree, p)
      /\ stage[p] \in {"wait", "future"}
      /\ n = TargetOf(tree, second, p)
      /\ p # 1 => /\ ParentOf(tree, p) \in DOMAIN tree
                  /\ ParentOf(tree, p) < p
                  /\ stage[ParentOf(tree, p)] \in {"wait", "future"}
                  /\ p = TargetOf(tree, second, ParentOf(tree, p))
                  /\ stage[p] = "wait" => stage[ParentOf(tree, p)] = "wait"
      /\ caller \in {"waiting", "polling"}
      /\ stage[p] = "wait" => caller = "waiting"
  BY <1>3, CameBack
<1>5. stage[p] = "wait" => stage[n] \notin Held
  BY <1>1, <1>2, <1>4 DEF At
<1>6. /\ Waitable(tree, stage)
      /\ \A x \in DOMAIN tree : Pollable(tree, stage, second, x) \/ x \in SubtreeOf(tree, n)
  BY <1>1, <1>2 DEF Prepared
<1> QED
  BY <1>2, <1>3, <1>4, <1>5, <1>6

\* The parent of n returns what n returned, and drops what wait consumed or
\* what is not needed any more.
LEMMA ShapeReturnUp ==
  ASSUME ShapeInv, NEW n, NEW v \in {"ok", "err"}, ReturnUp(n, v)
  PROVE  ShapeInv'
<1> DEFINE p == Parent(n)
<1>1. /\ Proper(tree) /\ \A x \in DOMAIN tree : x \in Nat /\ x >= 1
      /\ stage \in [DOMAIN tree -> Stages]
      /\ Built(tree, stage, second) /\ Chain(tree, stage, second)
      /\ Owner(tree, stage, second, caller, pc.do)
  BY ShapeGives
<1>2. /\ tree' = tree /\ second' = second /\ taken' = taken /\ caller' = caller
      /\ pc = Return(n, v) /\ p # None /\ pc' = Return(p, v)
      /\ stage' = Put(stage, DroppedBy(p, n), "over")
  BY DEF ReturnUp
<1>3. /\ n \in DOMAIN tree \ {1}
      /\ p = ParentOf(tree, n) /\ p \in DOMAIN tree /\ n \in KidsOf(tree, p)
      /\ stage[p] \in {"wait", "future"}
      /\ p # 1 => /\ ParentOf(tree, p) \in DOMAIN tree
                  /\ ParentOf(tree, p) < p
                  /\ stage[ParentOf(tree, p)] \in {"wait", "future"}
                  /\ p = TargetOf(tree, second, ParentOf(tree, p))
                  /\ stage[p] = "wait" => stage[ParentOf(tree, p)] = "wait"
  BY <1>2, ReturnAt
<1>4. /\ Waitable(tree, stage)
      /\ \A x \in DOMAIN tree : Pollable(tree, stage, second, x) \/ x \in SubtreeOf(tree, n)
  BY <1>2, ReturnAt
<1>5. caller \in {"waiting", "polling"} /\ pc.do = "return"
  BY <1>2, ReturnAt
<1> HIDE DEF p
<1>6. SubtreeOf(tree, n) \subseteq SubtreeOf(tree, p)
  BY <1>1, <1>3, SubtreeForm
<1>7. CASE stage[p] = "wait" \/ (caller = "waiting" /\ p = Driven)
  <2>1. stage' = Put(stage, {m \in SubtreeOf(tree, p) : stage[m] # "none"}, "over")
    BY <1>2, <1>7, OfTree DEF DroppedBy
  <2>2. /\ stage' \in [DOMAIN tree -> Stages]
        /\ Built(tree, stage', second) /\ Chain(tree, stage', second)
        /\ \A x \in DOMAIN tree : /\ x \in SubtreeOf(tree, p) => stage'[x] \notin Held
                                  /\ x \notin SubtreeOf(tree, p) => stage'[x] = stage[x]
                                  /\ stage'[x] = "none" <=> stage[x] = "none"
                                  /\ stage'[x] \in Held => stage'[x] = stage[x]
    BY <2>1, <1>1, <1>3, Dropping
  <2>3. p # 1 => stage[ParentOf(tree, p)] = "wait"
    <3>1. CASE stage[p] = "wait"
      BY <3>1, <1>3
    <3>2. CASE stage[p] # "wait"
      <4>1. stage[p] = "future" /\ p = Driven
        BY <3>2, <1>3, <1>7
      <4> QED
        BY <4>1, <1>3, DrivenIs
    <3> QED
      BY <3>1, <3>2
  <2>4. p # 1 => stage[ParentOf(tree, p)] # "operation"
    BY <2>3
  <2>5. /\ Waitable(tree, stage')
        /\ \A x \in DOMAIN tree :
             /\ stage'[x] = "future" => stage[x] = "future" /\ x \notin SubtreeOf(tree, p)
             /\ x # ParentOf(tree, p) /\ Pollable(tree, stage, second, x) => Pollable(tree, stage', second, x)
    BY <2>2, <2>4, <1>1, <1>3, <1>4, ReadyDropping
  <2>6. \A x \in DOMAIN tree : Pollable(tree, stage', second, x)
    <3> SUFFICES ASSUME NEW x \in DOMAIN tree, stage'[x] = "future"
                 PROVE  Pollable(tree, stage', second, x)
      BY DEF Pollable
    <3>1. stage[x] = "future" /\ x \notin SubtreeOf(tree, p)
      BY <2>5
    <3>2. Pollable(tree, stage, second, x)
      BY <3>1, <1>4, <1>6
    <3>3. x # ParentOf(tree, p)
      <4>1. x # None
        BY ShapeGives
      <4>2. p = 1 => ParentOf(tree, p) = None
        BY DEF ParentOf
      <4>3. p # 1 => stage[ParentOf(tree, p)] # "future"
        BY <2>3
      <4> QED
        BY <3>1, <4>1, <4>2, <4>3
    <3> QED
      BY <3>2, <3>3, <2>5
  <2>7. p \in SubtreeOf(tree, p) /\ (p # 1 => ParentOf(tree, p) \notin SubtreeOf(tree, p))
    BY <1>1, <1>3, SubtreeFacts
  <2>8. pc'.do = "return" /\ pc'.at = p
    BY <1>2, Calls
  <2>9. At(tree, stage', second, pc'.do, pc'.at)
    BY <2>2, <2>7, <2>8, <1>3 DEF At
  <2>10. Owner(tree, stage', second, caller', pc'.do)
    BY <2>2, <2>8, <1>1, <1>2, <1>5 DEF Owner, Held
  <2> QED
    BY <2>2, <2>5, <2>6, <2>9, <2>10, <1>2, <1>3, PcValues DEF ShapeInv, TypeOK, Node, Prepared
<1>8. CASE ~(stage[p] = "wait" \/ (caller = "waiting" /\ p = Driven))
  <2>0. stage[p] = "future" /\ (p # 1 => stage[ParentOf(tree, p)] = "future")
    <3>1. stage[p] = "future"
      BY <1>3, <1>8
    <3>2. ASSUME p # 1, stage[ParentOf(tree, p)] = "wait"
          PROVE  FALSE
      <4>1. caller = "waiting"
        BY <3>2, <1>1, <1>3, <1>5 DEF Owner
      <4>2. p = Driven
        BY <3>1, <3>2, <1>3, DrivenOnly
      <4> QED
        BY <4>1, <4>2, <1>8
    <3> QED
      BY <3>1, <3>2, <1>3
  <2>1. pc'.do = "return" /\ pc'.at = p
    BY <1>2, Calls
  <2>2. CASE tree[p].kind = "and_then" /\ n = tree[p].first
    <3>1. stage' = Put(stage, {m \in SubtreeOf(tree, n) : stage[m] # "none"}, "over")
      BY <1>2, <1>8, <2>2, OfTree DEF DroppedBy, Released
    <3>2. /\ stage' \in [DOMAIN tree -> Stages]
          /\ Built(tree, stage', second) /\ Chain(tree, stage', second)
          /\ \A x \in DOMAIN tree : /\ x \in SubtreeOf(tree, n) => stage'[x] \notin Held
                                    /\ x \notin SubtreeOf(tree, n) => stage'[x] = stage[x]
                                    /\ stage'[x] = "none" <=> stage[x] = "none"
                                    /\ stage'[x] \in Held => stage'[x] = stage[x]
      BY <3>1, <1>1, <1>3, Dropping
    <3>3. n # 1 => stage[ParentOf(tree, n)] # "operation"
      BY <2>0, <1>3
    <3>4. /\ Waitable(tree, stage')
          /\ \A x \in DOMAIN tree :
               /\ stage'[x] = "future" => stage[x] = "future" /\ x \notin SubtreeOf(tree, n)
               /\ x # ParentOf(tree, n) /\ Pollable(tree, stage, second, x) => Pollable(tree, stage', second, x)
      BY <3>2, <3>3, <1>1, <1>3, <1>4, ReadyDropping
    <3>5. \A x \in DOMAIN tree : Pollable(tree, stage', second, x) \/ x \in SubtreeOf(tree, p)
      <4>1. p \in SubtreeOf(tree, p)
        BY <1>1, <1>3, SubtreeFacts
      <4> QED
        BY <4>1, <3>4, <1>3, <1>4, <1>6
    <3>6. p \notin SubtreeOf(tree, n) /\ (p # 1 => ParentOf(tree, p) \notin SubtreeOf(tree, n))
      <4>1. p < n
        BY <1>1, <1>3, KidAfter
      <4>2. \A x \in SubtreeOf(tree, n) : x >= n /\ x \in Nat
        BY <1>1, <1>3, SubtreeFacts
      <4> QED
        BY <4>1, <4>2, <1>1, <1>3
    <3>7. At(tree, stage', second, pc'.do, pc'.at)
      BY <3>2, <3>6, <2>0, <2>1, <1>3 DEF At
    <3>8. Owner(tree, stage', second, caller', pc'.do)
      BY <3>2, <2>1, <1>1, <1>2, <1>5 DEF Owner, Held
    <3> QED
      BY <3>2, <3>4, <3>5, <3>7, <3>8, <2>1, <1>2, <1>3, PcValues DEF ShapeInv, TypeOK, Node, Prepared
  <2>3. CASE ~(tree[p].kind = "and_then" /\ n = tree[p].first)
    <3>1. stage' = stage
      <4>1. DroppedBy(p, n) = {}
        BY <1>8, <2>3, OfTree DEF DroppedBy
      <4> QED
        BY <4>1, <1>1, <1>2 DEF Put
    <3>2. At(tree, stage, second, pc'.do, pc'.at)
      BY <2>0, <2>1, <1>3 DEF At
    <3>3. Owner(tree, stage, second, caller', pc'.do)
      BY <2>1, <1>1, <1>2, <1>5 DEF Owner
    <3>4. Prepared(tree, stage, second, pc'.do, pc'.at)
      BY <2>1, <1>4, <1>6 DEF Prepared
    <3> QED
      BY <3>1, <3>2, <3>3, <3>4, <1>2, <1>3, PcValues DEF ShapeInv, TypeOK, Node
  <2> QED
    BY <2>2, <2>3
<1> QED
  BY <1>7, <1>8

\* What the continuation of p builds, called when p has its first, n, at most.
LEMMA NextBuilds ==
  ASSUME ShapeInv, NEW p \in DOMAIN tree, NEW n, n \in KidsOf(tree, p),
         n = TargetOf(tree, second, p), n = tree[p].first,
         tree[p].kind \in {"and_then", "continue_with"}, NEW v
  PROVE  /\ Next(p, v) \in KidsOf(tree, p)
         /\ Next(p, v) \in {tree[p].ok, tree[p].err}
         /\ Next(p, v) # n
         /\ second[p] = None /\ ~taken[p]
         /\ stage[Next(p, v)] = "none"
         /\ \A k \in KidsOf(tree, p) : stage[k] \in Held => k = n
<1>1. /\ Proper(tree)
      /\ \A x \in DOMAIN tree : x # None
      /\ Built(tree, stage, second) /\ Chain(tree, stage, second)
      /\ \A x \in DOMAIN tree : taken[x] <=> second[x] # None
  BY ShapeGives
<1>4. tree[p].first # None
  BY <1>1, NodeParts DEF Wrappers
<1>5. second[p] = None
  <2>1. second[p] # None => second[p] \in {tree[p].ok, tree[p].err} /\ second[p] = n
    BY <1>1 DEF Built, TargetOf
  <2>2. tree[p].first # tree[p].ok /\ tree[p].first # tree[p].err
    BY <1>1, <1>4, NodeParts
  <2> QED
    BY <2>1, <2>2
<1> DEFINE m == Next(p, v)
<1>6. m \in {tree[p].ok, tree[p].err} /\ m # None
  <2>1. tree[p].ok # None
    BY <1>1, <1>4, NodeParts
  <2> QED
    BY <2>1 DEF Next
<1>7. m \in KidsOf(tree, p)
  BY <1>6 DEF KidsOf
<1>8. m # n
  BY <1>1, <1>4, <1>6, NodeParts
<1>9. m \in DOMAIN tree /\ m # 1 /\ ParentOf(tree, m) = p
  BY <1>1, <1>7, KidAfter
<1>10. stage[m] = "none"
  BY <1>1, <1>5, <1>6, <1>8, <1>9 DEF Built
<1>11. \A k \in KidsOf(tree, p) : stage[k] \in Held => k = n
  <2>1. \A k \in KidsOf(tree, p) : k \in DOMAIN tree \ {1} /\ ParentOf(tree, k) = p
    BY <1>1, KidAfter
  <2>2. \A k \in KidsOf(tree, p) : stage[k] \in Held => k = TargetOf(tree, second, ParentOf(tree, k))
    BY <2>1, <1>1 DEF Chain
  <2> QED
    BY <2>1, <2>2
<1> QED
  BY <1>1, <1>5, <1>6, <1>7, <1>8, <1>10, <1>11

\* The continuation of the parent of n may be called with what n, its first,
\* returned.
LEMMA ContinueBuilds ==
  ASSUME ShapeInv, NEW n, NEW v \in {"ok", "err"}, pc = Return(n, v), Parent(n) # None,
         ~Stops(Parent(n), n, v)
  PROVE  /\ n = tree[Parent(n)].first
         /\ Next(Parent(n), v) \in KidsOf(tree, Parent(n))
         /\ Next(Parent(n), v) \in {tree[Parent(n)].ok, tree[Parent(n)].err}
         /\ Next(Parent(n), v) # n
         /\ tree[Parent(n)].kind \in {"and_then", "continue_with"}
         /\ second[Parent(n)] = None /\ ~taken[Parent(n)]
         /\ stage[Next(Parent(n), v)] = "none"
         /\ \A k \in KidsOf(tree, Parent(n)) : stage[k] \in Held => k = n
<1> DEFINE p == Parent(n)
<1>1. Proper(tree) /\ \A x \in DOMAIN tree : x # None
  BY ShapeGives
<1>2. /\ n \in DOMAIN tree /\ p \in DOMAIN tree /\ n \in KidsOf(tree, p)
      /\ n = TargetOf(tree, second, p)
  BY ReturnAt
<1>3. n = tree[p].first /\ tree[p].kind \notin {"either", "operation"}
  BY OfTree DEF Stops
<1>4. tree[p].kind \in {"and_then", "continue_with"}
  <2>1. tree[p].first # None
    BY <1>1, <1>2, <1>3
  <2>2. tree[p].kind \in Wrappers \cup {"operation"}
    BY <2>1, <1>1, <1>2, NodeParts
  <2> QED
    BY <2>2, <1>3 DEF Wrappers
<1> QED
  BY <1>2, <1>3, <1>4, NextBuilds

\* A released first operation has left its parent to call its continuation.
LEMMA ReleasedAt ==
  ASSUME ShapeInv, NEW n, NEW v, pc = Running("released", n, v), NEW p, p = Parent(n),
         NEW m, m = Next(p, v)
  PROVE  /\ pc.do = "released" /\ pc.at = n /\ pc.value = v
         /\ n \in DOMAIN tree \ {1}
         /\ p \in DOMAIN tree /\ p = ParentOf(tree, n) /\ n \in KidsOf(tree, p) /\ n = tree[p].first
         /\ tree[p].kind \in {"and_then", "continue_with"}
         /\ stage[p] = "future"
         /\ p # 1 => /\ ParentOf(tree, p) \in DOMAIN tree
                     /\ ParentOf(tree, p) < p
                     /\ stage[ParentOf(tree, p)] \in {"wait", "future"}
                     /\ p = TargetOf(tree, second, ParentOf(tree, p))
         /\ Waitable(tree, stage)
         /\ \A x \in DOMAIN tree \ {p} : Pollable(tree, stage, second, x)
         /\ caller \in {"waiting", "polling"}
         /\ m \in KidsOf(tree, p) /\ m \in {tree[p].ok, tree[p].err}
         /\ second[p] = None /\ ~taken[p] /\ stage[m] = "none"
         /\ \A k \in KidsOf(tree, p) : stage[k] \notin Held
<1>1. /\ Proper(tree)
      /\ \A x \in DOMAIN tree : x # None
      /\ Prepared(tree, stage, second, pc.do, pc.at)
      /\ At(tree, stage, second, pc.do, pc.at)
  BY ShapeGives
<1>2. pc.do = "released" /\ pc.at = n /\ pc.value = v
  BY Calls
<1>3. p = ParentOf(tree, n) /\ n \in DOMAIN tree \ {1}
  BY <1>1, <1>2, OfTree DEF At
<1>4. p # None
  BY <1>1, <1>3, ParentBefore
<1>5. /\ p \in DOMAIN tree /\ n \in KidsOf(tree, p)
      /\ n = TargetOf(tree, second, p)
      /\ p # 1 => /\ ParentOf(tree, p) \in DOMAIN tree
                  /\ ParentOf(tree, p) < p
                  /\ stage[ParentOf(tree, p)] \in {"wait", "future"}
                  /\ p = TargetOf(tree, second, ParentOf(tree, p))
      /\ caller \in {"waiting", "polling"}
  BY <1>2, <1>4, CameBack
<1>6. /\ stage[p] = "future" /\ stage[n] \notin Held /\ n = tree[p].first
      /\ tree[p].kind \in {"and_then", "continue_with"}
  BY <1>1, <1>2, <1>3 DEF At
<1>7. /\ m \in KidsOf(tree, p) /\ m \in {tree[p].ok, tree[p].err}
      /\ second[p] = None /\ ~taken[p] /\ stage[m] = "none"
      /\ \A k \in KidsOf(tree, p) : stage[k] \in Held => k = n
  BY <1>5, <1>6, NextBuilds
<1>8. Waitable(tree, stage) /\ \A x \in DOMAIN tree \ {p} : Pollable(tree, stage, second, x)
  BY <1>1, <1>2, <1>3 DEF Prepared
<1> QED
  BY <1>2, <1>3, <1>5, <1>6, <1>7, <1>8

\* What taking the continuation of p and storing its second operation means.
LEMMA TakenSecond ==
  ASSUME ShapeInv, NEW p \in DOMAIN tree, NEW m \in DOMAIN tree,
         tree' = tree, taken' = Take(p), second' = Put(second, {p}, m)
  PROVE  /\ taken' \in [DOMAIN tree -> BOOLEAN]
         /\ \A x \in DOMAIN tree : taken'[x] <=> second'[x] # None
<1>1. /\ taken \in [DOMAIN tree -> BOOLEAN]
      /\ second \in [DOMAIN tree -> DOMAIN tree \cup {None}]
      /\ \A x \in DOMAIN tree : taken[x] <=> second[x] # None
      /\ m # None
  BY ShapeGives
<1>2. \A x \in DOMAIN tree : (x = p => second'[x] = m) /\ (x # p => second'[x] = second[x])
  BY <1>1 DEF Put
<1>3. taken' = [x \in DOMAIN tree |-> IF x \in {p} THEN TRUE ELSE taken[x]]
  BY <1>1 DEF Take, Put
<1>4. taken' \in [DOMAIN tree -> BOOLEAN]
  BY <1>1, <1>3
<1>5. \A x \in DOMAIN tree : (x = p => taken'[x] = TRUE) /\ (x # p => taken'[x] = taken[x])
  BY <1>3
<1> QED
  BY <1>1, <1>2, <1>4, <1>5

\* The wait of a continuation's result begins.
LEMMA ShapeWaitSecond ==
  ASSUME ShapeInv, NEW n, NEW v \in {"ok", "err"}, Continue(n, v), stage[Parent(n)] = "wait"
  PROVE  ShapeInv'
<1> DEFINE p == Parent(n)
<1> DEFINE m == Next(p, v)
<1>1. /\ Proper(tree)
      /\ stage \in [DOMAIN tree -> Stages]
      /\ second \in [DOMAIN tree -> DOMAIN tree \cup {None}]
      /\ Built(tree, stage, second) /\ Chain(tree, stage, second)
      /\ Owner(tree, stage, second, caller, pc.do)
  BY ShapeGives
<1>2. /\ tree' = tree /\ caller' = caller
      /\ pc = Return(n, v) /\ p # None /\ ~Stops(p, n, v)
      /\ stage' = Put(stage, SpineOf(tree, m), "operation")
      /\ taken' = Take(p) /\ second' = Put(second, {p}, m) /\ pc' = Call(m)
  BY OfTree DEF Continue, WaitSecond, Build
<1>3. /\ n \in DOMAIN tree
      /\ p \in DOMAIN tree /\ n \in KidsOf(tree, p)
      /\ stage[p] = "wait" /\ stage[n] \notin Held
      /\ Waitable(tree, stage)
      /\ \A x \in DOMAIN tree : Pollable(tree, stage, second, x) \/ x \in SubtreeOf(tree, n)
      /\ caller = "waiting"
  BY <1>2, ReturnAt
<1>4. /\ m \in KidsOf(tree, p)
      /\ m \in {tree[p].ok, tree[p].err}
      /\ tree[p].kind \in {"and_then", "continue_with"}
      /\ second[p] = None /\ stage[m] = "none"
      /\ \A k \in KidsOf(tree, p) : stage[k] \in Held => k = n
  BY <1>2, ContinueBuilds
<1> HIDE DEF m, p
<1>5. m \in DOMAIN tree /\ m # 1 /\ ParentOf(tree, m) = p
  BY <1>1, <1>3, <1>4, KidAfter
<1>6. \A k \in KidsOf(tree, p) : stage[k] \notin Held
  BY <1>3, <1>4
<1>7. Seconds(tree, p, m, second, second')
  BY <1>2, <1>4 DEF Seconds
<1> DEFINE mode == "operation"
<1>8. /\ mode \in {"operation", "future"} /\ stage[p] \in {"wait", "future"}
      /\ stage[p] = "future" <=> mode = "future"
      /\ stage' = Put(stage, SpineOf(tree, m), mode)
  BY <1>2, <1>3
<1>9. stage[p] = "wait" \/ (stage[p] = "future" /\ mode = "future")
  BY <1>3
<1> HIDE DEF mode
<1>10. /\ stage' \in [DOMAIN tree -> Stages] /\ second' \in [DOMAIN tree -> DOMAIN tree \cup {None}]
       /\ m = TargetOf(tree, second', p)
       /\ \A x \in DOMAIN tree : /\ x \in SpineOf(tree, m) => stage[x] = "none" /\ stage'[x] = mode
                                 /\ x \notin SpineOf(tree, m) => stage'[x] = stage[x]
                                 /\ x # p => second'[x] = second[x]
       /\ Built(tree, stage', second') /\ Chain(tree, stage', second')
  BY <1>1, <1>3, <1>4, <1>6, <1>7, <1>8, Building
<1>11. \A x \in DOMAIN tree \ {p} : Pollable(tree, stage, second, x)
  <2> SUFFICES ASSUME NEW x \in DOMAIN tree, stage[x] = "future"
               PROVE  Pollable(tree, stage, second, x)
    BY DEF Pollable
  <2>1. x \notin SubtreeOf(tree, n)
    BY <1>1, <1>3, PartsHeld DEF Held
  <2> QED
    BY <2>1, <1>3
<1>12. Waitable(tree, stage') /\ \A x \in DOMAIN tree : Pollable(tree, stage', second', x)
  <2>1. Waitable(tree, stage)
    BY <1>3
  <2> QED
    BY <2>1, <1>1, <1>3, <1>4, <1>8, <1>9, <1>10, <1>11, ReadyBuilding
<1>13. p \notin SpineOf(tree, m) /\ m \in SpineOf(tree, m)
  BY <1>1, <1>3, <1>5, <1>10, SpineFacts
<1>14. stage'[p] = "wait" /\ stage'[m] = "operation"
  BY <1>3, <1>5, <1>10, <1>13 DEF mode
<1>15. pc'.do = "call" /\ pc'.at = m
  BY <1>2, Calls
<1>16. At(tree, stage', second', pc'.do, pc'.at)
  BY <1>5, <1>10, <1>14, <1>15 DEF At
<1>17. Prepared(tree, stage', second', pc'.do, pc'.at)
  BY <1>12 DEF Prepared
<1>18. Owner(tree, stage', second', caller', pc'.do)
  BY <1>2, <1>3, <1>15 DEF Owner
<1>19. /\ taken' \in [DOMAIN tree -> BOOLEAN]
       /\ \A x \in DOMAIN tree : taken'[x] <=> second'[x] # None
  BY <1>2, <1>3, <1>5, TakenSecond
<1>20. TypeOK'
  <2>1. pc' \in Progress(DOMAIN tree)
    BY <1>2, <1>5, PcValues
  <2> QED
    BY <2>1, <1>2, <1>10, <1>19 DEF ShapeInv, TypeOK, Node
<1> QED
  BY <1>2, <1>10, <1>16, <1>17, <1>18, <1>19, <1>20 DEF ShapeInv, Node

\* A poll releases the first operation.
LEMMA ShapeRelease ==
  ASSUME ShapeInv, NEW n, NEW v \in {"ok", "err"}, Continue(n, v), stage[Parent(n)] # "wait"
  PROVE  ShapeInv'
<1> DEFINE p == Parent(n)
<1>1. /\ Proper(tree)
      /\ stage \in [DOMAIN tree -> Stages]
      /\ Built(tree, stage, second) /\ Chain(tree, stage, second)
      /\ Owner(tree, stage, second, caller, pc.do)
      /\ \A x \in DOMAIN tree : x \in Nat
      /\ \A x \in DOMAIN tree : taken[x] <=> second[x] # None
  BY ShapeGives
<1>2. pc = Return(n, v) /\ p # None /\ ~Stops(p, n, v)
  BY DEF Continue
<1>3. /\ n \in DOMAIN tree \ {1}
      /\ p \in DOMAIN tree /\ p = ParentOf(tree, n) /\ n \in KidsOf(tree, p)
      /\ stage[p] = "future" /\ n = TargetOf(tree, second, p)
      /\ Waitable(tree, stage)
      /\ \A x \in DOMAIN tree : Pollable(tree, stage, second, x) \/ x \in SubtreeOf(tree, n)
      /\ caller \in {"waiting", "polling"}
  BY <1>2, ReturnAt
<1>4. tree[p].kind \in {"and_then", "continue_with"} /\ n = tree[p].first
  BY <1>2, ContinueBuilds
<1>5. /\ tree' = tree /\ caller' = caller /\ taken' = taken /\ second' = second
      /\ stage' = Put(stage, {x \in SubtreeOf(tree, n) : stage[x] # "none"}, "over")
      /\ pc' = Running("released", n, v)
  BY <1>4, OfTree DEF Continue, Release, Released
<1> HIDE DEF p
<1>6. p < n
  BY <1>1, <1>3, KidAfter
<1>7. /\ stage' \in [DOMAIN tree -> Stages]
      /\ Built(tree, stage', second) /\ Chain(tree, stage', second)
      /\ \A x \in DOMAIN tree : /\ x \in SubtreeOf(tree, n) => stage'[x] \notin Held
                                /\ x \notin SubtreeOf(tree, n) => stage'[x] = stage[x]
                                /\ stage'[x] = "none" <=> stage[x] = "none"
                                /\ stage'[x] \in Held => stage'[x] = stage[x]
  BY <1>1, <1>3, <1>5, Dropping
<1>8. p \notin SubtreeOf(tree, n) /\ n \in SubtreeOf(tree, n)
  <2>1. n \in SubtreeOf(tree, n) /\ \A x \in SubtreeOf(tree, n) : x >= n /\ x \in Nat
    BY <1>1, <1>3, SubtreeFacts
  <2> QED
    BY <2>1, <1>1, <1>3, <1>6
<1>9. pc'.do = "released" /\ pc'.at = n
  BY <1>5, Calls
<1>10. stage'[p] = "future" /\ stage'[n] \notin Held
  BY <1>3, <1>7, <1>8
<1>11. /\ Waitable(tree, stage')
       /\ \A x \in DOMAIN tree :
            /\ stage'[x] = "future" => stage[x] = "future" /\ x \notin SubtreeOf(tree, n)
            /\ x # ParentOf(tree, n) /\ Pollable(tree, stage, second, x) => Pollable(tree, stage', second, x)
  <2>1. n # 1 => stage[ParentOf(tree, n)] # "operation"
    BY <1>3
  <2>2. n \in DOMAIN tree /\ Waitable(tree, stage)
    BY <1>3
  <2>3. Proper(tree) /\ Built(tree, stage, second)
    BY <1>1
  <2> QED
    BY <2>1, <2>2, <2>3, <1>7, ReadyDropping
<1>12. \A x \in DOMAIN tree \ {p} : Pollable(tree, stage', second, x)
  <2> SUFFICES ASSUME NEW x \in DOMAIN tree \ {p}, stage'[x] = "future"
               PROVE  Pollable(tree, stage', second, x)
    BY DEF Pollable
  <2> QED
    BY <1>3, <1>11
<1>13. At(tree, stage', second, pc'.do, pc'.at)
  BY <1>3, <1>4, <1>9, <1>10 DEF At
<1>14. Prepared(tree, stage', second, pc'.do, pc'.at)
  BY <1>3, <1>9, <1>11, <1>12 DEF Prepared
<1>15. Owner(tree, stage', second, caller', pc'.do)
  <2>1. \A x \in DOMAIN tree : stage'[x] \in Held => stage'[x] = stage[x]
    BY <1>7
  <2> QED
    BY <2>1, <1>1, <1>3, <1>5, <1>9 DEF Owner, Held
<1>16. TypeOK'
  <2>1. pc' \in Progress(DOMAIN tree)
    BY <1>3, <1>5, PcValues
  <2> QED
    BY <2>1, <1>5, <1>7 DEF ShapeInv, TypeOK, Node
<1> QED
  BY <1>1, <1>5, <1>7, <1>13, <1>14, <1>15, <1>16 DEF ShapeInv, Node

\* A poll goes on with what the continuation built.
LEMMA ShapePollSecond ==
  ASSUME ShapeInv, NEW n, NEW v \in {"ok", "err"}, PollSecond(n, v)
  PROVE  ShapeInv'
<1> DEFINE p == Parent(n)
<1> DEFINE m == Next(p, v)
<1>1. /\ Proper(tree)
      /\ stage \in [DOMAIN tree -> Stages]
      /\ second \in [DOMAIN tree -> DOMAIN tree \cup {None}]
      /\ Built(tree, stage, second) /\ Chain(tree, stage, second)
      /\ Owner(tree, stage, second, caller, pc.do)
      /\ \A x \in DOMAIN tree : x \in Nat
  BY ShapeGives
<1>2. pc = Running("released", n, v) /\ p = Parent(n) /\ m = Next(p, v)
  BY DEF PollSecond
<1>3. ~taken[p]
  BY <1>2, ReleasedAt
<1>4. /\ tree' = tree /\ caller' = caller
      /\ stage' = Put(stage, SpineOf(tree, m), "future")
      /\ taken' = Take(p) /\ second' = Put(second, {p}, m) /\ pc' = Call(p)
  BY <1>3, OfTree DEF PollSecond, BuildFuture, Onward
<1> HIDE DEF m, p
<1>5. /\ p \in DOMAIN tree /\ stage[p] = "future"
      /\ p # 1 => /\ ParentOf(tree, p) \in DOMAIN tree
                  /\ ParentOf(tree, p) < p
                  /\ stage[ParentOf(tree, p)] \in {"wait", "future"}
                  /\ p = TargetOf(tree, second, ParentOf(tree, p))
      /\ Waitable(tree, stage)
      /\ \A x \in DOMAIN tree \ {p} : Pollable(tree, stage, second, x)
      /\ caller \in {"waiting", "polling"}
      /\ m \in KidsOf(tree, p) /\ m \in {tree[p].ok, tree[p].err}
      /\ tree[p].kind \in {"and_then", "continue_with"}
      /\ second[p] = None /\ stage[m] = "none"
      /\ \A k \in KidsOf(tree, p) : stage[k] \notin Held
  BY <1>2, ReleasedAt
<1>6. m \in DOMAIN tree /\ m # 1 /\ ParentOf(tree, m) = p /\ p < m
  BY <1>1, <1>5, KidAfter
<1>7. Seconds(tree, p, m, second, second')
  BY <1>4, <1>5 DEF Seconds
<1> DEFINE mode == "future"
<1>8. /\ mode \in {"operation", "future"} /\ stage[p] \in {"wait", "future"}
      /\ stage[p] = "future" <=> mode = "future"
      /\ stage' = Put(stage, SpineOf(tree, m), mode)
  BY <1>4, <1>5
<1>9. stage[p] = "wait" \/ (stage[p] = "future" /\ mode = "future")
  BY <1>8
<1> HIDE DEF mode
<1>10. /\ stage' \in [DOMAIN tree -> Stages] /\ second' \in [DOMAIN tree -> DOMAIN tree \cup {None}]
       /\ m = TargetOf(tree, second', p)
       /\ \A x \in DOMAIN tree : /\ x \in SpineOf(tree, m) => stage[x] = "none" /\ stage'[x] = mode
                                 /\ x \notin SpineOf(tree, m) => stage'[x] = stage[x]
                                 /\ x # p => second'[x] = second[x]
       /\ Built(tree, stage', second') /\ Chain(tree, stage', second')
  BY <1>1, <1>5, <1>7, <1>8, Building
<1>11. Waitable(tree, stage') /\ \A x \in DOMAIN tree : Pollable(tree, stage', second', x)
  BY <1>1, <1>5, <1>8, <1>9, <1>10, ReadyBuilding
<1>12. stage'[p] = "future" /\ (p # 1 => stage'[ParentOf(tree, p)] = stage[ParentOf(tree, p)])
  <2>1. \A x \in SpineOf(tree, m) : x >= m /\ x \in Nat
    BY <1>1, <1>6, SpineFacts
  <2>2. p \notin SpineOf(tree, m) /\ (p # 1 => ParentOf(tree, p) \notin SpineOf(tree, m))
    BY <2>1, <1>1, <1>5, <1>6
  <2> QED
    BY <2>2, <1>5, <1>10
<1>13. pc'.do = "call" /\ pc'.at = p
  BY <1>4, Calls
<1>14. At(tree, stage', second', pc'.do, pc'.at)
  <2>1. p # 1 => TargetOf(tree, second', ParentOf(tree, p)) = TargetOf(tree, second, ParentOf(tree, p))
    BY <1>1, <1>5, <1>10 DEF TargetOf
  <2> QED
    BY <2>1, <1>5, <1>12, <1>13 DEF At
<1>15. Prepared(tree, stage', second', pc'.do, pc'.at)
  BY <1>11 DEF Prepared
<1>16. Owner(tree, stage', second', caller', pc'.do)
  <2>1. \A x \in DOMAIN tree : stage'[x] \in {stage[x], mode}
    BY <1>10
  <2> QED
    BY <2>1, <1>1, <1>4, <1>5, <1>13 DEF Owner, Held, mode
<1>17. /\ taken' \in [DOMAIN tree -> BOOLEAN]
       /\ \A x \in DOMAIN tree : taken'[x] <=> second'[x] # None
  BY <1>4, <1>5, <1>6, TakenSecond
<1>18. TypeOK'
  <2>1. pc' \in Progress(DOMAIN tree)
    BY <1>4, <1>5, PcValues
  <2> QED
    BY <2>1, <1>4, <1>10, <1>17 DEF ShapeInv, TypeOK, Node
<1> QED
  BY <1>4, <1>10, <1>14, <1>15, <1>16, <1>17, <1>18 DEF ShapeInv, Node

\* Every step keeps the shape.
LEMMA ShapeNext ==
  ASSUME ShapeInv, [NextState]_vars
  PROVE  ShapeInv'
<1>1. CASE IntoFuture
  BY <1>1, ShapeIntoFuture
<1>2. CASE StartWait
  BY <1>2, ShapeStartWait
<1>3. CASE Drop
  <2>1. /\ stage' = Put(stage, {n \in Node : stage[n] # "none"}, "over")
        /\ caller' = "dropped" /\ pc' = Running("idle", None, "none") /\ UNCHANGED <<tree, taken, second>>
    BY <1>3 DEF Drop, Idle
  <2> DEFINE c == "dropped"
  <2> DEFINE v == "none"
  <2>2. c \in {"done", "dropped"} /\ v \in {"none", "ok", "err"} /\ caller' = c /\ pc' = Running("idle", None, v)
    BY <2>1
  <2> HIDE DEF c, v
  <2> QED
    BY <2>1, <2>2, ShapeOver
<1>4. CASE Poll
  BY <1>4, ShapePoll
<1>5. ASSUME NEW n \in Node, Step(n)
      PROVE  ShapeInv'
  <2>1. CASE WaitFirst(n)
    BY <2>1, ShapeWaitFirst
  <2>2. CASE BlockOn(n)
    BY <2>2, ShapeBlockOn
  <2>3. CASE WaitSystemCall(n)
    BY <2>3, ShapeSame DEF WaitSystemCall
  <2>4. CASE PollCombinator(n)
    BY <2>4, ShapePollCombinator
  <2>5. CASE PollBlock(n)
    BY <2>5, ShapePollBlock
  <2>6. CASE PollPending(n)
    BY <2>6, ShapePollPending
  <2>7. CASE ReturnLeaf(n)
    BY <2>7, ShapeReturnLeaf
  <2>8. ASSUME NEW v \in {"ok", "err"}, ReturnUp(n, v)
        PROVE  ShapeInv'
    BY <2>8, ShapeReturnUp
  <2>9. ASSUME NEW v \in {"ok", "err"}, Continue(n, v)
        PROVE  ShapeInv'
    BY <2>9, ShapeWaitSecond, ShapeRelease
  <2>10. ASSUME NEW v \in {"ok", "err"}, PollSecond(n, v)
         PROVE  ShapeInv'
    BY <2>10, ShapePollSecond
  <2> QED
    BY <1>5, <2>1, <2>2, <2>3, <2>4, <2>5, <2>6, <2>7, <2>8, <2>9, <2>10 DEF Step
<1>6. ASSUME NEW v \in {"ok", "err"}, Finish(v)
      PROVE  ShapeInv'
  <2>1. /\ stage' = Put(stage, {n \in Node : stage[n] # "none"}, "over")
        /\ caller' = "done" /\ pc' = Running("idle", None, v) /\ UNCHANGED <<tree, taken, second>>
    BY <1>6 DEF Finish
  <2> DEFINE c == "done"
  <2>2. c \in {"done", "dropped"} /\ v \in {"none", "ok", "err"} /\ caller' = c
    BY <2>1
  <2> HIDE DEF c
  <2> QED
    BY <2>1, <2>2, ShapeOver
<1>7. ASSUME NEW n \in Node, Complete(n)
      PROVE  ShapeInv'
  BY <1>7, ShapeSame DEF Complete
<1>8. CASE UNCHANGED vars
  BY <1>8, ShapeSame DEF vars
<1> QED
  BY <1>1, <1>2, <1>3, <1>4, <1>5, <1>6, <1>7, <1>8 DEF NextState, Run, System

-----------------------------------------------------------------------------
(* The sequential program *)

Values == {"ok", "err", "pending"}

\* What n's continuation builds in t.
NextOf(t, n, v) == IF v = "err" /\ t[n].err # None THEN t[n].err ELSE t[n].ok

\* Whether n ends with its first, which is v.
Ends(t, n, v) ==
  \/ t[n].kind \in {"either", "operation"} \/ v = "pending"
  \/ t[n].kind = "and_then" /\ v = "err"

\* What the program of n is, given those of its kids.
Body(t, results, f, n) ==
  IF t[n].kind \in Effects THEN [uses |-> <<n>>, value |-> results[n]]
  ELSE IF t[n].kind = "ready" THEN [uses |-> <<>>, value |-> t[n].value]
  ELSE IF Ends(t, n, f[t[n].first].value) THEN f[t[n].first]
  ELSE [uses  |-> f[t[n].first].uses \o f[NextOf(t, n, f[t[n].first].value)].uses,
        value |-> f[NextOf(t, n, f[t[n].first].value)].value]

\* The program of every node of t.
ProgramOf(t, results) == CHOOSE r : r = [n \in DOMAIN t |-> Body(t, results, r, n)]

Runs(t) == [uses : Seq(DOMAIN t), value : Values]

\* It is that of the model.
LEMMA ProgramIs ==
  \A results : Program(results) = ProgramOf(tree, results)
BY Zenon DEF Program, ProgramOf, Body, Ends, NextOf, Next, Kind, Node

\* A node that does not end with its first has a continuation.
LEMMA NextKid ==
  ASSUME NEW t, Proper(t), NEW n \in DOMAIN t, t[n].kind \in Wrappers \cup {"operation"},
         NEW v, ~Ends(t, n, v)
  PROVE  /\ NextOf(t, n, v) \in KidsOf(t, n) /\ NextOf(t, n, v) \in DOMAIN t
         /\ NextOf(t, n, v) # t[n].first
         /\ NextOf(t, n, v) \in {t[n].ok, t[n].err}
<1>1. t[n].kind \in {"and_then", "continue_with"}
  BY DEF Ends, Wrappers
<1>2. t[n].ok # None /\ t[n].first # None
  BY <1>1, NodeParts
<1>3. NextOf(t, n, v) \in {t[n].ok, t[n].err} /\ NextOf(t, n, v) # None
  BY <1>2 DEF NextOf
<1>4. NextOf(t, n, v) \in KidsOf(t, n)
  BY <1>3 DEF KidsOf
<1> QED
  BY <1>2, <1>3, <1>4, NodeParts, KidAfter

\* The programs are well defined.
LEMMA ProgramForm ==
  ASSUME NEW t, Proper(t), NEW results \in [DOMAIN t -> Values]
  PROVE  /\ ProgramOf(t, results) \in [DOMAIN t -> Runs(t)]
         /\ \A n \in DOMAIN t : ProgramOf(t, results)[n] = Body(t, results, ProgramOf(t, results), n)
<1> DEFINE G(f) == [n \in DOMAIN t |-> Body(t, results, f, n)]
<1> DEFINE T == Runs(t)
<1>1. \A n \in DOMAIN t : t[n].kind \notin Effects \cup {"ready"} =>
        /\ t[n].kind \in Wrappers \cup {"operation"}
        /\ t[n].first \in KidsOf(t, n) /\ t[n].first \in DOMAIN t
  BY NodeParts, KidAfter
<1>2. ASSUME NEW f \in [DOMAIN t -> T], NEW n \in DOMAIN t
      PROVE  Body(t, results, f, n) \in T
  <2>1. CASE t[n].kind \in Effects
    BY <2>1 DEF Body, Runs
  <2>2. CASE t[n].kind \notin Effects /\ t[n].kind = "ready"
    <3>1. t[n].value \in Values
      BY <2>2, NodeParts DEF Values
    <3> QED
      BY <2>2, <3>1 DEF Body, Runs
  <2>3. CASE t[n].kind \notin Effects \cup {"ready"} /\ Ends(t, n, f[t[n].first].value)
    BY <2>3, <1>1 DEF Body
  <2>4. CASE t[n].kind \notin Effects \cup {"ready"} /\ ~Ends(t, n, f[t[n].first].value)
    <3> DEFINE x == NextOf(t, n, f[t[n].first].value)
    <3>1. x \in DOMAIN t /\ t[n].first \in DOMAIN t
      BY <2>4, <1>1, NextKid
    <3>2. Body(t, results, f, n) = [uses |-> f[t[n].first].uses \o f[x].uses, value |-> f[x].value]
      BY <2>4 DEF Body
    <3> HIDE DEF x
    <3>3. /\ f[t[n].first].uses \in Seq(DOMAIN t) /\ f[x].uses \in Seq(DOMAIN t) /\ f[x].value \in Values
      BY <3>1 DEF Runs
    <3>4. f[t[n].first].uses \o f[x].uses \in Seq(DOMAIN t)
      BY <3>3, ConcatProperties
    <3> QED
      BY <3>2, <3>3, <3>4 DEF Runs
  <2> QED
    BY <2>1, <2>2, <2>3, <2>4
<1>3. ASSUME NEW f \in [DOMAIN t -> T], NEW g \in [DOMAIN t -> T], NEW n \in DOMAIN t,
             \A k \in KidsOf(t, n) : f[k] = g[k]
      PROVE  Body(t, results, f, n) = Body(t, results, g, n)
  <2>1. CASE t[n].kind \in Effects
    BY <2>1 DEF Body
  <2>2. CASE t[n].kind \notin Effects /\ t[n].kind = "ready"
    BY <2>2 DEF Body
  <2>3. CASE t[n].kind \notin Effects \cup {"ready"} /\ Ends(t, n, f[t[n].first].value)
    <3>1. f[t[n].first] = g[t[n].first]
      BY <2>3, <1>1, <1>3
    <3> QED
      BY <2>3, <3>1 DEF Body
  <2>4. CASE t[n].kind \notin Effects \cup {"ready"} /\ ~Ends(t, n, f[t[n].first].value)
    <3>1. f[t[n].first] = g[t[n].first]
      BY <2>4, <1>1, <1>3
    <3> DEFINE x == NextOf(t, n, f[t[n].first].value)
    <3>2. f[x] = g[x]
      BY <2>4, <1>1, <1>3, NextKid
    <3> QED
      BY <2>4, <3>1, <3>2 DEF Body
  <2> QED
    BY <2>1, <2>2, <2>3, <2>4
<1>4. \E f \in [DOMAIN t -> T] : f = G(f)
  <2> DEFINE B == [f \in [DOMAIN t -> T] |-> G(f)]
  <2>1. B \in [[DOMAIN t -> T] -> [DOMAIN t -> T]]
    <3>1. \A f \in [DOMAIN t -> T] : G(f) \in [DOMAIN t -> T]
      BY <1>2
    <3> QED
      BY <3>1
  <2>2. \A f, g \in [DOMAIN t -> T] : \A n \in DOMAIN t :
          (\A k \in KidsOf(t, n) : f[k] = g[k]) => B[f][n] = B[g][n]
    BY <1>3
  <2>3. [uses |-> <<>>, value |-> "ok"] \in T
    BY DEF Runs, Values
  <2>4. \A f \in [DOMAIN t -> T] : B[f] = G(f)
    OBVIOUS
  <2> HIDE DEF B, T, G
  <2>5. \E f \in [DOMAIN t -> T] : f = B[f]
    BY <2>1, <2>2, <2>3, TreeRecursion, ZenonT(60)
  <2> QED
    BY <2>4, <2>5
<1> DEFINE r == ProgramOf(t, results)
<1>5. r = G(r)
  <2>1. \E f : f = G(f)
    BY <1>4, Zenon
  <2> QED
    BY <2>1, Zenon DEF ProgramOf
<1> HIDE DEF r
<1>6. \A n \in DOMAIN t : r[n] = Body(t, results, r, n)
  BY <1>5
<1>7. r \in [DOMAIN t -> T]
  <2>1. PICK f \in [DOMAIN t -> T] : f = G(f)
    BY <1>4
  <2>2. \A n \in DOMAIN t : f[n] = Body(t, results, f, n)
    BY <2>1
  <2> DEFINE S == {n \in DOMAIN t : r[n] = f[n]}
  <2>3. ASSUME NEW n \in DOMAIN t, KidsOf(t, n) \subseteq S
        PROVE  n \in S
    <3>1. \A k \in KidsOf(t, n) : r[k] = f[k]
      BY <2>3
    <3>2. Body(t, results, r, n) = Body(t, results, f, n)
      <4>1. CASE t[n].kind \in Effects \cup {"ready"}
        BY <4>1 DEF Body
      <4>2. CASE t[n].kind \notin Effects \cup {"ready"} /\ Ends(t, n, f[t[n].first].value)
        <5>1. r[t[n].first] = f[t[n].first]
          BY <4>2, <1>1, <3>1
        <5> QED
          BY <4>2, <5>1 DEF Body
      <4>3. CASE t[n].kind \notin Effects \cup {"ready"} /\ ~Ends(t, n, f[t[n].first].value)
        <5>1. r[t[n].first] = f[t[n].first]
          BY <4>3, <1>1, <3>1
        <5> DEFINE x == NextOf(t, n, f[t[n].first].value)
        <5>2. r[x] = f[x]
          BY <4>3, <1>1, <3>1, NextKid
        <5> QED
          BY <4>3, <5>1, <5>2 DEF Body
      <4> QED
        BY <4>1, <4>2, <4>3
    <3> QED
      BY <3>2, <2>2, <1>6
  <2> HIDE DEF S
  <2>4. DOMAIN t \subseteq S
    BY <2>3, KidInduction
  <2>5. \A n \in DOMAIN t : r[n] = f[n]
    BY <2>4 DEF S
  <2>6. r = [n \in DOMAIN t |-> r[n]]
    BY <1>5
  <2> QED
    BY <2>5, <2>6
<1> QED
  BY <1>6, <1>7 DEF r

\* The program of n, whose first is f and whose continuation gives x, case by
\* case.
RunCases(t, results, r, n, f, x) ==
  /\ r[n].uses \in Seq(DOMAIN t) /\ r[n].value \in Values
  /\ t[n].kind \in Effects => r[n] = [uses |-> <<n>>, value |-> results[n]]
  /\ t[n].kind = "ready" =>
       /\ r[n] = [uses |-> <<>>, value |-> t[n].value]
       /\ t[n].value \in {"ok", "err"}
  /\ t[n].kind \notin Effects \cup {"ready"} =>
       /\ t[n].kind \in Wrappers \cup {"operation"}
       /\ f \in DOMAIN t /\ f \in KidsOf(t, n)
       /\ Ends(t, n, r[f].value) => r[n] = r[f]
       /\ ~Ends(t, n, r[f].value) =>
            /\ x \in DOMAIN t /\ x \in KidsOf(t, n) /\ x # f
            /\ r[f].value \in {"ok", "err"}
            /\ r[n] = [uses |-> r[f].uses \o r[x].uses, value |-> r[x].value]

\* The programs are of these cases.
LEMMA RunOf ==
  ASSUME NEW t, Proper(t), NEW results \in [DOMAIN t -> Values],
         NEW r, r = ProgramOf(t, results), NEW n \in DOMAIN t
  PROVE  RunCases(t, results, r, n, t[n].first, NextOf(t, n, r[t[n].first].value))
<1> DEFINE f == t[n].first
<1> DEFINE x == NextOf(t, n, r[f].value)
<1>0. r \in [DOMAIN t -> Runs(t)] /\ \A k \in DOMAIN t : r[k] = Body(t, results, r, k)
  BY ProgramForm
<1>1. r[n] \in Runs(t) /\ r[n] = Body(t, results, r, n)
  BY <1>0
<1>2. t[n].kind \in Effects => r[n] = [uses |-> <<n>>, value |-> results[n]]
  BY <1>1 DEF Body
<1>3. t[n].kind = "ready" =>
        /\ r[n] = [uses |-> <<>>, value |-> t[n].value]
        /\ t[n].value \in {"ok", "err"}
  BY <1>1, NodeParts DEF Body, Effects
<1>4. t[n].kind \notin Effects \cup {"ready"} =>
        /\ t[n].kind \in Wrappers \cup {"operation"}
        /\ f \in DOMAIN t /\ f \in KidsOf(t, n)
  BY NodeParts, KidAfter
<1>5. ASSUME t[n].kind \notin Effects \cup {"ready"}, Ends(t, n, r[f].value)
      PROVE  r[n] = r[f]
  BY <1>1, <1>5 DEF Body
<1>6. ASSUME t[n].kind \notin Effects \cup {"ready"}, ~Ends(t, n, r[f].value)
      PROVE  /\ x \in DOMAIN t /\ x \in KidsOf(t, n) /\ x # f
             /\ r[f].value \in {"ok", "err"}
             /\ r[n] = [uses |-> r[f].uses \o r[x].uses, value |-> r[x].value]
  <2>1. r[n] = [uses |-> r[f].uses \o r[x].uses, value |-> r[x].value]
    BY <1>1, <1>6 DEF Body
  <2>2. r[f] \in Runs(t) /\ r[f].value # "pending"
    BY <1>0, <1>4, <1>6 DEF Ends
  <2>3. r[f].value \in {"ok", "err"}
    BY <2>2 DEF Runs, Values
  <2>4. x \in DOMAIN t /\ x \in KidsOf(t, n) /\ x # f
    BY <1>4, <1>6, NextKid
  <2> QED
    BY <2>1, <2>3, <2>4
<1>7. r[n].uses \in Seq(DOMAIN t) /\ r[n].value \in Values
  BY <1>1 DEF Runs
<1> QED
  BY <1>2, <1>3, <1>4, <1>5, <1>6, <1>7 DEF RunCases

\* The run q of m uses leaves of m, each once, and all but perhaps the last have
\* results; it waits for the last.
Tidy(t, results, q, m) ==
  /\ \A i \in 1..Len(q.uses) : q.uses[i] \in SubtreeOf(t, m) /\ t[q.uses[i]].kind \in Effects
  /\ \A i, j \in 1..Len(q.uses) : q.uses[i] = q.uses[j] => i = j
  /\ \A i \in 1..Len(q.uses) : i < Len(q.uses) \/ q.value # "pending" => results[q.uses[i]] # "pending"
  /\ q.value = "pending" => Len(q.uses) > 0 /\ results[q.uses[Len(q.uses)]] = "pending"

\* Two runs one after the other, of kids that share nothing.
LEMMA TidyJoined ==
  ASSUME NEW t, NEW results, NEW n, NEW f, NEW x, NEW a \in Seq(DOMAIN t), NEW b \in Seq(DOMAIN t),
         NEW v, NEW w, v # "pending",
         Tidy(t, results, [uses |-> a, value |-> v], f), Tidy(t, results, [uses |-> b, value |-> w], x),
         SubtreeOf(t, f) \subseteq SubtreeOf(t, n), SubtreeOf(t, x) \subseteq SubtreeOf(t, n),
         SubtreeOf(t, f) \cap SubtreeOf(t, x) = {}
  PROVE  Tidy(t, results, [uses |-> a \o b, value |-> w], n)
<1> DEFINE c == a \o b
<1>1. /\ \A i \in 1..Len(a) : a[i] \in SubtreeOf(t, f) /\ t[a[i]].kind \in Effects /\ results[a[i]] # "pending"
      /\ \A i, j \in 1..Len(a) : a[i] = a[j] => i = j
  BY DEF Tidy
<1>2. /\ \A i \in 1..Len(b) : b[i] \in SubtreeOf(t, x) /\ t[b[i]].kind \in Effects
      /\ \A i, j \in 1..Len(b) : b[i] = b[j] => i = j
      /\ \A i \in 1..Len(b) : i < Len(b) \/ w # "pending" => results[b[i]] # "pending"
      /\ w = "pending" => Len(b) > 0 /\ results[b[Len(b)]] = "pending"
  BY DEF Tidy
<1>3. \A i \in 1..Len(a), j \in 1..Len(b) : a[i] # b[j]
  BY <1>1, <1>2
<1>4. Len(a) \in Nat /\ Len(b) \in Nat
  OBVIOUS
<1>5. /\ Len(c) = Len(a) + Len(b)
      /\ \A i \in 1..Len(a) + Len(b) : c[i] = IF i <= Len(a) THEN a[i] ELSE b[i - Len(a)]
  BY ConcatProperties
<1> HIDE DEF c
<1>6. \A i \in 1..Len(c) :
        /\ i <= Len(a) => i \in 1..Len(a) /\ c[i] = a[i]
        /\ i > Len(a) => i - Len(a) \in 1..Len(b) /\ c[i] = b[i - Len(a)]
  BY <1>4, <1>5
<1>7. \A i \in 1..Len(c) : c[i] \in SubtreeOf(t, n) /\ t[c[i]].kind \in Effects
  BY <1>1, <1>2, <1>4, <1>5, <1>6
<1>8. ASSUME NEW i \in 1..Len(c), NEW j \in 1..Len(c), c[i] = c[j]
      PROVE  i = j
  <2>1. CASE i <= Len(a) /\ j <= Len(a)
    BY <2>1, <1>8, <1>1, <1>6
  <2>2. CASE i > Len(a) /\ j > Len(a)
    <3>0. /\ i - Len(a) \in 1..Len(b) /\ j - Len(a) \in 1..Len(b)
          /\ b[i - Len(a)] = b[j - Len(a)]
      BY <2>2, <1>8, <1>6
    <3>1. i - Len(a) = j - Len(a)
      BY <3>0, <1>2
    <3> QED
      BY <3>1, <1>4, <1>5
  <2>3. CASE i <= Len(a) /\ j > Len(a)
    BY <2>3, <1>8, <1>3, <1>6
  <2>4. CASE i > Len(a) /\ j <= Len(a)
    BY <2>4, <1>8, <1>3, <1>6
  <2> QED
    BY <2>1, <2>2, <2>3, <2>4, <1>4, <1>5
<1>9. \A i \in 1..Len(c) : i < Len(c) \/ w # "pending" => results[c[i]] # "pending"
  BY <1>1, <1>2, <1>4, <1>5, <1>6
<1>10. ASSUME w = "pending"
       PROVE  Len(c) > 0 /\ results[c[Len(c)]] = "pending"
  <2>1. Len(b) > 0 /\ results[b[Len(b)]] = "pending"
    BY <1>2, <1>10
  <2>2. Len(c) \in 1..Len(c) /\ Len(c) > Len(a) /\ Len(c) - Len(a) = Len(b)
    BY <2>1, <1>4, <1>5
  <2> QED
    BY <2>1, <2>2, <1>6
<1> QED
  BY <1>7, <1>8, <1>9, <1>10 DEF Tidy, c

\* Programs are tidy.
LEMMA ProgramTidy ==
  ASSUME NEW t, Proper(t), NEW results \in [DOMAIN t -> Values],
         NEW r, r = ProgramOf(t, results), NEW m \in DOMAIN t
  PROVE  Tidy(t, results, r[m], m)
<1> DEFINE S == {n \in DOMAIN t : Tidy(t, results, r[n], n)}
<1>1. ASSUME NEW n \in DOMAIN t, KidsOf(t, n) \subseteq S
      PROVE  n \in S
  <2> DEFINE f == t[n].first
  <2> DEFINE x == NextOf(t, n, r[f].value)
  <2>0. RunCases(t, results, r, n, f, x)
    BY RunOf
  <2> HIDE DEF f, x
  <2>1. CASE t[n].kind \in Effects
    <3> DEFINE u == <<n>>
    <3>1. r[n] = [uses |-> u, value |-> results[n]]
      BY <2>1, <2>0 DEF RunCases
    <3>2. n \in SubtreeOf(t, n)
      BY SubtreeFacts
    <3>3. Len(u) = 1 /\ u[Len(u)] = n /\ \A i \in 1..Len(u) : i = 1 /\ u[i] = n
      OBVIOUS
    <3> DEFINE q == r[n]
    <3>4. q.uses = u /\ q.value = results[n]
      BY <3>1
    <3> HIDE DEF u, q
    <3>5. /\ Len(q.uses) = 1 /\ q.uses[Len(q.uses)] = n
          /\ \A i \in 1..Len(q.uses) : i = 1 /\ q.uses[i] = n
      BY <3>3, <3>4, Zenon
    <3>7. Tidy(t, results, q, n)
      BY <2>1, <3>2, <3>4, <3>5 DEF Tidy
    <3> QED
      BY <3>7 DEF q
  <2>2. CASE t[n].kind = "ready"
    <3> DEFINE u == <<>>
    <3>1. r[n] = [uses |-> u, value |-> t[n].value] /\ t[n].value \in {"ok", "err"}
      BY <2>2, <2>0 DEF RunCases
    <3>2. Len(u) = 0
      OBVIOUS
    <3> HIDE DEF u
    <3> QED
      BY <3>1, <3>2 DEF Tidy
  <2>3. CASE t[n].kind \notin Effects \cup {"ready"}
    <3>1. f \in DOMAIN t /\ f \in KidsOf(t, n)
      BY <2>3, <2>0 DEF RunCases
    <3>2. \A k \in KidsOf(t, n) : SubtreeOf(t, k) \subseteq SubtreeOf(t, n)
      BY SubtreeForm
    <3>3. Tidy(t, results, r[f], f)
      BY <1>1, <3>1
    <3>4. CASE Ends(t, n, r[f].value)
      <4>1. r[n] = r[f]
        BY <2>3, <3>4, <2>0 DEF RunCases
      <4>2. Tidy(t, results, r[n], n)
        BY <4>1, <3>1, <3>2, <3>3 DEF Tidy
      <4> QED
        BY <4>2
    <3>5. CASE ~Ends(t, n, r[f].value)
      <4>1. /\ x \in DOMAIN t /\ x \in KidsOf(t, n) /\ x # f
            /\ r[f].value # "pending"
            /\ r[n] = [uses |-> r[f].uses \o r[x].uses, value |-> r[x].value]
        BY <2>3, <3>5, <2>0 DEF RunCases
      <4>2. Tidy(t, results, r[x], x)
        BY <1>1, <4>1
      <4>3. /\ r[f] = [uses |-> r[f].uses, value |-> r[f].value] /\ r[f].uses \in Seq(DOMAIN t)
            /\ r[x] = [uses |-> r[x].uses, value |-> r[x].value] /\ r[x].uses \in Seq(DOMAIN t)
        BY <3>1, <4>1, ProgramForm DEF Runs
      <4>4. SubtreeOf(t, f) \cap SubtreeOf(t, x) = {}
        BY <3>1, <4>1, SubtreesApart
      <4> DEFINE a == r[f].uses
      <4> DEFINE b == r[x].uses
      <4> DEFINE v == r[f].value
      <4> DEFINE w == r[x].value
      <4>5. /\ a \in Seq(DOMAIN t) /\ b \in Seq(DOMAIN t) /\ v # "pending"
            /\ r[n] = [uses |-> a \o b, value |-> w]
            /\ SubtreeOf(t, f) \subseteq SubtreeOf(t, n) /\ SubtreeOf(t, x) \subseteq SubtreeOf(t, n)
        BY <3>1, <3>2, <4>1, <4>3
      <4>6. Tidy(t, results, [uses |-> a, value |-> v], f) /\ Tidy(t, results, [uses |-> b, value |-> w], x)
        BY <3>3, <4>2, <4>3
      <4> HIDE DEF a, b, v, w
      <4>7. Tidy(t, results, [uses |-> a \o b, value |-> w], n)
        BY <4>4, <4>5, <4>6, TidyJoined
      <4> QED
        BY <4>5, <4>7
    <3> QED
      BY <3>4, <3>5
  <2> QED
    BY <2>1, <2>2, <2>3
<1> HIDE DEF S
<1>2. m \in S
  BY <1>1, KidInduction
<1> QED
  BY <1>2 DEF S

\* a comes first in b.
Begins(a, b) == Len(a) <= Len(b) /\ \A i \in 1..Len(a) : a[i] = b[i]

\* What comes first in a sequence comes first in a longer one.
LEMMA BeginsJoined ==
  ASSUME NEW S, NEW a \in Seq(S), NEW b \in Seq(S), NEW c \in Seq(S)
  PROVE  /\ Begins(a, a)
         /\ Begins(a, b) => Begins(a, b \o c)
         /\ Begins(b, c) => Begins(a \o b, a \o c)
<1>0. Len(a) \in Nat /\ Len(b) \in Nat /\ Len(c) \in Nat
  OBVIOUS
<1>1. Begins(a, a)
  BY <1>0 DEF Begins
<1>2. ASSUME Begins(a, b)
      PROVE  Begins(a, b \o c)
  <2> DEFINE d == b \o c
  <2>1. /\ Len(d) = Len(b) + Len(c)
        /\ \A i \in 1..Len(b) + Len(c) : d[i] = IF i <= Len(b) THEN b[i] ELSE c[i - Len(b)]
    BY ConcatProperties
  <2> HIDE DEF d
  <2>2. Begins(a, d)
    BY <1>0, <1>2, <2>1 DEF Begins
  <2> QED
    BY <2>2 DEF d
<1>3. ASSUME Begins(b, c)
      PROVE  Begins(a \o b, a \o c)
  <2> DEFINE d == a \o b
  <2> DEFINE e == a \o c
  <2>1. /\ Len(d) = Len(a) + Len(b)
        /\ \A i \in 1..Len(a) + Len(b) : d[i] = IF i <= Len(a) THEN a[i] ELSE b[i - Len(a)]
    BY ConcatProperties
  <2>2. /\ Len(e) = Len(a) + Len(c)
        /\ \A i \in 1..Len(a) + Len(c) : e[i] = IF i <= Len(a) THEN a[i] ELSE c[i - Len(a)]
    BY ConcatProperties
  <2> HIDE DEF d, e
  <2>3. ASSUME NEW i \in 1..Len(d)
        PROVE  d[i] = e[i]
    <3>1. CASE i <= Len(a)
      BY <3>1, <1>0, <1>3, <2>1, <2>2 DEF Begins
    <3>2. CASE i > Len(a)
      <4>1. i - Len(a) \in 1..Len(b)
        BY <3>2, <1>0, <2>1
      <4>2. b[i - Len(a)] = c[i - Len(a)]
        BY <4>1, <1>3 DEF Begins
      <4> QED
        BY <3>2, <4>2, <1>0, <1>3, <2>1, <2>2 DEF Begins
    <3> QED
      BY <3>1, <3>2, <1>0, <2>1
  <2>4. Begins(d, e)
    BY <1>0, <1>3, <2>1, <2>2, <2>3 DEF Begins
  <2> QED
    BY <2>4 DEF d, e
<1> QED
  BY <1>1, <1>2, <1>3

\* Further results only make the programs go on.
LEMMA ProgramGrows ==
  ASSUME NEW t, Proper(t),
         NEW results \in [DOMAIN t -> Values], NEW results2 \in [DOMAIN t -> Values],
         \A n \in DOMAIN t : results[n] # "pending" => results2[n] = results[n],
         NEW r, r = ProgramOf(t, results), NEW r2, r2 = ProgramOf(t, results2),
         NEW m \in DOMAIN t
  PROVE  /\ Begins(r[m].uses, r2[m].uses)
         /\ r[m].value # "pending" => r2[m] = r[m]
<1> DEFINE Grown(n) == Begins(r[n].uses, r2[n].uses) /\ (r[n].value # "pending" => r2[n] = r[n])
<1> DEFINE S == {n \in DOMAIN t : Grown(n)}
<1>0. \A n \in DOMAIN t : r[n].uses \in Seq(DOMAIN t) /\ r2[n].uses \in Seq(DOMAIN t)
  BY ProgramForm DEF Runs
<1>1. ASSUME NEW n \in DOMAIN t, KidsOf(t, n) \subseteq S
      PROVE  n \in S
  <2> DEFINE f == t[n].first
  <2> DEFINE x == NextOf(t, n, r[f].value)
  <2> DEFINE y == NextOf(t, n, r2[f].value)
  <2>0. RunCases(t, results, r, n, f, x) /\ RunCases(t, results2, r2, n, f, y)
    BY RunOf
  <2>x. r2[f].value = r[f].value => y = x
    OBVIOUS
  <2> HIDE DEF f, x, y
  <2>1. CASE t[n].kind \in Effects
    <3>1. /\ r[n] = [uses |-> <<n>>, value |-> results[n]]
          /\ r2[n] = [uses |-> <<n>>, value |-> results2[n]]
      BY <2>1, <2>0 DEF RunCases
    <3>2. r[n].uses = r2[n].uses /\ (r[n].value # "pending" => r2[n] = r[n])
      BY <3>1
    <3> QED
      BY <1>0, <3>2, BeginsJoined
  <2>2. CASE t[n].kind = "ready"
    <3>1. r[n] = r2[n]
      BY <2>2, <2>0 DEF RunCases
    <3> QED
      BY <1>0, <3>1, BeginsJoined
  <2>3. CASE t[n].kind \notin Effects \cup {"ready"}
    <3>1. f \in DOMAIN t /\ f \in KidsOf(t, n) /\ Grown(f)
      BY <2>3, <2>0, <1>1 DEF RunCases
    <3>2. CASE Ends(t, n, r2[f].value)
      <4>1. r2[n] = r2[f]
        BY <2>3, <3>2, <2>0 DEF RunCases
      <4>2. Ends(t, n, r[f].value)
        BY <3>1, <3>2 DEF Ends
      <4>3. r[n] = r[f]
        BY <2>3, <4>2, <2>0 DEF RunCases
      <4> QED
        BY <3>1, <4>1, <4>3
    <3>3. CASE ~Ends(t, n, r2[f].value) /\ Ends(t, n, r[f].value)
      <4>1. r2[f] # r[f]
        BY <3>3
      <4>2. r[f].value = "pending" /\ r[n] = r[f]
        BY <2>3, <3>1, <3>3, <4>1, <2>0 DEF RunCases
      <4>a. y \in DOMAIN t /\ r2[n] = [uses |-> r2[f].uses \o r2[y].uses, value |-> r2[y].value]
        BY <2>3, <3>3, <2>0 DEF RunCases
      <4> DEFINE c == r2[f].uses \o r2[y].uses
      <4>b. r2[n] = [uses |-> c, value |-> r2[y].value]
        BY <4>a
      <4> HIDE DEF c
      <4>c. r2[n].uses = c
        BY <4>b
      <4>3. y \in DOMAIN t /\ r2[n].uses = r2[f].uses \o r2[y].uses
        BY <4>a, <4>c DEF c
      <4>4. Begins(r[f].uses, r2[f].uses \o r2[y].uses)
        BY <3>1, <4>3, <1>0, BeginsJoined
      <4> QED
        BY <4>2, <4>3, <4>4
    <3>4. CASE ~Ends(t, n, r2[f].value) /\ ~Ends(t, n, r[f].value)
      <4>1. r[f].value # "pending" /\ r2[f] = r[f]
        BY <3>1, <3>4 DEF Ends
      <4>2. y = x
        BY <4>1, <2>x
      <4>3. /\ x \in DOMAIN t /\ x \in KidsOf(t, n)
            /\ r[n] = [uses |-> r[f].uses \o r[x].uses, value |-> r[x].value]
            /\ r2[n] = [uses |-> r[f].uses \o r2[x].uses, value |-> r2[x].value]
        BY <2>3, <3>4, <4>1, <4>2, <2>0 DEF RunCases
      <4>4. Grown(x)
        BY <4>3, <1>1
      <4>5. Begins(r[f].uses \o r[x].uses, r[f].uses \o r2[x].uses)
        BY <3>1, <4>3, <4>4, <1>0, BeginsJoined
      <4>6. Begins(r[n].uses, r2[n].uses)
        BY <4>3, <4>5
      <4>7. r[n].value # "pending" => r2[n] = r[n]
        <5>1. r[x].value # "pending" => r2[x] = r[x]
          BY <4>4
        <5> DEFINE c == r[f].uses
        <5>2. /\ r[n] = [uses |-> c \o r[x].uses, value |-> r[x].value]
              /\ r2[n] = [uses |-> c \o r2[x].uses, value |-> r2[x].value]
          BY <4>3
        <5>3. r[n].value = r[x].value
          BY <5>2
        <5> HIDE DEF c
        <5> QED
          BY <5>1, <5>2, <5>3
      <4> QED
        BY <4>6, <4>7
    <3> QED
      BY <3>2, <3>3, <3>4
  <2> QED
    BY <2>1, <2>2, <2>3
<1> HIDE DEF S
<1>2. m \in S
  BY <1>1, KidInduction
<1> QED
  BY <1>2 DEF S

\* The second operations are those the results of the first ask for.
Chosen(t, sec, r) ==
  \A p \in DOMAIN t : sec[p] # None =>
    /\ ~Ends(t, p, r[t[p].first].value)
    /\ sec[p] = NextOf(t, p, r[t[p].first].value)

\* What waits for u at its end.
WaitsFor(q, u) == q.value = "pending" /\ Len(q.uses) > 0 /\ q.uses[Len(q.uses)] = u

\* A leaf waits for itself.
LEMMA LeafWaits ==
  ASSUME NEW t, Proper(t), NEW results \in [DOMAIN t -> Values],
         NEW r, r = ProgramOf(t, results),
         NEW e \in DOMAIN t, t[e].kind \in Effects, results[e] = "pending"
  PROVE  WaitsFor(r[e], e)
<1> DEFINE u == <<e>>
<1>1. RunCases(t, results, r, e, t[e].first, NextOf(t, e, r[t[e].first].value))
  BY RunOf
<1>2. r[e] = [uses |-> u, value |-> results[e]]
  BY <1>1 DEF RunCases
<1>3. Len(u) = 1 /\ u[Len(u)] = e
  OBVIOUS
<1> HIDE DEF u
<1> DEFINE q == r[e]
<1>4. q.uses = u /\ q.value = "pending"
  BY <1>2
<1> HIDE DEF q
<1>5. WaitsFor(q, e)
  <2>1. Len(q.uses) = 1 /\ q.uses[Len(q.uses)] = e
    BY <1>3, <1>4, Zenon
  <2>2. 1 > 0
    OBVIOUS
  <2> QED
    BY <2>1, <2>2, <1>4, Zenon DEF WaitsFor
<1> QED
  BY <1>5 DEF q

\* The last of two sequences.
LEMMA LastJoined ==
  ASSUME NEW S, NEW a \in Seq(S), NEW b \in Seq(S), Len(b) > 0
  PROVE  Len(a \o b) > 0 /\ (a \o b)[Len(a \o b)] = b[Len(b)]
<1> DEFINE c == a \o b
<1>1. Len(a) \in Nat /\ Len(b) \in Nat
  OBVIOUS
<1>2. /\ Len(c) = Len(a) + Len(b)
      /\ \A i \in 1..Len(a) + Len(b) : c[i] = IF i <= Len(a) THEN a[i] ELSE b[i - Len(a)]
  BY ConcatProperties
<1> HIDE DEF c
<1>3. Len(c) > 0 /\ c[Len(c)] = b[Len(b)]
  BY <1>1, <1>2
<1> QED
  BY <1>3 DEF c

\* What a node that is held waits for, the root waits for.
LEMMA Frontier ==
  ASSUME NEW t, Proper(t), NEW results \in [DOMAIN t -> Values],
         NEW r, r = ProgramOf(t, results),
         NEW st, NEW sec, Built(t, st, sec), Chain(t, st, sec), Chosen(t, sec, r),
         NEW x \in DOMAIN t, st[x] \in Held, NEW u, WaitsFor(r[x], u)
  PROVE  WaitsFor(r[1], u)
<1> DEFINE S == {n \in DOMAIN t : st[n] \in Held /\ WaitsFor(r[n], u) => WaitsFor(r[1], u)}
<1>1. ASSUME NEW n \in DOMAIN t, n # 1, ParentOf(t, n) \in S
      PROVE  n \in S
  <2> DEFINE p == ParentOf(t, n)
  <2> DEFINE f == t[p].first
  <2> DEFINE y == NextOf(t, p, r[f].value)
  <2> SUFFICES ASSUME st[n] \in Held, WaitsFor(r[n], u)
               PROVE  WaitsFor(r[p], u)
    <3>1. st[n] \in Held => st[p] \in Held
      BY <1>1 DEF Chain
    <3> QED
      BY <1>1, <3>1
  <2>1. p \in DOMAIN t /\ n \in KidsOf(t, p)
    BY <1>1, ParentBefore
  <2>2. n = TargetOf(t, sec, p)
    BY <1>1 DEF Chain
  <2>3. RunCases(t, results, r, p, f, y)
    BY <2>1, RunOf
  <2>4. t[p].kind \notin Effects \cup {"ready"}
    BY <2>1, NodeParts DEF Effects
  <2>5. sec[p] # None => ~Ends(t, p, r[f].value) /\ sec[p] = y
    BY <2>1 DEF Chosen
  <2> HIDE DEF p, f, y
  <2>6. CASE sec[p] = None
    <3>1. n = t[p].first
      BY <2>2, <2>6 DEF TargetOf
    <3>2. n = f
      BY <3>1 DEF f
    <3>3. Ends(t, p, r[f].value)
      BY <3>2 DEF Ends, WaitsFor
    <3>4. r[p] = r[f]
      BY <2>3, <2>4, <3>3 DEF RunCases
    <3> QED
      BY <3>2, <3>4
  <2>7. CASE sec[p] # None
    <3>1. n = y /\ ~Ends(t, p, r[f].value)
      BY <2>2, <2>5, <2>7 DEF TargetOf
    <3>2. f \in DOMAIN t /\ r[p] = [uses |-> r[f].uses \o r[y].uses, value |-> r[y].value]
      BY <2>3, <2>4, <3>1 DEF RunCases
    <3> DEFINE a == r[f].uses
    <3> DEFINE b == r[y].uses
    <3> DEFINE c == a \o b
    <3>3. r[p] = [uses |-> c, value |-> r[y].value]
      BY <3>2
    <3>4. a \in Seq(DOMAIN t) /\ b \in Seq(DOMAIN t)
      BY <3>1, <3>2, ProgramForm DEF Runs
    <3>7. r[y].value = "pending" /\ Len(b) > 0 /\ b[Len(b)] = u
      BY <3>1 DEF WaitsFor
    <3>8. r[p].uses = c /\ r[p].value = r[y].value
      <4> HIDE DEF c
      <4> QED
        BY <3>3
    <3> HIDE DEF a, b
    <3>9. Len(c) > 0 /\ c[Len(c)] = u
      BY <3>4, <3>7, LastJoined
    <3> HIDE DEF c
    <3> QED
      BY <3>7, <3>8, <3>9 DEF WaitsFor
  <2> QED
    BY <2>6, <2>7
<1>2. 1 \in S
  BY TreeNodes
<1> HIDE DEF S
<1>3. x \in S
  BY <1>1, <1>2, ParentInduction
<1> QED
  BY <1>3 DEF S

\* The results there are in us, and what the programs make of them.
ResultsOf(t, us) == [n \in DOMAIN t |-> IF us[n] \in {"ok", "err"} THEN us[n] ELSE "pending"]
Answers(t, us) == ProgramOf(t, ResultsOf(t, us))

Marks == {"none", "submitted", "ok", "err", "canceled"}

\* What was submitted is what is in the order.
Used(t, us, ord) ==
  /\ ord \in Seq(DOMAIN t)
  /\ \A n \in DOMAIN t : us[n] # "none" <=> \E i \in 1..Len(ord) : ord[i] = n

\* The results are results.
LEMMA ResultsType ==
  ASSUME NEW t, NEW us \in [DOMAIN t -> Marks]
  PROVE  /\ ResultsOf(t, us) \in [DOMAIN t -> Values]
         /\ \A n \in DOMAIN t : ResultsOf(t, us)[n] # "pending" <=> us[n] \in {"ok", "err"}
         /\ \A n \in DOMAIN t : us[n] \in {"ok", "err"} => ResultsOf(t, us)[n] = us[n]
BY DEF ResultsOf, Values, Marks

\* An order that begins the program is all of it, or all but the last, which is
\* what the program waits for.
LEMMA OrderEnds ==
  ASSUME NEW t, Proper(t), NEW us \in [DOMAIN t -> Marks], NEW ord, Used(t, us, ord),
         NEW q, q = Answers(t, us)[1], Begins(ord, q.uses)
  PROVE  \/ ord = q.uses
         \/ /\ Len(q.uses) = Len(ord) + 1 /\ q.value = "pending"
            /\ us[q.uses[Len(q.uses)]] = "none"
<1> DEFINE rs == ResultsOf(t, us)
<1> DEFINE u == q.uses
<1>0. 1 \in DOMAIN t
  BY TreeNodes
<1>1. rs \in [DOMAIN t -> Values] /\ \A n \in DOMAIN t : rs[n] # "pending" => us[n] # "none"
  BY ResultsType
<1>2. Tidy(t, rs, q, 1) /\ q \in Runs(t)
  BY <1>0, <1>1, ProgramTidy, ProgramForm DEF Answers
<1>3. /\ u \in Seq(DOMAIN t)
      /\ \A i, j \in 1..Len(u) : u[i] = u[j] => i = j
      /\ \A i \in 1..Len(u) : i < Len(u) \/ q.value # "pending" => rs[u[i]] # "pending"
  BY <1>2 DEF Tidy, Runs
<1>4. ord \in Seq(DOMAIN t) /\ Len(ord) <= Len(u) /\ \A i \in 1..Len(ord) : ord[i] = u[i]
  BY DEF Used, Begins
<1>5. Len(u) \in Nat /\ Len(ord) \in Nat /\ \A i \in 1..Len(u) : u[i] \in DOMAIN t
  BY <1>3, <1>4
<1> HIDE DEF u, rs
<1>6. ASSUME NEW i \in 1..Len(u), i > Len(ord)
      PROVE  us[u[i]] = "none"
  <2> SUFFICES ASSUME us[u[i]] # "none"
               PROVE  FALSE
    OBVIOUS
  <2>1. PICK j \in 1..Len(ord) : ord[j] = u[i]
    BY <1>5 DEF Used
  <2>2. j \in 1..Len(u) /\ u[j] = u[i]
    BY <2>1, <1>4, <1>5
  <2>3. j = i
    BY <2>2, <1>3
  <2> QED
    BY <2>3, <1>6, <1>5
<1>7. \A i \in 1..Len(u) : i > Len(ord) => i = Len(u) /\ q.value = "pending"
  <2> SUFFICES ASSUME NEW i \in 1..Len(u), i > Len(ord), ~(i = Len(u) /\ q.value = "pending")
               PROVE  FALSE
    OBVIOUS
  <2>1. i < Len(u) \/ q.value # "pending"
    BY <1>5
  <2>2. us[u[i]] # "none"
    BY <2>1, <1>1, <1>3, <1>5
  <2> QED
    BY <2>2, <1>6
<1>8. CASE Len(u) = Len(ord)
  <2>1. ord = u
    BY <1>3, <1>4, <1>8, SeqEqual
  <2> QED
    BY <2>1 DEF u
<1>9. CASE Len(u) # Len(ord)
  <2>1. Len(u) \in 1..Len(u) /\ Len(u) > Len(ord) /\ Len(ord) + 1 \in 1..Len(u)
    BY <1>4, <1>5, <1>9
  <2>2. Len(u) = Len(ord) + 1 /\ q.value = "pending"
    BY <2>1, <1>5, <1>7
  <2>3. us[u[Len(u)]] = "none"
    BY <2>1, <1>6
  <2> QED
    BY <2>2, <2>3 DEF u
<1> QED
  BY <1>8, <1>9

\* What the program waits for is submitted.
LEMMA Submitting ==
  ASSUME NEW t, Proper(t), NEW us \in [DOMAIN t -> Marks], NEW ord, Used(t, us, ord),
         NEW q, q = Answers(t, us)[1], Begins(ord, q.uses),
         NEW e \in DOMAIN t, us[e] = "none", WaitsFor(q, e),
         NEW us2, us2 = Put(us, {e}, "submitted"), NEW ord2, ord2 = Append(ord, e)
  PROVE  Used(t, us2, ord2) /\ Begins(ord2, q.uses)
<1>0. ord \in Seq(DOMAIN t) /\ Len(ord) \in Nat
  BY DEF Used
<1>1. /\ ord2 \in Seq(DOMAIN t) /\ Len(ord2) = Len(ord) + 1
      /\ \A i \in 1..Len(ord) : ord2[i] = ord[i]
      /\ ord2[Len(ord) + 1] = e
  BY <1>0, AppendProperties
<1>2. \A n \in DOMAIN t : us2[n] # "none" <=> us[n] # "none" \/ n = e
  BY DEF Put
<1>3. Used(t, us2, ord2)
  <2> SUFFICES ASSUME NEW n \in DOMAIN t
               PROVE  us2[n] # "none" <=> \E i \in 1..Len(ord2) : ord2[i] = n
    BY <1>1 DEF Used
  <2>1. us[n] # "none" <=> \E i \in 1..Len(ord) : ord[i] = n
    BY DEF Used
  <2>2. CASE n = e
    <3>1. Len(ord) + 1 \in 1..Len(ord2)
      BY <1>0, <1>1
    <3> QED
      BY <2>2, <3>1, <1>1, <1>2
  <2>3. CASE n # e
    <3>1. (\E i \in 1..Len(ord) : ord[i] = n) => \E i \in 1..Len(ord2) : ord2[i] = n
      BY <1>0, <1>1
    <3>2. (\E i \in 1..Len(ord2) : ord2[i] = n) => \E i \in 1..Len(ord) : ord[i] = n
      <4> SUFFICES ASSUME NEW i \in 1..Len(ord2), ord2[i] = n
                   PROVE  i \in 1..Len(ord) /\ ord[i] = n
        OBVIOUS
      <4>1. i # Len(ord) + 1
        BY <2>3, <1>1
      <4> QED
        BY <4>1, <1>0, <1>1
    <3> QED
      BY <2>1, <2>3, <3>1, <3>2, <1>2
  <2> QED
    BY <2>2, <2>3
<1>4. ~(ord = q.uses)
  <2> SUFFICES ASSUME ord = q.uses
               PROVE  FALSE
    OBVIOUS
  <2>1. Len(ord) \in 1..Len(ord) /\ ord[Len(ord)] = e
    BY <1>0 DEF WaitsFor
  <2> QED
    BY <2>1 DEF Used
<1>5. Len(q.uses) = Len(ord) + 1
  BY <1>4, OrderEnds
<1>6. Begins(ord2, q.uses)
  <2> DEFINE u == q.uses
  <2>1. Len(u) = Len(ord) + 1 /\ u[Len(u)] = e /\ \A i \in 1..Len(ord) : ord[i] = u[i]
    BY <1>5 DEF Begins, WaitsFor
  <2> HIDE DEF u
  <2>2. Begins(ord2, u)
    BY <1>0, <1>1, <2>1 DEF Begins
  <2> QED
    BY <2>2 DEF u
<1> QED
  BY <1>3, <1>6

\* How a leaf may end.
Outcomes == {"ok", "err"}

\* The order of us is one of us2, whose programs go on with those of us.
WentOn(t, us, us2, ord) ==
  /\ us2 \in [DOMAIN t -> Marks] /\ Used(t, us2, ord)
  /\ Begins(ord, Answers(t, us2)[1].uses)
  /\ \A k \in DOMAIN t : Answers(t, us)[k].value # "pending" => Answers(t, us2)[k] = Answers(t, us)[k]

\* A submitted leaf ends.
LEMMA Completing ==
  ASSUME NEW t, Proper(t), NEW us \in [DOMAIN t -> Marks], NEW ord, Used(t, us, ord),
         Begins(ord, Answers(t, us)[1].uses),
         NEW n \in DOMAIN t, us[n] = "submitted", NEW v \in Outcomes,
         NEW us2, us2 = Put(us, {n}, v)
  PROVE  WentOn(t, us, us2, ord)
<1> DEFINE rs == ResultsOf(t, us)
<1> DEFINE rs2 == ResultsOf(t, us2)
<1>1. /\ us2 \in [DOMAIN t -> Marks]
      /\ \A k \in DOMAIN t : k # n => us2[k] = us[k]
      /\ us2[n] # "none"
  BY DEF Put, Marks, Outcomes
<1>2. Used(t, us2, ord)
  BY <1>1 DEF Used
<1>3. rs \in [DOMAIN t -> Values] /\ rs2 \in [DOMAIN t -> Values]
  BY <1>1, ResultsType
<1>4. \A k \in DOMAIN t : rs[k] # "pending" => rs2[k] = rs[k]
  <2> SUFFICES ASSUME NEW k \in DOMAIN t, rs[k] # "pending"
               PROVE  rs2[k] = rs[k]
    OBVIOUS
  <2>1. us[k] \in {"ok", "err"} /\ rs[k] = us[k]
    BY ResultsType
  <2>2. us2[k] = us[k]
    BY <1>1, <2>1
  <2>3. rs2[k] = us2[k]
    BY <1>1, <2>1, <2>2, ResultsType
  <2> QED
    BY <2>1, <2>2, <2>3
<1> DEFINE r == Answers(t, us)
<1> DEFINE r2 == Answers(t, us2)
<1>5. r = ProgramOf(t, rs) /\ r2 = ProgramOf(t, rs2)
  BY DEF Answers
<1> HIDE DEF rs, rs2, r, r2
<1>6. \A k \in DOMAIN t : Begins(r[k].uses, r2[k].uses) /\ (r[k].value # "pending" => r2[k] = r[k])
  BY <1>3, <1>4, <1>5, ProgramGrows
<1>7. 1 \in DOMAIN t /\ r[1].uses \in Seq(DOMAIN t) /\ r2[1].uses \in Seq(DOMAIN t) /\ ord \in Seq(DOMAIN t)
  <2>1. r \in [DOMAIN t -> Runs(t)] /\ r2 \in [DOMAIN t -> Runs(t)]
    BY <1>3, <1>5, ProgramForm
  <2>2. 1 \in DOMAIN t
    BY TreeNodes
  <2> QED
    BY <2>1, <2>2 DEF Runs, Used
<1> DEFINE a == r[1].uses
<1> DEFINE b == r2[1].uses
<1>8. Begins(ord, a) /\ Begins(a, b) /\ Len(ord) \in Nat /\ Len(a) \in Nat /\ Len(b) \in Nat
  BY <1>6, <1>7 DEF r
<1> HIDE DEF a, b
<1>9. Begins(ord, b)
  BY <1>8 DEF Begins
<1> QED
  BY <1>1, <1>2, <1>6, <1>9 DEF WentOn, r, r2, b

\* No element, or one, in sequence.
LEMMA SetToSeqOfOne ==
  /\ SetToSeq({}) = <<>>
  /\ \A e : SetToSeq({e}) = <<e>>
<1>1. SetToSeq({}) = <<>>
  <2>1. Cardinality({}) = 0
    BY FS_EmptySet
  <2>2. \A f : f \in [1..0 -> {}] <=> f = <<>>
    <3>1. <<>> \in [1..0 -> {}]
      OBVIOUS
    <3>2. ASSUME NEW f \in [1..0 -> {}]
          PROVE  f = <<>>
      <4>1. f \in Seq({}) /\ Len(f) = 0
        OBVIOUS
      <4> QED
        BY <4>1, EmptySeq
    <3> QED
      BY <3>1, <3>2
  <2>3. IsInjective(<<>>)
    BY DEF IsInjective
  <2> QED
    BY <2>1, <2>2, <2>3 DEF SetToSeq
<1>2. ASSUME NEW e
      PROVE  SetToSeq({e}) = <<e>>
  <2>1. Cardinality({e}) = 1
    BY FS_Singleton
  <2>2. \A f : f \in [1..1 -> {e}] <=> f = <<e>>
    OBVIOUS
  <2>3. IsInjective(<<e>>)
    BY DEF IsInjective
  <2> QED
    BY <2>1, <2>2, <2>3 DEF SetToSeq
<1> QED
  BY <1>1, <1>2

-----------------------------------------------------------------------------
(* The results and the order of the execution *)

\* What is returned is what the program returns, and what was released lets
\* its parent go on.
Returned(t, r, c, p) ==
  /\ p.do \in {"return", "released"} => r[p.at].value = p.value /\ p.value \in {"ok", "err"}
  /\ p.do = "released" => ~Ends(t, ParentOf(t, p.at), p.value)
  /\ c = "done" => r[1].value = p.value /\ p.value \in {"ok", "err"}

FlowInv ==
  /\ usb \in [Node -> Marks]
  /\ \A n \in Node : usb[n] # "none" => Kind(n) \in Effects /\ stage[n] # "none"
  /\ caller = "held" => \A n \in Node : Kind(n) = "blocking" => usb[n] = "none"
  /\ Used(tree, usb, order)
  /\ Begins(order, Answers(tree, usb)[1].uses)
  /\ Chosen(tree, second, Answers(tree, usb))
  /\ Returned(tree, Answers(tree, usb), caller, pc)

\* What is built with m has at most one leaf.
LEMMA SpineLeaf ==
  ASSUME NEW t, Proper(t), NEW m \in DOMAIN t
  PROVE  \A x, y \in SpineOf(t, m) : t[x].kind \in Effects /\ t[y].kind \in Effects => x = y
BY SpineEnd DEF Effects, Wrappers

\* An operation that was just built, with its transfer or without.
LEMMA FlowInit ==
  Init => FlowInv
<1> SUFFICES ASSUME Init
             PROVE  FlowInv
  OBVIOUS
<1>1. /\ Proper(tree) /\ 1 \in DOMAIN tree
      /\ Built(tree, stage, second) /\ Chain(tree, stage, second)
  BY ShapeInit, ShapeGives
<1> DEFINE S == Of("transfer", Spine(1))
<1> DEFINE idle == [n \in DOMAIN tree |-> "none"]
<1>2. /\ usb = [n \in DOMAIN tree |-> IF n \in S THEN "submitted" ELSE "none"]
      /\ order = SetToSeq(S)
      /\ stage = [n \in DOMAIN tree |-> IF n \in SpineOf(tree, 1) THEN "operation" ELSE "none"]
  BY OfTree DEF Init
<1>3. \A x \in S : x \in SpineOf(tree, 1) /\ tree[x].kind = "transfer" /\ x \in DOMAIN tree
  BY <1>1, OfTree, SpineFacts DEF Of
<1> HIDE DEF S
<1>4. \A x, y \in S : x = y
  BY <1>1, <1>3, SpineLeaf DEF Effects
<1>5. usb \in [DOMAIN tree -> Marks] /\ idle \in [DOMAIN tree -> Marks]
  BY <1>2 DEF Marks
<1>6. ResultsOf(tree, usb) = ResultsOf(tree, idle)
  BY <1>2 DEF ResultsOf
<1> DEFINE rs == ResultsOf(tree, idle)
<1> DEFINE r == Answers(tree, idle)
<1>7. rs \in [DOMAIN tree -> Values] /\ r = ProgramOf(tree, rs)
  BY <1>1, <1>5, ResultsType DEF Answers
<1>8. Answers(tree, usb) = r
  BY <1>6 DEF Answers
<1>9. \A x \in DOMAIN tree : rs[x] = "pending"
  BY DEF ResultsOf
<1>10. r[1].uses \in Seq(DOMAIN tree)
  BY <1>1, <1>7, ProgramForm DEF Runs
<1>11. Used(tree, idle, <<>>)
  BY DEF Used
<1>12. Chosen(tree, second, r)
  BY OfTree DEF Init, Chosen
<1> HIDE DEF r, rs, idle
<1>13. Begins(<<>>, r[1].uses)
  BY <1>10 DEF Begins
<1>14. Used(tree, usb, order) /\ Begins(order, r[1].uses)
  <2>1. CASE S = {}
    <3>1. usb = idle
      BY <1>2, <2>1 DEF idle
    <3>2. order = <<>>
      BY <1>2, <2>1, SetToSeqOfOne
    <3> QED
      BY <3>1, <3>2, <1>11, <1>13
  <2>2. ASSUME NEW e \in S
        PROVE  Used(tree, usb, order) /\ Begins(order, r[1].uses)
    <3>1. S = {e} /\ e \in DOMAIN tree /\ tree[e].kind \in Effects /\ stage[e] \in Held
      BY <1>2, <1>3, <1>4 DEF Effects, Held
    <3>2. order = Append(<<>>, e)
      <4>1. order = <<e>>
        BY <3>1, <1>2, SetToSeqOfOne
      <4>2. Append(<<>>, e) = <<e>>
        OBVIOUS
      <4> QED
        BY <4>1, <4>2
    <3>3. usb = Put(idle, {e}, "submitted") /\ idle[e] = "none"
      BY <3>1, <1>2 DEF Put, idle
    <3>4. WaitsFor(r[e], e)
      BY <3>1, <1>1, <1>7, <1>9, LeafWaits
    <3>5. WaitsFor(r[1], e)
      BY <3>1, <3>4, <1>1, <1>7, <1>9, <1>12, Frontier
    <3> DEFINE q == r[1]
    <3>6. WaitsFor(q, e) /\ Begins(<<>>, q.uses) /\ q = Answers(tree, idle)[1]
      BY <3>5, <1>13 DEF r
    <3> HIDE DEF q
    <3>7. Used(tree, usb, order) /\ Begins(order, q.uses)
      BY <3>1, <3>2, <3>3, <3>6, <1>1, <1>5, <1>11, Submitting
    <3> QED
      BY <3>7 DEF q
  <2> QED
    BY <2>1, <2>2
<1>15. Returned(tree, r, caller, pc)
  BY Calls DEF Init, Returned
<1>16. /\ \A n \in DOMAIN tree : usb[n] # "none" => tree[n].kind \in Effects /\ stage[n] # "none"
       /\ \A n \in DOMAIN tree : tree[n].kind = "blocking" => usb[n] = "none"
  BY <1>2, <1>3 DEF Effects
<1> QED
  BY <1>5, <1>8, <1>12, <1>14, <1>15, <1>16 DEF FlowInv, Node, Kind

\* A step that submits nothing and ends no leaf, and that builds or drops
\* what it likes.
LEMMA FlowSame ==
  ASSUME FlowInv, tree' = tree, usb' = usb, order' = order, second' = second,
         \A n \in DOMAIN tree : stage[n] # "none" => stage'[n] # "none",
         caller' = "held" => caller = "held",
         Returned(tree, Answers(tree, usb), caller', pc')
  PROVE  FlowInv'
BY DEF FlowInv, Node, Kind

\* The beginning of a call has no result yet.
LEMMA FlowCall ==
  ASSUME ShapeInv, FlowInv, tree' = tree, usb' = usb, order' = order, second' = second,
         \A n \in DOMAIN tree : stage[n] # "none" => stage'[n] # "none",
         caller' \notin {"held", "converted", "done"}, pc'.do \notin {"return", "released"}
  PROVE  FlowInv'
BY FlowSame DEF Returned

\* A step that submits at most one leaf, which is held then.
LEMMA FlowSubmit ==
  ASSUME ShapeInv, ShapeInv', FlowInv, tree' = tree, NEW S, Submit(S),
         \A x \in S : /\ x \in DOMAIN tree /\ tree[x].kind \in Effects
                      /\ usb[x] = "none" /\ stage'[x] \in Held,
         \A x, y \in S : x = y,
         \A x \in DOMAIN tree : stage[x] # "none" => stage'[x] # "none",
         Chosen(tree, second', Answers(tree, usb)),
         caller' # "held",
         Returned(tree, Answers(tree, usb), caller', pc')
  PROVE  FlowInv'
<1>1. /\ Proper(tree) /\ 1 \in DOMAIN tree
      /\ usb \in [DOMAIN tree -> Marks]
      /\ \A n \in DOMAIN tree : usb[n] # "none" => tree[n].kind \in Effects /\ stage[n] # "none"
      /\ Used(tree, usb, order)
      /\ Begins(order, Answers(tree, usb)[1].uses)
  BY ShapeGives DEF FlowInv, Node, Kind
<1>2. Built(tree, stage', second') /\ Chain(tree, stage', second')
  BY DEF ShapeInv
<1>3. usb' = Put(usb, S, "submitted") /\ order' = order \o SetToSeq(S)
  BY DEF Submit
<1>4. CASE S = {}
  <2>1. usb' = usb
    BY <1>1, <1>3, <1>4 DEF Put
  <2>2. order' = order
    <3>1. order \in Seq(DOMAIN tree)
      BY <1>1 DEF Used
    <3> QED
      BY <3>1, <1>3, <1>4, SetToSeqOfOne, ConcatEmptySeq
  <2> QED
    BY <2>1, <2>2, <1>1 DEF FlowInv, Node, Kind
<1>5. ASSUME NEW e \in S
      PROVE  FlowInv'
  <2>0. S = {e} /\ e \in DOMAIN tree /\ tree[e].kind \in Effects /\ usb[e] = "none" /\ stage'[e] \in Held
    OBVIOUS
  <2>1. usb' = Put(usb, {e}, "submitted") /\ order' = Append(order, e)
    <3>1. order \in Seq(DOMAIN tree)
      BY <1>1 DEF Used
    <3> QED
      BY <3>1, <2>0, <1>3, SetToSeqOfOne, AppendIsConcat
  <2>2. usb' \in [DOMAIN tree -> Marks] /\ ResultsOf(tree, usb') = ResultsOf(tree, usb)
    BY <2>0, <2>1, <1>1 DEF Put, Marks, ResultsOf
  <2> DEFINE rs == ResultsOf(tree, usb)
  <2> DEFINE r == Answers(tree, usb)
  <2>3. rs \in [DOMAIN tree -> Values] /\ r = ProgramOf(tree, rs) /\ rs[e] = "pending"
    BY <2>0, <1>1, ResultsType DEF Answers
  <2>4. Answers(tree, usb') = r
    BY <2>2 DEF Answers
  <2> HIDE DEF rs, r
  <2>5. WaitsFor(r[e], e)
    BY <2>0, <2>3, <1>1, LeafWaits
  <2>6. Chosen(tree, second', r)
    BY DEF r
  <2>7. WaitsFor(r[1], e)
    BY <2>0, <2>3, <2>5, <2>6, <1>1, <1>2, Frontier
  <2> DEFINE q == r[1]
  <2>8. q = Answers(tree, usb)[1] /\ WaitsFor(q, e)
    BY <2>7 DEF r
  <2> HIDE DEF q
  <2>9. Begins(order, q.uses)
    BY <2>8, <1>1
  <2>10. Used(tree, usb', order') /\ Begins(order', q.uses)
    BY <2>0, <2>1, <2>8, <2>9, <1>1, Submitting
  <2>11. Begins(order', Answers(tree, usb')[1].uses)
    BY <2>4, <2>10 DEF q
  <2>12. Returned(tree, Answers(tree, usb'), caller', pc') /\ Chosen(tree, second', Answers(tree, usb'))
    BY <2>4, <2>6 DEF r
  <2>13. caller' # "held"
    BY <1>5
  <2>14. \A n \in DOMAIN tree : usb'[n] # "none" => tree[n].kind \in Effects /\ stage'[n] # "none"
    <3>1. stage'[e] # "none"
      BY <2>0 DEF Held
    <3>2. \A n \in DOMAIN tree : n # e => usb'[n] = usb[n]
      BY <2>1, <1>1 DEF Put
    <3> QED
      BY <3>1, <3>2, <2>0, <1>1
  <2> QED
    BY <2>2, <2>10, <2>11, <2>12, <2>13, <2>14 DEF FlowInv, Node, Kind
<1> QED
  BY <1>4, <1>5

\* The operation is converted: at most its system call is started.
LEMMA FlowIntoFuture ==
  ASSUME ShapeInv, ShapeInv', FlowInv, IntoFuture
  PROVE  FlowInv'
<1>1. /\ Proper(tree) /\ 1 \in DOMAIN tree /\ stage \in [DOMAIN tree -> Stages]
      /\ Chosen(tree, second, Answers(tree, usb))
      /\ caller = "held" => \A n \in DOMAIN tree : tree[n].kind = "blocking" => usb[n] = "none"
      /\ Owner(tree, stage, second, caller, pc.do)
  BY ShapeGives DEF FlowInv, Node, Kind
<1> DEFINE S == Of("blocking", Spine(1))
<1>2. /\ tree' = tree /\ Submit(S) /\ second' = second /\ pc' = pc
      /\ stage' = Put(stage, SpineOf(tree, 1), "future")
      /\ caller = "held" /\ caller' = "converted"
  BY OfTree DEF IntoFuture
<1>3. \A x \in S : x \in SpineOf(tree, 1) /\ tree[x].kind = "blocking" /\ x \in DOMAIN tree
  BY <1>1, OfTree, SpineFacts DEF Of
<1> HIDE DEF S
<1>5. \A x \in S : /\ x \in DOMAIN tree /\ tree[x].kind \in Effects
                   /\ usb[x] = "none" /\ stage'[x] \in Held
  BY <1>1, <1>2, <1>3 DEF Effects, Held, Put
<1>6. \A x, y \in S : x = y
  BY <1>1, <1>3, SpineLeaf DEF Effects
<1>7. \A x \in DOMAIN tree : stage[x] # "none" => stage'[x] # "none"
  BY <1>1, <1>2 DEF Put
<1>8. caller' # "held"
  BY <1>2
<1>9. Returned(tree, Answers(tree, usb), caller', pc')
  BY <1>1, <1>2 DEF Returned, Owner
<1> QED
  BY <1>1, <1>2, <1>5, <1>6, <1>7, <1>8, <1>9, FlowSubmit

\* wait starts a system call.
LEMMA FlowWaitSystemCall ==
  ASSUME ShapeInv, ShapeInv', FlowInv, NEW n, WaitSystemCall(n)
  PROVE  FlowInv'
<1>1. /\ Chosen(tree, second, Answers(tree, usb))
      /\ Owner(tree, stage, second, caller, pc.do)
  BY ShapeGives DEF FlowInv, Node
<1> DEFINE S == {n}
<1>2. /\ tree' = tree /\ Submit(S) /\ second' = second /\ pc' = pc /\ caller' = caller /\ stage' = stage
      /\ pc = Call(n) /\ tree[n].kind = "blocking" /\ usb[n] = "none" /\ stage[n] = "operation"
  BY OfTree DEF WaitSystemCall, Waits
<1>3. n \in DOMAIN tree /\ pc.do = "call"
  BY <1>2, CallAt
<1>4. \A x \in S : /\ x \in DOMAIN tree /\ tree[x].kind \in Effects
                   /\ usb[x] = "none" /\ stage'[x] \in Held
  BY <1>2, <1>3 DEF Effects, Held
<1>5. \A x, y \in S : x = y
  OBVIOUS
<1> HIDE DEF S
<1>6. caller' \notin {"held", "converted", "done"} /\ pc'.do \notin {"return", "released"}
  BY <1>1, <1>2, <1>3 DEF Owner
<1>7. /\ caller' # "held"
      /\ Returned(tree, Answers(tree, usb), caller', pc')
  BY <1>6 DEF Returned
<1> QED
  BY <1>1, <1>2, <1>4, <1>5, <1>7, FlowSubmit

\* A step that builds m, with the leaf of it or without.
LEMMA FlowBuild ==
  ASSUME ShapeInv, ShapeInv', FlowInv, tree' = tree, NEW m \in DOMAIN tree, stage[m] = "none",
         NEW S, \A x \in S : x \in SpineOf(tree, m) /\ tree[x].kind \in Effects, Submit(S),
         \A x \in SpineOf(tree, m) : stage'[x] \in Held,
         \A x \in DOMAIN tree : stage[x] # "none" => stage'[x] # "none",
         Chosen(tree, second', Answers(tree, usb)),
         caller' \notin {"held", "converted", "done"}, pc'.do \notin {"return", "released"}
  PROVE  FlowInv'
<1>1. /\ Proper(tree) /\ Built(tree, stage, second)
      /\ \A n \in DOMAIN tree : usb[n] # "none" => stage[n] # "none"
  BY ShapeGives DEF FlowInv, Node
<1>2. \A x \in SpineOf(tree, m) : x \in DOMAIN tree /\ stage[x] = "none"
  BY <1>1, SpineFacts, SpineUnbuilt
<1>3. \A x \in S : /\ x \in DOMAIN tree /\ tree[x].kind \in Effects
                   /\ usb[x] = "none" /\ stage'[x] \in Held
  BY <1>1, <1>2
<1>4. \A x, y \in S : x = y
  BY <1>1, SpineLeaf
<1>5. /\ caller' # "held"
      /\ Returned(tree, Answers(tree, usb), caller', pc')
  BY DEF Returned
<1> QED
  BY <1>3, <1>4, <1>5, FlowSubmit

\* A call in progress is somebody's.
LEMMA Busy ==
  ASSUME ShapeInv, pc.do # "idle"
  PROVE  caller \notin {"held", "converted", "done"}
BY ShapeGives DEF Owner

\* A block's body is built.
LEMMA FlowPollBlock ==
  ASSUME ShapeInv, ShapeInv', FlowInv, NEW n, PollBlock(n)
  PROVE  FlowInv'
<1>1. /\ Proper(tree) /\ \A x \in DOMAIN tree : x # None
      /\ stage \in [DOMAIN tree -> Stages]
      /\ Chosen(tree, second, Answers(tree, usb))
  BY ShapeGives DEF FlowInv, Node
<1> DEFINE k == tree[n].first
<1>2. /\ tree' = tree /\ second' = second /\ caller' = caller
      /\ pc = Call(n) /\ tree[n].kind = "operation" /\ pc' = Call(k)
  BY OfTree DEF PollBlock, Polls
<1>3. n \in DOMAIN tree /\ pc.do = "call"
  BY <1>2, CallAt
<1>4. k \in DOMAIN tree
  BY <1>1, <1>2, <1>3, NodeParts, KidAfter
<1>5. caller' \notin {"held", "converted", "done"} /\ pc'.do \notin {"return", "released"}
  BY <1>2, <1>3, Busy, Calls
<1> DEFINE S == Of("transfer", Spine(k)) \cup Of("blocking", Spine(k))
<1>6. CASE stage[k] = "none"
  <2>1. stage' = Put(stage, SpineOf(tree, k), "future") /\ Submit(S)
    BY <1>6, OfTree DEF PollBlock, BuildFuture
  <2>2. \A x \in S : x \in SpineOf(tree, k) /\ tree[x].kind \in Effects
    BY OfTree DEF Of, Effects
  <2> HIDE DEF S, k
  <2>3. \A x \in DOMAIN tree : stage'[x] = IF x \in SpineOf(tree, k) THEN "future" ELSE stage[x]
    BY <2>1, <1>1 DEF Put
  <2>4. \A x \in SpineOf(tree, k) : stage'[x] \in Held
    BY <2>3, <1>1, <1>4, SpineFacts DEF Held
  <2>5. \A x \in DOMAIN tree : stage[x] # "none" => stage'[x] # "none"
    BY <2>3
  <2> QED
    BY <2>1, <2>2, <2>4, <2>5, <1>1, <1>2, <1>4, <1>5, <1>6, FlowBuild
<1>7. CASE stage[k] # "none"
  <2>1. stage' = stage /\ usb' = usb /\ order' = order
    BY <1>7 DEF PollBlock, NoSubmit
  <2> QED
    BY <2>1, <1>2, <1>5, FlowCall
<1> QED
  BY <1>6, <1>7

\* The continuation of p builds what the program goes on with.
LEMMA ChosenSecond ==
  ASSUME ShapeInv, FlowInv, NEW p \in DOMAIN tree, NEW n, n = tree[p].first, NEW v,
         Answers(tree, usb)[n].value = v, ~Ends(tree, p, v),
         tree[p].kind \in {"and_then", "continue_with"},
         second' = Put(second, {p}, Next(p, v))
  PROVE  Chosen(tree, second', Answers(tree, usb))
<1> DEFINE r == Answers(tree, usb)
<1>1. second \in [DOMAIN tree -> DOMAIN tree \cup {None}] /\ Chosen(tree, second, r)
  BY ShapeGives DEF FlowInv
<1>2. second' = Put(second, {p}, NextOf(tree, p, v)) /\ r[n].value = v
  BY DEF Next, NextOf
<1> HIDE DEF r
<1>3. Chosen(tree, second', r)
  BY <1>1, <1>2 DEF Chosen, Put
<1> QED
  BY <1>3 DEF r

\* The parent of n goes on where the program does.
LEMMA GoesOn ==
  ASSUME ShapeInv, FlowInv, NEW n, NEW v \in {"ok", "err"}, pc = Return(n, v), Parent(n) # None,
         ~Stops(Parent(n), n, v)
  PROVE  /\ Parent(n) \in DOMAIN tree /\ Parent(n) = ParentOf(tree, n) /\ pc.do = "return"
         /\ n = tree[Parent(n)].first /\ tree[Parent(n)].kind \in {"and_then", "continue_with"}
         /\ Answers(tree, usb)[n].value = v /\ ~Ends(tree, Parent(n), v)
<1> DEFINE p == Parent(n)
<1>1. Returned(tree, Answers(tree, usb), caller, pc)
  BY DEF FlowInv
<1>2. p \in DOMAIN tree /\ p = ParentOf(tree, n) /\ pc.do = "return" /\ pc.at = n /\ pc.value = v
  BY ReturnAt
<1>3. n = tree[p].first /\ tree[p].kind \in {"and_then", "continue_with"}
  BY ContinueBuilds
<1>4. Answers(tree, usb)[n].value = v
  BY <1>1, <1>2 DEF Returned
<1>5. ~Ends(tree, p, v)
  BY <1>3, OfTree DEF Stops, Ends
<1> QED
  BY <1>2, <1>3, <1>4, <1>5

\* wait builds the second operation.
LEMMA FlowWaitSecond ==
  ASSUME ShapeInv, ShapeInv', FlowInv, NEW n, NEW v \in {"ok", "err"}, Continue(n, v),
         stage[Parent(n)] = "wait"
  PROVE  FlowInv'
<1> DEFINE p == Parent(n)
<1> DEFINE m == Next(p, v)
<1> DEFINE S == Of("transfer", Spine(m))
<1>1. /\ Proper(tree) /\ stage \in [DOMAIN tree -> Stages]
  BY ShapeGives
<1>2. /\ tree' = tree /\ caller' = caller
      /\ pc = Return(n, v) /\ p # None /\ ~Stops(p, n, v)
      /\ stage' = Put(stage, SpineOf(tree, m), "operation") /\ Submit(S)
      /\ second' = Put(second, {p}, m) /\ pc' = Call(m)
  BY OfTree DEF Continue, WaitSecond, Build
<1>3. p \in DOMAIN tree /\ pc.do = "return"
  BY <1>2, ReturnAt
<1>4. m \in KidsOf(tree, p) /\ stage[m] = "none"
  BY <1>2, ContinueBuilds
<1>5. m \in DOMAIN tree
  BY <1>1, <1>3, <1>4, KidAfter
<1>6. Chosen(tree, second', Answers(tree, usb))
  BY <1>2, GoesOn, ChosenSecond
<1>7. caller' \notin {"held", "converted", "done"} /\ pc'.do \notin {"return", "released"}
  BY <1>2, <1>3, Busy, Calls
<1>8. \A x \in S : x \in SpineOf(tree, m) /\ tree[x].kind \in Effects
  BY OfTree DEF Of, Effects
<1> HIDE DEF S, m, p
<1>9. \A x \in DOMAIN tree : stage'[x] = IF x \in SpineOf(tree, m) THEN "operation" ELSE stage[x]
  BY <1>1, <1>2 DEF Put
<1>10. \A x \in SpineOf(tree, m) : stage'[x] \in Held
  BY <1>1, <1>5, <1>9, SpineFacts DEF Held
<1>11. \A x \in DOMAIN tree : stage[x] # "none" => stage'[x] # "none"
  BY <1>9
<1> QED
  BY <1>2, <1>4, <1>5, <1>6, <1>7, <1>8, <1>10, <1>11, FlowBuild

\* A poll releases the first operation.
LEMMA FlowRelease ==
  ASSUME ShapeInv, FlowInv, NEW n, NEW v \in {"ok", "err"}, Continue(n, v),
         stage[Parent(n)] # "wait"
  PROVE  FlowInv'
<1>1. stage \in [DOMAIN tree -> Stages]
  BY ShapeGives
<1>2. pc = Return(n, v) /\ Parent(n) # None /\ ~Stops(Parent(n), n, v)
  BY DEF Continue
<1>3. /\ tree' = tree /\ caller' = caller /\ usb' = usb /\ order' = order /\ second' = second
      /\ stage' = Put(stage, Released(Parent(n)), "over")
      /\ pc' = Running("released", n, v)
  BY DEF Continue, Release
<1>4. /\ Parent(n) = ParentOf(tree, n) /\ pc.do = "return"
      /\ Answers(tree, usb)[n].value = v /\ ~Ends(tree, Parent(n), v)
  BY <1>2, GoesOn
<1>5. caller' \notin {"held", "converted", "done"}
  BY <1>3, <1>4, Busy
<1>6. Returned(tree, Answers(tree, usb), caller', pc')
  BY <1>3, <1>4, <1>5, Calls DEF Returned
<1>7. \A x \in DOMAIN tree : stage[x] # "none" => stage'[x] # "none"
  BY <1>1, <1>3 DEF Put
<1> QED
  BY <1>3, <1>5, <1>6, <1>7, FlowSame

\* A poll builds the second operation.
LEMMA FlowPollSecond ==
  ASSUME ShapeInv, ShapeInv', FlowInv, NEW n, NEW v \in {"ok", "err"}, PollSecond(n, v)
  PROVE  FlowInv'
<1> DEFINE p == Parent(n)
<1> DEFINE m == Next(p, v)
<1> DEFINE S == Of("transfer", Spine(m)) \cup Of("blocking", Spine(m))
<1>1. /\ Proper(tree) /\ stage \in [DOMAIN tree -> Stages]
      /\ Returned(tree, Answers(tree, usb), caller, pc)
  BY ShapeGives DEF FlowInv
<1>2. pc = Running("released", n, v) /\ p = Parent(n) /\ m = Next(p, v)
  BY DEF PollSecond
<1>3. /\ p \in DOMAIN tree /\ p = ParentOf(tree, n) /\ n = tree[p].first
      /\ tree[p].kind \in {"and_then", "continue_with"}
      /\ m \in KidsOf(tree, p) /\ stage[m] = "none" /\ ~taken[p]
      /\ pc.do = "released" /\ pc.at = n /\ pc.value = v
  BY <1>2, ReleasedAt
<1>4. /\ tree' = tree /\ caller' = caller
      /\ stage' = Put(stage, SpineOf(tree, m), "future") /\ Submit(S)
      /\ second' = Put(second, {p}, Next(p, v)) /\ pc' = Call(p)
  BY <1>3, OfTree DEF PollSecond, BuildFuture, Onward
<1>5. m \in DOMAIN tree
  BY <1>1, <1>3, KidAfter
<1>6. Chosen(tree, second', Answers(tree, usb))
  <2>1. Answers(tree, usb)[n].value = v /\ ~Ends(tree, p, v)
    BY <1>1, <1>3 DEF Returned
  <2> QED
    BY <2>1, <1>3, <1>4, ChosenSecond
<1>7. caller' \notin {"held", "converted", "done"} /\ pc'.do \notin {"return", "released"}
  BY <1>3, <1>4, Busy, Calls
<1>8. \A x \in S : x \in SpineOf(tree, m) /\ tree[x].kind \in Effects
  BY OfTree DEF Of, Effects
<1> HIDE DEF S, m, p
<1>9. \A x \in DOMAIN tree : stage'[x] = IF x \in SpineOf(tree, m) THEN "future" ELSE stage[x]
  BY <1>1, <1>4 DEF Put
<1>10. \A x \in SpineOf(tree, m) : stage'[x] \in Held
  BY <1>1, <1>5, <1>9, SpineFacts DEF Held
<1>11. \A x \in DOMAIN tree : stage[x] # "none" => stage'[x] # "none"
  BY <1>9
<1> QED
  BY <1>3, <1>4, <1>5, <1>6, <1>7, <1>8, <1>10, <1>11, FlowBuild

\* A leaf returns its result.
LEMMA FlowReturnLeaf ==
  ASSUME ShapeInv, FlowInv, NEW n, ReturnLeaf(n)
  PROVE  FlowInv'
<1>1. /\ Proper(tree) /\ stage \in [DOMAIN tree -> Stages] /\ usb \in [DOMAIN tree -> Marks]
  BY ShapeGives DEF FlowInv, Node
<1>2. /\ tree' = tree /\ usb' = usb /\ order' = order /\ second' = second /\ caller' = caller
      /\ stage' = Put(stage, {n}, "over") \/ stage' = stage
      /\ pc = Call(n) /\ pc' = Return(n, Result(n)) /\ Result(n) \in {"ok", "err"}
      /\ tree[n].kind \in Effects \cup {"ready"}
  BY DEF ReturnLeaf, Kind
<1>3. n \in DOMAIN tree /\ pc.do = "call"
  BY <1>2, CallAt
<1>4. caller' \notin {"held", "converted", "done"}
  BY <1>2, <1>3, Busy
<1>5. Answers(tree, usb)[n].value = Result(n)
  <2> DEFINE rs == ResultsOf(tree, usb)
  <2> DEFINE r == Answers(tree, usb)
  <2> DEFINE f == tree[n].first
  <2> DEFINE x == NextOf(tree, n, r[f].value)
  <2>1. rs \in [DOMAIN tree -> Values] /\ r = ProgramOf(tree, rs)
    BY <1>1, ResultsType DEF Answers
  <2>2. usb[n] \in {"ok", "err"} => rs[n] = usb[n]
    BY <1>1, <1>3, ResultsType
  <2> HIDE DEF rs, r
  <2>3. RunCases(tree, rs, r, n, f, x)
    BY <2>1, <1>1, <1>3, RunOf
  <2> HIDE DEF f, x
  <2>4. CASE tree[n].kind \in Effects
    <3>1. Result(n) = usb[n]
      BY <2>4 DEF Result, Kind, Effects
    <3>2. r[n] = [uses |-> <<n>>, value |-> rs[n]]
      BY <2>3, <2>4 DEF RunCases
    <3>3. r[n].value = rs[n]
      BY <3>2
    <3> QED
      BY <3>1, <3>3, <2>2, <1>2 DEF r
  <2>5. CASE tree[n].kind = "ready"
    <3>1. Result(n) = tree[n].value
      BY <2>5 DEF Result, Kind
    <3>2. r[n] = [uses |-> <<>>, value |-> tree[n].value]
      BY <2>3, <2>5 DEF RunCases
    <3>3. r[n].value = tree[n].value
      BY <3>2
    <3> QED
      BY <3>1, <3>3 DEF r
  <2> QED
    BY <2>4, <2>5, <1>2
<1>6. Returned(tree, Answers(tree, usb), caller', pc')
  BY <1>2, <1>4, <1>5, Calls DEF Returned
<1>7. \A x \in DOMAIN tree : stage[x] # "none" => stage'[x] # "none"
  BY <1>1, <1>2 DEF Put
<1>8. caller' = "held" => caller = "held"
  BY <1>2
<1> QED
  BY <1>2, <1>6, <1>7, <1>8, FlowSame

\* A combinator returns what the program returns there.
LEMMA FlowReturnUp ==
  ASSUME ShapeInv, FlowInv, NEW n, NEW v \in {"ok", "err"}, ReturnUp(n, v)
  PROVE  FlowInv'
<1> DEFINE p == Parent(n)
<1> DEFINE r == Answers(tree, usb)
<1> DEFINE rs == ResultsOf(tree, usb)
<1>1. /\ Proper(tree) /\ stage \in [DOMAIN tree -> Stages] /\ usb \in [DOMAIN tree -> Marks]
      /\ Chosen(tree, second, r) /\ Returned(tree, r, caller, pc)
      /\ \A x \in DOMAIN tree : x # None
  BY ShapeGives DEF FlowInv, Node
<1>2. /\ tree' = tree /\ usb' = usb /\ order' = order /\ second' = second /\ caller' = caller
      /\ stage' = Put(stage, DroppedBy(p, n), "over")
      /\ pc = Return(n, v) /\ p # None /\ Stops(p, n, v) /\ pc' = Return(p, v)
  BY DEF ReturnUp
<1>3. /\ p \in DOMAIN tree /\ pc.do = "return" /\ pc.at = n /\ pc.value = v
      /\ n = TargetOf(tree, second, p) /\ n \in KidsOf(tree, p)
  BY <1>2, ReturnAt
<1>4. caller' \notin {"held", "converted", "done"}
  BY <1>2, <1>3, Busy
<1>5. r[n].value = v
  BY <1>1, <1>3 DEF Returned
<1> DEFINE f == tree[p].first
<1> DEFINE x == NextOf(tree, p, r[f].value)
<1>6. rs \in [DOMAIN tree -> Values] /\ r = ProgramOf(tree, rs)
  BY <1>1, ResultsType DEF Answers
<1>7. n = f => Ends(tree, p, v)
  BY <1>2, OfTree DEF Stops, Ends
<1>8. second[p] # None => ~Ends(tree, p, r[f].value) /\ second[p] = x
  BY <1>1, <1>3 DEF Chosen
<1>9. tree[p].kind \notin Effects \cup {"ready"}
  BY <1>1, <1>3, NodeParts DEF Effects
<1>12. n = IF second[p] # None THEN second[p] ELSE f
  BY <1>3 DEF TargetOf
<1> HIDE DEF r, rs, p
<1>10. RunCases(tree, rs, r, p, f, x)
  BY <1>1, <1>3, <1>6, RunOf
<1> HIDE DEF f, x
<1>11. r[p].value = v
  <2>1. CASE second[p] = None
    <3>1. n = f
      BY <2>1, <1>12
    <3>2. Ends(tree, p, r[f].value)
      BY <3>1, <1>5, <1>7
    <3>3. r[p] = r[f]
      BY <3>2, <1>9, <1>10 DEF RunCases
    <3> QED
      BY <3>1, <3>3, <1>5
  <2>2. CASE second[p] # None
    <3>1. n = x
      BY <2>2, <1>8, <1>12
    <3>2. r[p] = [uses |-> r[f].uses \o r[x].uses, value |-> r[x].value]
      BY <2>2, <1>8, <1>9, <1>10 DEF RunCases
    <3> DEFINE c == r[f].uses \o r[x].uses
    <3>3. r[p] = [uses |-> c, value |-> r[x].value]
      BY <3>2
    <3> HIDE DEF c
    <3>4. r[p].value = r[x].value
      BY <3>3
    <3> QED
      BY <3>1, <3>4, <1>5
  <2> QED
    BY <2>1, <2>2
<1>13. Returned(tree, r, caller', pc')
  BY <1>2, <1>4, <1>11, Calls DEF Returned
<1>14. \A y \in DOMAIN tree : stage[y] # "none" => stage'[y] # "none"
  BY <1>1, <1>2 DEF Put
<1>15. caller' = "held" => caller = "held"
  BY <1>2
<1> QED
  BY <1>2, <1>13, <1>14, <1>15, FlowSame DEF r

\* A leaf ends.
LEMMA FlowComplete ==
  ASSUME ShapeInv, FlowInv, NEW n \in Node, Complete(n)
  PROVE  FlowInv'
<1> DEFINE r == Answers(tree, usb)
<1> DEFINE r2 == Answers(tree, usb')
<1>1. /\ Proper(tree) /\ 1 \in DOMAIN tree
      /\ usb \in [DOMAIN tree -> Marks]
      /\ \A x \in DOMAIN tree : usb[x] # "none" => tree[x].kind \in Effects /\ stage[x] # "none"
      /\ caller = "held" => \A x \in DOMAIN tree : tree[x].kind = "blocking" => usb[x] = "none"
      /\ Used(tree, usb, order) /\ Begins(order, r[1].uses)
      /\ Chosen(tree, second, r) /\ Returned(tree, r, caller, pc)
      /\ n \in DOMAIN tree
  BY ShapeGives DEF FlowInv, Node, Kind
<1>2. /\ tree' = tree /\ stage' = stage /\ second' = second /\ order' = order /\ caller' = caller /\ pc' = pc
      /\ usb[n] = "submitted"
  BY DEF Complete
<1>3. PICK v \in Outcomes : usb' = Put(usb, {n}, v)
  BY DEF Complete, Outcomes
<1>4. /\ usb' \in [DOMAIN tree -> Marks] /\ Used(tree, usb', order)
      /\ Begins(order, r2[1].uses)
      /\ \A k \in DOMAIN tree : r[k].value # "pending" => r2[k] = r[k]
  <2>1. Proper(tree) /\ usb \in [DOMAIN tree -> Marks] /\ Used(tree, usb, order) /\ n \in DOMAIN tree
    BY <1>1
  <2>2. Begins(order, Answers(tree, usb)[1].uses) /\ usb[n] = "submitted"
    BY <1>1, <1>2
  <2>3. WentOn(tree, usb, usb', order)
    BY <2>1, <2>2, <1>3, Completing
  <2> QED
    BY <2>3 DEF WentOn
<1>5. Built(tree, stage, second) /\ At(tree, stage, second, pc.do, pc.at)
  BY ShapeGives
<1> HIDE DEF r, r2
<1>6. Chosen(tree, second, r2)
  <2> SUFFICES ASSUME NEW p \in DOMAIN tree, second[p] # None
               PROVE  r2[tree[p].first] = r[tree[p].first]
    BY <1>1 DEF Chosen
  <2>1. tree[p].kind \in {"and_then", "continue_with"}
    BY <1>5 DEF Built
  <2>2. tree[p].first \in DOMAIN tree
    BY <2>1, <1>1, NodeParts, KidAfter DEF Wrappers
  <2>3. r[tree[p].first].value # "pending"
    BY <1>1 DEF Chosen, Ends
  <2> QED
    BY <2>2, <2>3, <1>4
<1>7. Returned(tree, r2, caller, pc)
  <2>1. pc.do \in {"return", "released"} => pc.at \in DOMAIN tree
    BY <1>5 DEF At
  <2>2. /\ pc.do \in {"return", "released"} => r2[pc.at].value = pc.value /\ pc.value \in {"ok", "err"}
        /\ caller = "done" => r2[1].value = pc.value /\ pc.value \in {"ok", "err"}
    BY <2>1, <1>1, <1>4 DEF Returned
  <2> QED
    BY <2>2, <1>1 DEF Returned
<1>8. caller = "held" => \A x \in DOMAIN tree : tree[x].kind = "blocking" => usb'[x] = "none"
  BY <1>1, <1>2, <1>3 DEF Put
<1>9. \A x \in DOMAIN tree : usb'[x] # "none" => tree[x].kind \in Effects /\ stage[x] # "none"
  BY <1>1, <1>2, <1>3 DEF Put, Outcomes
<1> QED
  BY <1>2, <1>4, <1>6, <1>7, <1>8, <1>9 DEF FlowInv, Node, Kind, r, r2

\* The owner drops what it has.
LEMMA FlowDrop ==
  ASSUME ShapeInv, FlowInv, Drop
  PROVE  FlowInv'
<1>1. /\ stage \in [DOMAIN tree -> Stages]
      /\ usb \in [DOMAIN tree -> Marks]
      /\ \A x \in DOMAIN tree : usb[x] # "none" => tree[x].kind \in Effects /\ stage[x] # "none"
      /\ Used(tree, usb, order) /\ Begins(order, Answers(tree, usb)[1].uses)
      /\ Chosen(tree, second, Answers(tree, usb))
  BY ShapeGives DEF FlowInv, Node, Kind
<1>2. /\ tree' = tree /\ second' = second /\ order' = order /\ pc' = pc /\ pc = Idle /\ caller' = "dropped"
      /\ stage' = Put(stage, {n \in Node : stage[n] # "none"}, "over")
      /\ usb' = Put(usb, {n \in Node : usb[n] = "submitted"}, "canceled")
  BY DEF Drop
<1>3. \A x \in DOMAIN tree : stage[x] # "none" => stage'[x] # "none"
  BY <1>1, <1>2 DEF Put
<1>4. /\ usb' \in [DOMAIN tree -> Marks]
      /\ \A x \in DOMAIN tree : /\ usb'[x] # "none" <=> usb[x] # "none"
                                /\ usb[x] \in {"ok", "err"} => usb'[x] = usb[x]
                                /\ usb[x] \notin {"ok", "err"} => usb'[x] \notin {"ok", "err"}
  BY <1>1, <1>2 DEF Put, Marks, Node
<1>5. ResultsOf(tree, usb') = ResultsOf(tree, usb)
  BY <1>4 DEF ResultsOf
<1>6. Answers(tree, usb') = Answers(tree, usb)
  BY <1>5 DEF Answers
<1>7. Used(tree, usb', order)
  BY <1>1, <1>4 DEF Used
<1>8. Returned(tree, Answers(tree, usb), caller', pc') /\ caller' # "held"
  BY <1>2, Calls DEF Returned
<1> QED
  BY <1>1, <1>2, <1>3, <1>4, <1>6, <1>7, <1>8 DEF FlowInv, Node, Kind

\* Every step keeps the order and the results.
LEMMA FlowNext ==
  ASSUME ShapeInv, ShapeInv', FlowInv, [NextState]_vars
  PROVE  FlowInv'
<1>1. /\ Proper(tree) /\ stage \in [DOMAIN tree -> Stages]
      /\ Returned(tree, Answers(tree, usb), caller, pc)
      /\ Owner(tree, stage, second, caller, pc.do)
  BY ShapeGives DEF FlowInv
<1>2. CASE IntoFuture
  BY <1>2, FlowIntoFuture
<1>3. CASE StartWait
  BY <1>3, FlowCall, Calls DEF StartWait
<1>4. CASE Drop
  BY <1>4, FlowDrop
<1>5. CASE Poll
  <2>1. caller' \notin {"held", "converted", "done"}
    BY <1>5 DEF Poll
  <2> QED
    BY <2>1, <1>5, FlowCall, Calls DEF Poll
<1>6. ASSUME NEW n \in Node, Step(n)
      PROVE  FlowInv'
  <2>1. CASE WaitFirst(n)
    <3>1. caller' \notin {"held", "converted", "done"} /\ pc'.do \notin {"return", "released"}
      BY <2>1, Busy, Calls DEF WaitFirst, Waits
    <3>2. \A x \in DOMAIN tree : stage[x] # "none" => stage'[x] # "none"
      BY <2>1, <1>1 DEF WaitFirst, Put
    <3> QED
      BY <2>1, <3>1, <3>2, FlowCall DEF WaitFirst
  <2>2. CASE BlockOn(n)
    <3>1. caller' \notin {"held", "converted", "done"} /\ pc'.do \notin {"return", "released"}
      BY <2>2, Busy, Calls DEF BlockOn, Waits
    <3>2. \A x \in DOMAIN tree : stage[x] # "none" => stage'[x] # "none"
      BY <2>2, <1>1 DEF BlockOn, Put
    <3> QED
      BY <2>2, <3>1, <3>2, FlowCall DEF BlockOn
  <2>3. CASE WaitSystemCall(n)
    BY <2>3, FlowWaitSystemCall
  <2>4. CASE PollCombinator(n)
    <3>1. caller' \notin {"held", "converted", "done"} /\ pc'.do \notin {"return", "released"}
      <4>1. pc = Call(n) /\ caller' = caller
        BY <2>4 DEF PollCombinator, Polls
      <4>2. pc.do = "call"
        BY <4>1, Calls
      <4>3. pc' = Call(Target(n)) \/ pc' = Panic(n)
        BY <2>4 DEF PollCombinator
      <4> QED
        BY <4>1, <4>2, <4>3, Busy DEF Call, Panic, Running
    <3> QED
      BY <2>4, <3>1, FlowCall DEF PollCombinator
  <2>5. CASE PollBlock(n)
    BY <2>5, FlowPollBlock
  <2>6. CASE PollPending(n)
    <3>1. caller' \notin {"held", "converted", "done"} /\ pc'.do \notin {"return", "released"}
      BY <2>6, Busy, Calls DEF PollPending, Polls
    <3> QED
      BY <2>6, <3>1, FlowCall DEF PollPending
  <2>7. CASE ReturnLeaf(n)
    BY <2>7, FlowReturnLeaf
  <2>8. ASSUME NEW v \in {"ok", "err"}, ReturnUp(n, v)
        PROVE  FlowInv'
    BY <2>8, FlowReturnUp
  <2>9. ASSUME NEW v \in {"ok", "err"}, Continue(n, v)
        PROVE  FlowInv'
    BY <2>9, FlowWaitSecond, FlowRelease
  <2>10. ASSUME NEW v \in {"ok", "err"}, PollSecond(n, v)
         PROVE  FlowInv'
    BY <2>10, FlowPollSecond
  <2> QED
    BY <1>6, <2>1, <2>2, <2>3, <2>4, <2>5, <2>6, <2>7, <2>8, <2>9, <2>10 DEF Step
<1>7. ASSUME NEW v \in {"ok", "err"}, Finish(v)
      PROVE  FlowInv'
  <2>1. /\ tree' = tree /\ usb' = usb /\ order' = order /\ second' = second
        /\ caller' = "done" /\ pc = Return(1, v) /\ pc' = Running("idle", None, v)
        /\ stage' = Put(stage, {n \in Node : stage[n] # "none"}, "over")
    BY <1>7 DEF Finish
  <2>2. Answers(tree, usb)[1].value = v
    BY <2>1, <1>1, Calls DEF Returned
  <2>3. Returned(tree, Answers(tree, usb), caller', pc') /\ caller' # "held"
    BY <2>1, <2>2 DEF Returned, Running
  <2>4. \A x \in DOMAIN tree : stage[x] # "none" => stage'[x] # "none"
    BY <2>1, <1>1 DEF Put
  <2> QED
    BY <2>1, <2>3, <2>4, FlowSame
<1>8. ASSUME NEW n \in Node, Complete(n)
      PROVE  FlowInv'
  BY <1>8, FlowComplete
<1>9. CASE UNCHANGED vars
  BY <1>1, <1>9, FlowSame DEF vars
<1> QED
  BY <1>2, <1>3, <1>4, <1>5, <1>6, <1>7, <1>8, <1>9 DEF NextState, Run, System

\* The order and the results of the execution are those of the program.
THEOREM FlowHolds ==
  Spec => [](ShapeInv /\ FlowInv)
<1>1. ShapeInv /\ FlowInv /\ [NextState]_vars => ShapeInv' /\ FlowInv'
  BY ShapeNext, FlowNext
<1>2. Init => ShapeInv /\ FlowInv
  BY ShapeInit, FlowInit
<1> QED
  BY <1>1, <1>2, PTL DEF Spec

\* Nothing is built with a deferred operation but the deferring itself.
LEMMA DeferSpine ==
  ASSUME NEW op, Proper(op), NEW t, t = Defer(op), Proper(t)
  PROVE  \A n \in SpineOf(t, 1) : t[n].kind \notin Effects
<1> DEFINE now == [kind |-> "ready", first |-> 0, ok |-> 0, err |-> 0, value |-> "ok"]
<1> DEFINE one == <<now>>
<1> DEFINE root == [kind |-> "continue_with", first |-> 1 + 1,
                    ok |-> IF op = <<>> THEN 0 ELSE (1 + Len(one)) + 1, err |-> 0, value |-> "none"]
<1> DEFINE later == Shift(op, 1 + Len(one))
<1> DEFINE none == Shift(<<>>, (1 + Len(one)) + Len(op))
<1>1. op \in Seq(Nodes) /\ Len(op) \in Nat /\ DOMAIN op = 1..Len(op)
  BY DEF Proper
<1>2. Shift(one, 1) = one
  <2>1. DOMAIN one = {1} /\ one[1] = now /\ one = [n \in {1} |-> now]
    OBVIOUS
  <2>2. /\ now.kind = "ready" /\ now.first = 0 /\ now.ok = 0 /\ now.err = 0 /\ now.value = "ok"
        /\ now = [kind |-> "ready", first |-> 0, ok |-> 0, err |-> 0, value |-> "ok"]
    OBVIOUS
  <2> HIDE DEF one, now
  <2> QED
    BY <2>1, <2>2 DEF Shift
<1>3. later \in Seq(Nodes) /\ none = <<>>
  <2>1. Len(one) = 1
    OBVIOUS
  <2> HIDE DEF one
  <2>2. \A k \in Nat : (IF k = 0 THEN 0 ELSE k + (1 + Len(one))) \in Nat
    BY <2>1
  <2>3. \A n \in 1..Len(op) : op[n] \in Nodes
    BY <1>1
  <2>4. later \in [1..Len(op) -> Nodes]
    BY <1>1, <2>2, <2>3 DEF Shift, Nodes
  <2>5. none = <<>>
    BY DEF Shift
  <2> HIDE DEF later, none
  <2> QED
    BY <1>1, <2>4, <2>5
<1>4. t = ((<<root>> \o one) \o later) \o none
  <2>1. Ready("ok") = one /\ one # <<>>
    BY DEF Ready, Leaf
  <2>2. t = Combinator("continue_with", one, op, <<>>)
    BY <2>1, Zenon DEF Defer, ContinueWith
  <2> HIDE DEF one
  <2>3. Combinator("continue_with", one, op, <<>>)
          = ((<<root>> \o Shift(one, 1)) \o later) \o none
    BY <2>1 DEF Combinator
  <2> HIDE DEF root, later, none
  <2> QED
    BY <2>2, <2>3, <1>2
<1> DEFINE T == Nodes \cup {root, now}
<1> DEFINE head == <<root>> \o one
<1>h. head \in Seq(T) /\ Len(head) = 2 /\ head[1] = root /\ head[2] = now
  <2> HIDE DEF root, now
  <2>1. root \in T /\ now \in T
    OBVIOUS
  <2> HIDE DEF T
  <2> QED
    BY <2>1
<1>5. t[1] = root /\ t[2] = now
  <2>1. later \in Seq(T)
    <3> HIDE DEF later, root, now
    <3> QED
      BY <1>3
  <2>2. none = <<>> /\ t = (head \o later) \o none
    BY <1>3, <1>4
  <2> HIDE DEF T, head, later, none, root, now
  <2>3. head \o later \in Seq(T) /\ (head \o later) \o <<>> = head \o later
    BY <1>h, <2>1
  <2>4. (head \o later)[1] = head[1] /\ (head \o later)[2] = head[2]
    <3>1. Len(later) \in Nat
      BY <2>1
    <3>2. /\ 1 \in 1..(Len(head) + Len(later)) /\ 1 <= Len(head)
          /\ 2 \in 1..(Len(head) + Len(later)) /\ 2 <= Len(head)
      BY <1>h, <3>1
    <3>3. \A i \in 1..(Len(head) + Len(later)) :
            (head \o later)[i] = IF i <= Len(head) THEN head[i] ELSE later[i - Len(head)]
      BY <1>h, <2>1, ConcatProperties
    <3>4. (head \o later)[1] = IF 1 <= Len(head) THEN head[1] ELSE later[1 - Len(head)]
      BY <3>2, <3>3, Zenon
    <3>5. (head \o later)[2] = IF 2 <= Len(head) THEN head[2] ELSE later[2 - Len(head)]
      BY <3>2, <3>3, Zenon
    <3> QED
      BY <3>2, <3>4, <3>5, Zenon
  <2> QED
    BY <2>2, <2>3, <2>4, <1>h
<1> HIDE DEF root, now, later, none, head, T
<1>6. t[1].kind = "continue_with" /\ t[1].first = 2 /\ t[2].kind = "ready"
  BY <1>5 DEF root, now
<1>7. 1 \in DOMAIN t /\ 2 \in DOMAIN t
  BY <1>6, TreeNodes, NodeParts, KidAfter DEF Wrappers
<1>8. SpineOf(t, 1) = {1, 2}
  BY <1>6, <1>7, SpineForm DEF Wrappers
<1> QED
  BY <1>6, <1>8 DEF Effects

\* Whatever is deferred, nothing of it is submitted before the operation is
\* waited for or polled, not even by into_future (defer, maybe_future.rs, which
\* control_in and control_out of usb/mod.rs rest on).
THEOREM DeferredIsLazy ==
  ASSUME NEW op, Proper(op)
  PROVE  Spec /\ tree = Defer(op) => []LazyUntilBegun
<1> DEFINE Unbegun == /\ tree = Defer(op)
                      /\ caller \in {"held", "converted"} => order = <<>> /\ \A n \in Node : usb[n] = "none"
<1>1. ASSUME ShapeInv, tree = Defer(op)
      PROVE  \A kind \in Effects : Of(kind, Spine(1)) = {}
  BY <1>1, ShapeGives, OfTree, DeferSpine DEF Of
<1>2. Init /\ tree = Defer(op) => Unbegun
  <2> SUFFICES ASSUME Init, tree = Defer(op)
               PROVE  Unbegun
    OBVIOUS
  <2>1. Of("transfer", Spine(1)) = {}
    BY <1>1, ShapeInit DEF Effects
  <2> QED
    BY <2>1, SetToSeqOfOne DEF Init
<1>3. ShapeInv /\ FlowInv /\ Unbegun /\ [NextState]_vars => Unbegun'
  <2> SUFFICES ASSUME ShapeInv, FlowInv, Unbegun, [NextState]_vars
               PROVE  Unbegun'
    OBVIOUS
  <2>0. usb \in [Node -> Marks] /\ Used(tree, usb, order)
    BY DEF FlowInv
  <2>1. CASE IntoFuture
    <3>1. /\ Of("blocking", Spine(1)) = {} /\ tree' = tree /\ caller = "held"
          /\ usb' = Put(usb, {}, "submitted") /\ order' = order \o SetToSeq({})
      BY <1>1, <2>1 DEF Effects, IntoFuture, Submit
    <3>2. usb' = usb
      BY <2>0, <3>1 DEF Put
    <3>3. order' = order
      <4>1. order \in Seq(DOMAIN tree)
        BY <2>0 DEF Used
      <4> QED
        BY <3>1, <4>1, SetToSeqOfOne, ConcatEmptySeq
    <3> QED
      BY <3>1, <3>2, <3>3 DEF Node
  <2>2. CASE StartWait \/ Drop \/ Poll \/ \E v \in {"ok", "err"} : Finish(v)
    <3>1. caller' \notin {"held", "converted"} /\ tree' = tree
      BY <2>2 DEF StartWait, Drop, Poll, Finish
    <3> QED
      BY <3>1
  <2>3. ASSUME NEW n \in Node, Step(n)
        PROVE  Unbegun'
    <3>1. tree' = tree /\ caller' = caller
      BY <2>3 DEF Step, WaitFirst, BlockOn, WaitSystemCall, PollCombinator, PollBlock, PollPending,
                  ReturnLeaf, ReturnUp, Continue, WaitSecond, Release, PollSecond
    <3>2. pc.do # "idle"
      BY <2>3, Calls DEF Step, WaitFirst, BlockOn, WaitSystemCall, PollCombinator, PollBlock, PollPending,
                         ReturnLeaf, ReturnUp, Continue, PollSecond, Waits, Polls
    <3> QED
      BY <3>1, <3>2, Busy
  <2>4. ASSUME NEW n \in Node, Complete(n)
        PROVE  Unbegun'
    <3>1. tree' = tree /\ caller' = caller /\ usb[n] = "submitted"
      BY <2>4 DEF Complete
    <3> QED
      BY <3>1
  <2>5. CASE UNCHANGED vars
    BY <2>5 DEF vars, Node
  <2> QED
    BY <2>1, <2>2, <2>3, <2>4, <2>5 DEF NextState, Run, System
<1>4. Unbegun => LazyUntilBegun
  BY DEF LazyUntilBegun, Of
<1> QED
  BY <1>2, <1>3, <1>4, FlowHolds, PTL DEF Spec

\* wait and poll submit what the sequential program would, in its order
\* (maybe_future.rs).
THEOREM InProgramOrderHolds ==
  Spec => []InProgramOrder
<1>1. ShapeInv /\ FlowInv => InProgramOrder
  <2> SUFFICES ASSUME ShapeInv, FlowInv
               PROVE  InProgramOrder
    OBVIOUS
  <2>1. Proper(tree) /\ 1 \in DOMAIN tree
    BY ShapeGives
  <2> DEFINE q == Answers(tree, usb)[1]
  <2>2. Sequential(1) = q
    BY ProgramIs DEF Sequential, Results, Answers, ResultsOf, Node
  <2>3. /\ usb \in [DOMAIN tree -> Marks] /\ Used(tree, usb, order)
        /\ Begins(order, q.uses) /\ Returned(tree, Answers(tree, usb), caller, pc)
    BY DEF FlowInv, Node
  <2>4. q.uses \in Seq(DOMAIN tree) /\ order \in Seq(DOMAIN tree)
    BY <2>1, <2>3, ResultsType, ProgramForm DEF Answers, Runs, Used
  <2>5. q = Answers(tree, usb)[1]
    OBVIOUS
  <2>6. caller = "done" => q.value # "pending"
    BY <2>3 DEF Returned
  <2> HIDE DEF q
  <2>7. CASE order = q.uses
    BY <2>2, <2>7 DEF InProgramOrder
  <2>8. CASE /\ Len(q.uses) = Len(order) + 1 /\ q.value = "pending"
             /\ usb[q.uses[Len(q.uses)]] = "none"
    <3> DEFINE u == q.uses
    <3>1. order = SubSeq(u, 1, Len(u) - 1)
      <4>1. /\ Len(u) = Len(order) + 1 /\ \A i \in 1..Len(order) : order[i] = u[i]
            /\ u \in Seq(DOMAIN tree) /\ order \in Seq(DOMAIN tree)
        BY <2>3, <2>4, <2>8 DEF Begins
      <4> HIDE DEF u
      <4>2. Len(u) \in Nat /\ Len(order) \in Nat /\ Len(u) - 1 = Len(order)
        BY <4>1
      <4> DEFINE w == SubSeq(u, 1, Len(order))
      <4>3. /\ w \in Seq(DOMAIN tree) /\ Len(w) = Len(order)
            /\ \A i \in 1..Len(order) : w[i] = u[i]
        BY <4>1, <4>2
      <4> HIDE DEF w
      <4>4. order = w
        BY <4>1, <4>3, SeqEqual
      <4> QED
        BY <4>2, <4>4 DEF w
    <3> QED
      BY <3>1, <2>2, <2>6, <2>8 DEF InProgramOrder
  <2> QED
    BY <2>1, <2>3, <2>5, <2>7, <2>8, OrderEnds
<1> QED
  BY <1>1, FlowHolds, PTL

\* wait and poll return what the sequential program does, and no expect of
\* the combinators fires (maybe_future.rs).
THEOREM SameResultHolds ==
  Spec => []SameResult
<1>1. ShapeInv /\ FlowInv => SameResult
  <2> SUFFICES ASSUME ShapeInv, FlowInv
               PROVE  SameResult
    OBVIOUS
  <2>1. Sequential(1) = Answers(tree, usb)[1]
    BY ProgramIs DEF Sequential, Results, Answers, ResultsOf, Node
  <2>2. Returned(tree, Answers(tree, usb), caller, pc)
    BY DEF FlowInv
  <2>3. pc.do # "panic"
    BY ShapeGives DEF Progress
  <2> QED
    BY <2>1, <2>2, <2>3 DEF SameResult, Returned
<1> QED
  BY <1>1, FlowHolds, PTL

\* The operation that is done is released before the next is built
\* (ContinueWithFuture::poll, maybe_future.rs).
THEOREM OneAtATimeHolds ==
  Spec => []OneAtATime
<1>1. ShapeInv /\ FlowInv => OneAtATime
  <2> SUFFICES ASSUME ShapeInv, FlowInv
               PROVE  OneAtATime
    OBVIOUS
  <2>1. /\ Proper(tree) /\ Chain(tree, stage, second)
        /\ \A n \in DOMAIN tree : n \in Nat
        /\ \A n \in DOMAIN tree : usb[n] # "none" => tree[n].kind \in Effects
    BY ShapeGives DEF FlowInv, Node, Kind
  <2> DEFINE S == {n \in Node : usb[n] # "none" /\ stage[n] \in {"operation", "wait", "future"}}
  <2>2. \A n \in S : n \in DOMAIN tree /\ n \in Nat /\ stage[n] \in Held /\ KidsOf(tree, n) = {}
    <3> SUFFICES ASSUME NEW n \in S
                 PROVE  n \in DOMAIN tree /\ n \in Nat /\ stage[n] \in Held /\ KidsOf(tree, n) = {}
      OBVIOUS
    <3>1. n \in DOMAIN tree /\ tree[n].kind \in Effects
      BY <2>1 DEF Node
    <3>2. tree[n].first = None /\ tree[n].ok = None /\ tree[n].err = None
      BY <2>1, <3>1, NodeParts DEF Effects, Wrappers
    <3> QED
      BY <2>1, <3>1, <3>2 DEF KidsOf, Held
  <2>3. ASSUME NEW a \in S, NEW b \in S
        PROVE  a = b
    <3>1. ~(a < b) /\ ~(b < a)
      BY <2>1, <2>2, LeafIsLast
    <3> QED
      BY <2>2, <3>1
  <2>4. Cardinality(S) <= 1
    <3>1. CASE S = {}
      BY <3>1, FS_EmptySet
    <3>2. ASSUME NEW a \in S
          PROVE  Cardinality(S) <= 1
      <4>1. S = {a}
        BY <2>3
      <4> HIDE DEF S
      <4>2. Cardinality({a}) = 1
        BY FS_Singleton
      <4> QED
        BY <4>1, <4>2
    <3> QED
      BY <3>1, <3>2
  <2> QED
    BY <2>4 DEF OneAtATime
<1> QED
  BY <1>1, FlowHolds, PTL

=============================================================================
