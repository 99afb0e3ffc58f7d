---------------------------- MODULE DiscoveryProofs ----------------------------
(***************************************************************************)
(* Proofs about Discovery, for any openers and devices: the interface      *)
(* belongs to whoever is between claim and release, no receiver is left on *)
(* by an opener that is gone, unless its shutdown failed, and errors are   *)
(* reported for what they are.  For any devices, whatever the system lists *)
(* of them: the strings of an opened device are its own, and so only a     *)
(* Blog V4 is tuned below the range of the others.  After any calls on a   *)
(* builder: what is opened is what was asked for.                          *)
(***************************************************************************)
EXTENDS Discovery, SequenceTheorems, FiniteSetTheorems, Induction

Stages == {"building", "done"} \cup Opening \cup Claimed

\* The stages that have found a device, that use its configuration, and that
\* may leave it switched on.
Located   == {"open", "configuration", "claim"} \cup Claimed
Active    == {"claim"} \cup Claimed
Switching == {"configuring", "ready", "shutdown", "cleanup"}

Attachment == Devices \X (0..plugs)

OpInv ==
  /\ DOMAIN op = Openers
  /\ \A o \in Openers :
       /\ DOMAIN op[o] = DOMAIN New
       /\ op[o].stage \in Stages
       /\ op[o].stage \in Located => op[o].at \in Attachment
       /\ op[o].stage \in Active => op[o].at \in active
       /\ "shutdown" \in op[o].faults => op[o].stage = "done"

\* A device is attached once, and every attachment has a number of its own.
BusInv ==
  /\ plugs \in Nat
  /\ bus \in Seq(Attachment)
  /\ \A i, j \in 1..Len(bus) : bus[i][1] = bus[j][1] => i = j

HolderInv ==
  /\ holder \in [Devices -> Openers \cup {None}]
  /\ \A o \in Openers, d \in Devices :
       holder[d] = o <=> op[o].stage \in Claimed /\ Live(o) /\ Dev(o) = d

PowerInv ==
  /\ powered \subseteq Attachment
  /\ \A at \in powered \cap Range(bus) :
       \E o \in Openers : /\ op[o].at = at
                          /\ op[o].stage \in Switching \/ "shutdown" \in op[o].faults

DiscoveryInv == OpInv /\ BusInv /\ HolderInv /\ PowerInv

-----------------------------------------------------------------------------
(* The bus                                                                  *)

\* Attaching a device adds it, and only it.
LEMMA Inserted ==
  ASSUME NEW S, NEW s \in Seq(S), NEW e \in S, NEW i \in 1..(Len(s) + 1)
  PROVE  LET t == InsertAt(s, i, e)
         IN  /\ t \in Seq(S) /\ Len(t) = Len(s) + 1
             /\ \A k \in 1..Len(t) : t[k] = IF k < i THEN s[k] ELSE IF k = i THEN e ELSE s[k - 1]
<1> DEFINE a == SubSeq(s, 1, i - 1)
           b == SubSeq(s, i, Len(s))
<1>0. Len(s) \in Nat /\ i \in Nat  OBVIOUS
<1>1. /\ a \in Seq(S) /\ Len(a) = i - 1
      /\ \A k \in 1..(i - 1) : a[k] = s[k]
  <2>1. \A k \in 1..(i - 1) : s[k] \in S  BY ElementOfSeq
  <2>2. /\ SubSeq(s, 1, i - 1) \in Seq(S)
        /\ Len(SubSeq(s, 1, i - 1)) = IF 1 <= i - 1 THEN i - 1 - 1 + 1 ELSE 0
        /\ \A k \in 1..(i - 1 - 1 + 1) : SubSeq(s, 1, i - 1)[k] = s[1 + k - 1]
    BY <2>1, SubSeqProperties
  <2> QED  BY <2>2
<1>2. /\ b \in Seq(S) /\ Len(b) = Len(s) - i + 1
      /\ \A k \in 1..(Len(s) - i + 1) : b[k] = s[i + k - 1]
  <2>0. Len(s) \in Nat  OBVIOUS
  <2>1. \A k \in i..Len(s) : s[k] \in S  BY <2>0, ElementOfSeq
  <2>2. /\ SubSeq(s, i, Len(s)) \in Seq(S)
        /\ Len(SubSeq(s, i, Len(s))) = IF i <= Len(s) THEN Len(s) - i + 1 ELSE 0
        /\ \A k \in 1..(Len(s) - i + 1) : SubSeq(s, i, Len(s))[k] = s[i + k - 1]
    BY <2>0, <2>1, SubSeqProperties
  <2> QED  BY <2>0, <2>2
<1> DEFINE u == <<e>>
<1>3. u \in Seq(S) /\ Len(u) = 1 /\ u[1] = e  OBVIOUS
<1> HIDE DEF a, b, u
<1> DEFINE c == a \o u
<1>4. /\ c \in Seq(S) /\ Len(c) = i
      /\ \A k \in 1..i : c[k] = IF k < i THEN s[k] ELSE e
  <2>1. /\ a \o u \in Seq(S) /\ Len(a \o u) = Len(a) + Len(u)
        /\ \A k \in 1..(Len(a) + Len(u)) :
             (a \o u)[k] = IF k <= Len(a) THEN a[k] ELSE u[k - Len(a)]
    BY <1>1, <1>3, ConcatProperties
  <2>2. Len(a) + Len(u) = i  BY <1>1, <1>3
  <2>3. ASSUME NEW k \in 1..i  PROVE c[k] = IF k < i THEN s[k] ELSE e
    <3>0. k < i \/ k = i  BY <1>0
    <3>1. CASE k < i  BY <3>1, <1>1, <2>1, <2>2
    <3>2. CASE k = i
      <4>1. k - Len(a) = 1 /\ ~(k <= Len(a))  BY <3>2, <1>1
      <4> QED  BY <3>2, <4>1, <1>3, <2>1, <2>2
    <3> QED  BY <3>0, <3>1, <3>2
  <2> QED  BY <2>1, <2>2, <2>3
<1> HIDE DEF c
<1>5. /\ c \o b \in Seq(S) /\ Len(c \o b) = Len(s) + 1
      /\ \A k \in 1..(Len(s) + 1) :
           (c \o b)[k] = IF k < i THEN s[k] ELSE IF k = i THEN e ELSE s[k - 1]
  <2>1. /\ c \o b \in Seq(S) /\ Len(c \o b) = Len(c) + Len(b)
        /\ \A k \in 1..(Len(c) + Len(b)) :
             (c \o b)[k] = IF k <= Len(c) THEN c[k] ELSE b[k - Len(c)]
    BY <1>2, <1>4, ConcatProperties
  <2>2. Len(s) \in Nat  OBVIOUS
  <2>3. Len(c) + Len(b) = Len(s) + 1  BY <1>2, <1>4, <2>2
  <2>4. ASSUME NEW k \in 1..(Len(s) + 1)
        PROVE  (c \o b)[k] = IF k < i THEN s[k] ELSE IF k = i THEN e ELSE s[k - 1]
    <3>0. k <= i \/ k > i  BY <1>0
    <3>1. CASE k <= i  BY <3>1, <1>4, <2>1, <2>2, <2>3
    <3>2. CASE k > i
      <4>1. k - i \in 1..(Len(s) - i + 1) /\ i + (k - i) - 1 = k - 1  BY <3>2, <2>2
      <4>2. b[k - i] = s[k - 1]  BY <1>2, <4>1
      <4> QED  BY <3>2, <4>2, <1>4, <2>1, <2>2, <2>3
    <3> QED  BY <3>0, <3>1, <3>2
  <2> QED  BY <2>1, <2>3, <2>4
<1> QED  BY <1>5 DEF InsertAt, a, b, c, u

\* Removing a device moves up those behind it.
LEMMA Removed ==
  ASSUME NEW S, NEW s \in Seq(S), NEW i \in 1..Len(s)
  PROVE  LET t == RemoveAt(s, i)
         IN  /\ t \in Seq(S) /\ Len(t) = Len(s) - 1
             /\ \A k \in 1..Len(t) : t[k] = IF k < i THEN s[k] ELSE s[k + 1]
<1> DEFINE a == SubSeq(s, 1, i - 1)
           b == SubSeq(s, i + 1, Len(s))
<1>0. Len(s) \in Nat /\ i \in Nat  OBVIOUS
<1>1. /\ a \in Seq(S) /\ Len(a) = i - 1
      /\ \A k \in 1..(i - 1) : a[k] = s[k]
  <2>1. \A k \in 1..(i - 1) : s[k] \in S  BY <1>0, ElementOfSeq
  <2>2. /\ SubSeq(s, 1, i - 1) \in Seq(S)
        /\ Len(SubSeq(s, 1, i - 1)) = IF 1 <= i - 1 THEN i - 1 - 1 + 1 ELSE 0
        /\ \A k \in 1..(i - 1 - 1 + 1) : SubSeq(s, 1, i - 1)[k] = s[1 + k - 1]
    BY <1>0, <2>1, SubSeqProperties
  <2> QED  BY <1>0, <2>2
<1>2. /\ b \in Seq(S) /\ Len(b) = Len(s) - i
      /\ \A k \in 1..(Len(s) - i) : b[k] = s[i + k]
  <2>1. \A k \in (i + 1)..Len(s) : s[k] \in S  BY <1>0, ElementOfSeq
  <2>2. /\ SubSeq(s, i + 1, Len(s)) \in Seq(S)
        /\ Len(SubSeq(s, i + 1, Len(s))) = IF i + 1 <= Len(s) THEN Len(s) - (i + 1) + 1 ELSE 0
        /\ \A k \in 1..(Len(s) - (i + 1) + 1) : SubSeq(s, i + 1, Len(s))[k] = s[i + 1 + k - 1]
    BY <1>0, <2>1, SubSeqProperties
  <2> QED  BY <1>0, <2>2
<1> HIDE DEF a, b
<1>3. /\ a \o b \in Seq(S) /\ Len(a \o b) = Len(s) - 1
      /\ \A k \in 1..(Len(s) - 1) : (a \o b)[k] = IF k < i THEN s[k] ELSE s[k + 1]
  <2>1. /\ a \o b \in Seq(S) /\ Len(a \o b) = Len(a) + Len(b)
        /\ \A k \in 1..(Len(a) + Len(b)) :
             (a \o b)[k] = IF k <= Len(a) THEN a[k] ELSE b[k - Len(a)]
    BY <1>1, <1>2, ConcatProperties
  <2>3. Len(a) + Len(b) = Len(s) - 1  BY <1>0, <1>1, <1>2
  <2>4. ASSUME NEW k \in 1..(Len(s) - 1)
        PROVE  (a \o b)[k] = IF k < i THEN s[k] ELSE s[k + 1]
    <3>0. k < i \/ k >= i  BY <1>0
    <3>1. CASE k < i  BY <3>1, <1>0, <1>1, <2>1, <2>3
    <3>2. CASE k >= i
      <4>1. k - (i - 1) \in 1..(Len(s) - i) /\ i + (k - (i - 1)) = k + 1  BY <3>2, <1>0
      <4>2. b[k - (i - 1)] = s[k + 1]  BY <1>2, <4>1
      <4> QED  BY <3>2, <4>2, <1>0, <1>1, <2>1, <2>3
    <3> QED  BY <3>0, <3>1, <3>2
  <2> QED  BY <2>1, <2>3, <2>4
<1> QED  BY <1>3 DEF RemoveAt, a, b

\* Range in terms of places.
LEMMA RangePlaces ==
  ASSUME NEW S, NEW s \in Seq(S), NEW x
  PROVE  x \in Range(s) <=> \E k \in 1..Len(s) : s[k] = x
BY DEF Range

\* A device that is attached is one more, and it is attached once.
LEMMA PlugBus ==
  ASSUME BusInv, NEW d \in Devices, Plug(d)
  PROVE  BusInv' /\ Range(bus') = Range(bus) \cup {<<d, plugs + 1>>}
<1> DEFINE new == <<d, plugs + 1>>
           S   == Devices \X (0..(plugs + 1))
<1>1. /\ plugs' = plugs + 1 /\ plugs \in Nat /\ new \in S /\ new[1] = d
      /\ bus \in Seq(S) /\ Len(bus) \in Nat
  <2>1. plugs' = plugs + 1 /\ plugs \in Nat  BY DEF Plug, BusInv
  <2>2. new \in S /\ new[1] = d  BY <2>1
  <2>3. Attachment \subseteq S  BY <2>1 DEF Attachment
  <2>4. bus \in Seq(S)  BY <2>3, SeqMonotonic DEF BusInv
  <2> QED  BY <2>1, <2>2, <2>4
<1>2. S = Attachment'  BY <1>1 DEF Attachment
<1>3. PICK i \in 1..(Len(bus) + 1) : bus' = InsertAt(bus, i, new)  BY DEF Plug
<1>4. \A k \in 1..Len(bus) : bus[k][1] # d
  BY <1>1, RangePlaces DEF Plug
<1>5. \A j, k \in 1..Len(bus) : bus[j][1] = bus[k][1] => j = k  BY DEF BusInv
<1> HIDE DEF S, new
<1>6. /\ bus' \in Seq(S) /\ Len(bus') = Len(bus) + 1
      /\ \A k \in 1..Len(bus') : bus'[k] = IF k < i THEN bus[k] ELSE IF k = i THEN new ELSE bus[k - 1]
  BY <1>1, <1>3, Inserted
<1>7. \A j, k \in 1..Len(bus') : bus'[j][1] = bus'[k][1] => j = k
  <2> SUFFICES ASSUME NEW j \in 1..Len(bus'), NEW k \in 1..Len(bus'), bus'[j][1] = bus'[k][1]
               PROVE  j = k
    OBVIOUS
  <2> DEFINE Old(n) == IF n < i THEN n ELSE n - 1
  <2>1. \A n \in 1..Len(bus') : n # i => Old(n) \in 1..Len(bus) /\ bus'[n] = bus[Old(n)]
    BY <1>1, <1>6
  <2>2. bus'[i] = new  BY <1>1, <1>6
  <2>3. (j = i) <=> (k = i)  BY <1>1, <1>4, <2>1, <2>2
  <2>4. CASE j # i
    <3>1. /\ Old(j) \in 1..Len(bus) /\ Old(k) \in 1..Len(bus)
          /\ bus[Old(j)][1] = bus[Old(k)][1]
      BY <2>1, <2>3, <2>4
    <3> HIDE DEF Old
    <3>2. Old(j) = Old(k)  BY <1>5, <3>1
    <3> USE DEF Old
    <3> QED  BY <1>1, <1>6, <2>3, <2>4, <3>2
  <2> QED  BY <2>3, <2>4
<1>8. Range(bus') = Range(bus) \cup {new}
  <2>1. ASSUME NEW x PROVE x \in Range(bus') <=> x \in Range(bus) \/ x = new
    <3>1. ASSUME NEW k \in 1..Len(bus'), bus'[k] = x
          PROVE  x = new \/ \E n \in 1..Len(bus) : bus[n] = x
      <4>1. CASE k < i  BY <4>1, <3>1, <1>1, <1>6
      <4>2. CASE k = i  BY <4>2, <3>1, <1>1, <1>6
      <4>3. CASE k > i
        <5>1. k - 1 \in 1..Len(bus) /\ bus'[k] = bus[k - 1]  BY <4>3, <1>1, <1>6
        <5> QED  BY <3>1, <5>1
      <4> QED  BY <4>1, <4>2, <4>3, <1>6, <1>1
    <3>2. ASSUME NEW n \in 1..Len(bus), bus[n] = x
          PROVE  \E k \in 1..Len(bus') : bus'[k] = x
      <4>1. CASE n < i
        <5>1. n \in 1..Len(bus') /\ bus'[n] = bus[n]  BY <4>1, <1>1, <1>6
        <5> QED  BY <3>2, <5>1
      <4>2. CASE n >= i
        <5>1. n + 1 \in 1..Len(bus') /\ bus'[n + 1] = bus[n]  BY <4>2, <1>1, <1>6
        <5> QED  BY <3>2, <5>1
      <4> QED  BY <4>1, <4>2, <1>1
    <3>3. i \in 1..Len(bus') /\ bus'[i] = new  BY <1>1, <1>6
    <3>4. x \in Range(bus) <=> \E n \in 1..Len(bus) : bus[n] = x  BY <1>1, RangePlaces
    <3>5. x \in Range(bus') <=> \E k \in 1..Len(bus') : bus'[k] = x  BY <1>6, RangePlaces
    <3> QED  BY <3>1, <3>2, <3>3, <3>4, <3>5
  <2> QED  BY <2>1
<1> QED  BY <1>1, <1>2, <1>6, <1>7, <1>8 DEF BusInv, new

\* Of a device that is removed nothing stays behind.
LEMMA UnplugBus ==
  ASSUME BusInv, NEW d \in Devices, Unplug(d)
  PROVE  BusInv' /\ Range(bus') = {at \in Range(bus) : at[1] # d}
<1> DEFINE S == Devices \X (0..(plugs + 1))
<1>1. plugs' = plugs + 1 /\ plugs \in Nat /\ bus \in Seq(S) /\ Len(bus) \in Nat
  <2>1. plugs' = plugs + 1 /\ plugs \in Nat  BY DEF Unplug, BusInv
  <2>3. Attachment \subseteq S  BY <2>1 DEF Attachment
  <2>4. bus \in Seq(S)  BY <2>3, SeqMonotonic DEF BusInv
  <2> QED  BY <2>1, <2>4
<1>2. S = Attachment'  BY <1>1 DEF Attachment
<1>3. PICK i \in 1..Len(bus) : bus[i][1] = d /\ bus' = RemoveAt(bus, i)
  <2>1. DOMAIN bus = 1..Len(bus)  BY <1>1
  <2> QED  BY <2>1 DEF Unplug
<1>5. \A j, k \in 1..Len(bus) : bus[j][1] = bus[k][1] => j = k  BY DEF BusInv
<1> HIDE DEF S
<1>6. /\ bus' \in Seq(S) /\ Len(bus') = Len(bus) - 1
      /\ \A k \in 1..Len(bus') : bus'[k] = IF k < i THEN bus[k] ELSE bus[k + 1]
  BY <1>1, <1>3, Removed
<1> DEFINE Old(n) == IF n < i THEN n ELSE n + 1
<1>7. \A n \in 1..Len(bus') : Old(n) \in 1..Len(bus) /\ Old(n) # i /\ bus'[n] = bus[Old(n)]
  BY <1>1, <1>6
<1>8. \A j, k \in 1..Len(bus') : bus'[j][1] = bus'[k][1] => j = k
  <2> SUFFICES ASSUME NEW j \in 1..Len(bus'), NEW k \in 1..Len(bus'), bus'[j][1] = bus'[k][1]
               PROVE  j = k
    OBVIOUS
  <2>1. /\ Old(j) \in 1..Len(bus) /\ Old(k) \in 1..Len(bus)
        /\ bus[Old(j)][1] = bus[Old(k)][1]
    BY <1>7
  <2> HIDE DEF Old
  <2>2. Old(j) = Old(k)  BY <1>5, <2>1
  <2> USE DEF Old
  <2> QED  BY <1>1, <1>6, <2>2
<1>9. Range(bus') = {at \in Range(bus) : at[1] # d}
  <2>1. ASSUME NEW x PROVE x \in Range(bus') <=> x \in Range(bus) /\ x[1] # d
    <3>1. ASSUME NEW k \in 1..Len(bus'), bus'[k] = x
          PROVE  x[1] # d /\ \E n \in 1..Len(bus) : bus[n] = x
      BY <3>1, <1>3, <1>5, <1>7
    <3>2. ASSUME NEW n \in 1..Len(bus), bus[n] = x, x[1] # d
          PROVE  \E k \in 1..Len(bus') : bus'[k] = x
      <4>0. n < i \/ n > i  BY <3>2, <1>1, <1>3
      <4>1. CASE n < i
        <5>1. n \in 1..Len(bus') /\ bus'[n] = bus[n]  BY <4>1, <1>1, <1>6
        <5> QED  BY <3>2, <5>1
      <4>2. CASE n > i
        <5>1. n - 1 \in 1..Len(bus') /\ bus'[n - 1] = bus[n]  BY <4>2, <1>1, <1>6
        <5> QED  BY <3>2, <5>1
      <4> QED  BY <4>0, <4>1, <4>2
    <3>4. x \in Range(bus) <=> \E n \in 1..Len(bus) : bus[n] = x  BY <1>1, RangePlaces
    <3>5. x \in Range(bus') <=> \E k \in 1..Len(bus') : bus'[k] = x  BY <1>6, RangePlaces
    <3> QED  BY <3>1, <3>2, <3>4, <3>5
  <2> QED  BY <2>1
<1> QED  BY <1>1, <1>2, <1>6, <1>8, <1>9 DEF BusInv

-----------------------------------------------------------------------------
(* The steps of an opener                                                   *)

\* A step of o, seen from the fields the invariant is about.
Sets(o, stage, at) ==
  /\ op[o].stage # "done"
  /\ stage \in Stages
  /\ DOMAIN op' = Openers
  /\ DOMAIN op'[o] = DOMAIN New
  /\ op'[o].stage = stage /\ op'[o].at = at
  /\ "shutdown" \in op'[o].faults => stage = "done"
  /\ \A p \in Openers \ {o} : op'[p] = op[p]

\* Stage and attachment of the opener that moves.
LEMMA OpKept ==
  ASSUME OpInv, NEW o \in Openers, NEW stage, NEW at, Sets(o, stage, at),
         plugs' = plugs, active \subseteq active',
         stage \in Located => at \in Attachment,
         stage \in Active => at \in active'
  PROVE  OpInv'
<1>1. Attachment' = Attachment  BY DEF Attachment
<1>2. ASSUME NEW p \in Openers
      PROVE  /\ DOMAIN op'[p] = DOMAIN New
             /\ op'[p].stage \in Stages
             /\ op'[p].stage \in Located => op'[p].at \in Attachment'
             /\ op'[p].stage \in Active => op'[p].at \in active'
             /\ "shutdown" \in op'[p].faults => op'[p].stage = "done"
  <2>1. CASE p = o  BY <2>1, <1>1 DEF Sets
  <2>2. CASE p # o  BY <2>2, <1>1 DEF Sets, OpInv
  <2> QED  BY <2>1, <2>2
<1>3. DOMAIN op' = Openers /\ (DOMAIN New)' = DOMAIN New  BY DEF Sets, New
<1> QED  BY <1>2, <1>3 DEF OpInv

\* Who has no claim afterwards has given it back, or never had it.
LEMMA HolderKept ==
  ASSUME HolderInv, NEW o \in Openers, NEW stage, NEW at, Sets(o, stage, at), bus' = bus,
         op[o].stage \in Claimed => at = op[o].at,
         \/ holder' = holder /\ (stage \in Claimed <=> op[o].stage \in Claimed)
         \/ Releases(o) /\ stage \notin Claimed
         \/ /\ holder' = [holder EXCEPT ![Dev(o)] = o]
            /\ Live(o) /\ ~Taken(o) /\ Dev(o) \in Devices
            /\ op[o].stage \notin Claimed /\ stage \in Claimed /\ at = op[o].at
  PROVE  HolderInv'
<1>1. holder \in [Devices -> Openers \cup {None}] /\ None \notin Openers
  BY DiscoveryAssumption DEF HolderInv
<1>2. holder' \in [Devices -> Openers \cup {None}]  BY <1>1 DEF Releases
<1>3. ASSUME NEW p \in Openers, NEW d \in Devices
      PROVE  holder'[d] = p <=>
               op'[p].stage \in Claimed /\ op'[p].at \in Range(bus') /\ op'[p].at[1] = d
  <2>0. /\ holder[d] = p <=> op[p].stage \in Claimed /\ op[p].at \in Range(bus) /\ op[p].at[1] = d
        /\ holder[d] = o <=> op[o].stage \in Claimed /\ op[o].at \in Range(bus) /\ op[o].at[1] = d
    BY DEF HolderInv, Live, Dev
  <2>1. CASE p = o
    <3>1. op'[p].stage = stage /\ op'[p].at = at  BY <2>1 DEF Sets
    <3>2. CASE holder' = holder /\ (stage \in Claimed <=> op[o].stage \in Claimed)
      BY <2>0, <2>1, <3>1, <3>2
    <3>3. CASE Releases(o) /\ stage \notin Claimed
      BY <1>1, <2>1, <3>1, <3>3 DEF Releases
    <3>4. CASE /\ holder' = [holder EXCEPT ![Dev(o)] = o]
               /\ Live(o) /\ ~Taken(o) /\ Dev(o) \in Devices
               /\ op[o].stage \notin Claimed /\ stage \in Claimed /\ at = op[o].at
      BY <1>1, <2>0, <2>1, <3>1, <3>4 DEF Live, Dev
    <3> QED  BY <3>2, <3>3, <3>4
  <2>2. CASE p # o
    <3>1. op'[p] = op[p]  BY <2>2 DEF Sets
    <3>2. CASE holder' = holder /\ (stage \in Claimed <=> op[o].stage \in Claimed)
      BY <2>0, <3>1, <3>2
    <3>3. CASE Releases(o) /\ stage \notin Claimed
      BY <1>1, <2>0, <2>2, <3>1, <3>3 DEF Releases
    <3>4. CASE /\ holder' = [holder EXCEPT ![Dev(o)] = o]
               /\ Live(o) /\ ~Taken(o) /\ Dev(o) \in Devices
               /\ op[o].stage \notin Claimed /\ stage \in Claimed /\ at = op[o].at
      BY <1>1, <2>0, <2>2, <3>1, <3>4 DEF Taken, Dev
    <3> QED  BY <3>2, <3>3, <3>4
  <2> QED  BY <2>1, <2>2
<1> QED  BY <1>2, <1>3 DEF HolderInv, Live, Dev

\* Who is responsible for a receiver stays so until it is off, or its shutdown
\* has failed.
LEMMA PowerKept ==
  ASSUME PowerInv, OpInv, NEW o \in Openers, NEW stage, NEW at, Sets(o, stage, at),
         bus' = bus, plugs' = plugs,
         \/ /\ powered' = powered
            /\ op[o].stage \in Switching =>
                 at = op[o].at /\ (stage \in Switching \/ "shutdown" \in op'[o].faults)
         \/ /\ powered' = powered \cup {op[o].at} /\ op[o].at \in Attachment
            /\ stage \in Switching /\ at = op[o].at
         \/ powered' = powered \ {op[o].at}
  PROVE  PowerInv'
<1>1. Attachment' = Attachment  BY DEF Attachment
<1>2. powered' \subseteq Attachment'  BY <1>1 DEF PowerInv
<1>3. ASSUME NEW x \in powered' \cap Range(bus')
      PROVE  \E p \in Openers : /\ op'[p].at = x
                                /\ op'[p].stage \in Switching \/ "shutdown" \in op'[p].faults
  <2>1. CASE x \in powered
    <3>1. PICK p \in Openers : /\ op[p].at = x
                               /\ op[p].stage \in Switching \/ "shutdown" \in op[p].faults
      BY <1>3, <2>1 DEF PowerInv
    <3>2. CASE p = o
      <4>1. op[o].stage \in Switching  BY <3>1, <3>2 DEF OpInv, Sets
      <4>2. op'[o].stage = stage /\ op'[o].at = at  BY DEF Sets
      <4>3. x = op[o].at  BY <3>1, <3>2
      <4>4. at = op[o].at /\ (stage \in Switching \/ "shutdown" \in op'[o].faults)
        BY <1>3, <4>1, <4>3
      <4> QED  BY <4>2, <4>3, <4>4
    <3>3. CASE p # o
      <4>1. op'[p] = op[p]  BY <3>3 DEF Sets
      <4> QED  BY <3>1, <4>1
    <3> QED  BY <3>2, <3>3
  <2>2. CASE x \notin powered
    <3>1. x = op[o].at /\ stage \in Switching /\ at = op[o].at  BY <1>3, <2>2
    <3> QED  BY <3>1 DEF Sets
  <2> QED  BY <2>1, <2>2
<1> QED  BY <1>2, <1>3 DEF PowerInv

\* A step that changes neither holders nor receivers.
LEMMA Advances ==
  ASSUME DiscoveryInv, NEW o \in Openers, NEW stage, NEW at, Sets(o, stage, at),
         UNCHANGED <<bus, plugs, holder, powered>>, active \subseteq active',
         stage \in Located => at \in Attachment,
         stage \in Active => at \in active',
         stage \in Claimed <=> op[o].stage \in Claimed,
         op[o].stage \in Claimed => at = op[o].at,
         op[o].stage \in Switching => stage \in Switching
  PROVE  DiscoveryInv'
<1>1. OpInv'  BY OpKept DEF DiscoveryInv
<1>2. HolderInv'  BY HolderKept DEF DiscoveryInv
<1>3. PowerInv'
  <2>1. op[o].stage \in Switching => at = op[o].at  BY DEF Switching, Claimed
  <2> QED  BY <2>1, PowerKept DEF DiscoveryInv
<1>4. BusInv'  BY DEF DiscoveryInv, BusInv, Attachment
<1> QED  BY <1>1, <1>2, <1>3, <1>4 DEF DiscoveryInv

\* A step that changes only the stage.
LEMMA Goes ==
  ASSUME OpInv, NEW o \in Openers, NEW stage \in Stages, Go(o, stage), op[o].stage # "done"
  PROVE  Sets(o, stage, op[o].at)
BY DEF OpInv, Sets, Go, New

\* A step that fails.
LEMMA Fails ==
  ASSUME OpInv, NEW o \in Openers, NEW e, Fail(o, e), op[o].stage # "done"
  PROVE  Sets(o, "done", op[o].at)
BY DEF OpInv, Sets, Fail, New, Stages

\* A step that changes stage and result.
LEMMA Resulting ==
  ASSUME OpInv, NEW o \in Openers, NEW stage \in Stages, NEW e, op[o].stage # "done",
         op' = [op EXCEPT ![o].stage = stage, ![o].result = e]
  PROVE  Sets(o, stage, op[o].at)
BY DEF OpInv, Sets, New

\* The builder, before anything is found.
LEMMA ChooseKeeps ==
  ASSUME DiscoveryInv, NEW o \in Openers, NEW choice, Choose(o, choice)
  PROVE  DiscoveryInv'
<1>1. Sets(o, "building", op[o].at)
  BY DEF Choose, DiscoveryInv, OpInv, Sets, New, Stages
<1> QED  BY <1>1, Advances DEF Choose, Located, Active, Claimed, Switching

\* The same of a dialog.
LEMMA RequestPermissionKeeps ==
  ASSUME DiscoveryInv, NEW o \in Openers, RequestPermission(o)
  PROVE  DiscoveryInv'
<1>1. Sets(o, "building", op[o].at)
  BY DEF RequestPermission, DiscoveryInv, OpInv, Sets, New, Stages
<1> QED  BY <1>1, Advances DEF RequestPermission, Located, Active, Claimed, Switching

\* The same of the first poll of an open.
LEMMA OpenBeginKeeps ==
  ASSUME DiscoveryInv, NEW o \in Openers, OpenBegin(o)
  PROVE  DiscoveryInv'
<1>1. Sets(o, "list", op[o].at)  BY Goes DEF OpenBegin, DiscoveryInv, Stages, Opening
<1> QED  BY <1>1, Advances DEF OpenBegin, Located, Active, Claimed, Switching

\* What is selected is attached.
LEMMA SelectedIsAttached ==
  ASSUME BusInv, NEW selector, NEW hit \in Select(selector)
  PROVE  hit[1] \in Attachment
<1>1. PICK i \in DOMAIN bus : hit = Entry(selector, i)  BY DEF Select, Places
<1>2. hit[1] = bus[i]  BY <1>1 DEF Entry
<1> QED  BY <1>2, ElementOfSeq DEF BusInv

\* The selection locates the opener, or ends it.
LEMMA ListDevicesKeeps ==
  ASSUME DiscoveryInv, NEW o \in Openers, ListDevices(o)
  PROVE  DiscoveryInv'
<1> DEFINE Failed == \E e \in UsbFaults : Fail(o, <<"Usb", e>>)
<1>0. CASE Failed
  <2>1. PICK e \in UsbFaults : Fail(o, <<"Usb", e>>)  BY <1>0
  <2>2. Sets(o, "done", op[o].at)  BY <2>1, Fails DEF ListDevices, DiscoveryInv
  <2> QED  BY <2>2, Advances DEF ListDevices, Located, Active, Claimed, Switching
<1>1. CASE ~Failed /\ Select(op[o].selector) = {}
  <2>1. Sets(o, "done", op[o].at)
    BY <1>1 DEF ListDevices, DiscoveryInv, OpInv, Sets, New, Stages
  <2> QED  BY <2>1, Advances DEF ListDevices, Located, Active, Claimed, Switching
<1>2. CASE ~Failed /\ Select(op[o].selector) # {}
  <2>1. PICK hit \in Select(op[o].selector) :
          op' = [op EXCEPT ![o].stage = "open", ![o].at = hit[1], ![o].descriptor = hit[2],
                           ![o].seen = Candidates(op[o].selector)]
    BY <1>2 DEF ListDevices
  <2>2. hit[1] \in Attachment  BY SelectedIsAttached DEF DiscoveryInv
  <2> DEFINE at == hit[1]
             descriptor == hit[2]
             seen == Candidates(op[o].selector)
  <2>3. Sets(o, "open", at)
    <3>1. op' = [op EXCEPT ![o].stage = "open", ![o].at = at, ![o].descriptor = descriptor,
                           ![o].seen = seen]
      BY <2>1
    <3>2. op[o].stage = "list"  BY DEF ListDevices
    <3> HIDE DEF at, descriptor, seen
    <3> QED  BY <3>1, <3>2 DEF DiscoveryInv, OpInv, Sets, New, Stages, Opening
  <2> QED  BY <2>2, <2>3, Advances DEF ListDevices, Located, Active, Claimed, Switching
<1> QED  BY <1>0, <1>1, <1>2

\* Opening and configuring end or go on.
LEMMA OpenDeviceKeeps ==
  ASSUME DiscoveryInv, NEW o \in Openers, OpenDevice(o)
  PROVE  DiscoveryInv'
<1>0. /\ op[o].stage = "open" /\ op[o].at \in Attachment
  BY DEF OpenDevice, DiscoveryInv, OpInv, Located
<1>1. Sets(o, "configuration", op[o].at) \/ Sets(o, "done", op[o].at)
  BY <1>0, Goes, Fails DEF OpenDevice, DiscoveryInv, Stages, Opening
<1> QED  BY <1>0, <1>1, Advances DEF OpenDevice, Active, Claimed, Switching

\* From here on the attachment is on its configuration.
LEMMA SelectConfigurationKeeps ==
  ASSUME DiscoveryInv, NEW o \in Openers, SelectConfiguration(o)
  PROVE  DiscoveryInv'
<1>0. /\ op[o].stage = "configuration" /\ op[o].at \in Attachment
      /\ active \subseteq active'
  BY DEF SelectConfiguration, DiscoveryInv, OpInv, Located
<1>1. \/ Sets(o, "claim", op[o].at) /\ op[o].at \in active'
      \/ Sets(o, "done", op[o].at)
  BY <1>0, Goes, Fails DEF SelectConfiguration, DiscoveryInv, Stages, Opening
<1> QED  BY <1>0, <1>1, Advances DEF SelectConfiguration, Active, Claimed, Switching

\* The claim: nobody else holds the interface.
LEMMA ClaimKeeps ==
  ASSUME DiscoveryInv, NEW o \in Openers, Claim(o)
  PROVE  DiscoveryInv'
<1>0. /\ op[o].stage = "claim" /\ op[o].at \in Attachment /\ op[o].at \in active
      /\ Dev(o) \in Devices
      /\ UNCHANGED <<bus, plugs, active, powered>>
  BY DEF Claim, DiscoveryInv, OpInv, Located, Active, Attachment, Dev
<1>1. CASE /\ Live(o) /\ ~Taken(o) /\ Go(o, "language")
           /\ holder' = [holder EXCEPT ![Dev(o)] = o]
  <2>1. Sets(o, "language", op[o].at)
    BY <1>0, <1>1, Goes DEF DiscoveryInv, Stages, Claimed
  <2>2. OpInv'  BY <1>0, <2>1, OpKept DEF DiscoveryInv
  <2>3. HolderInv'
    <3>1. op[o].stage \notin Claimed /\ "language" \in Claimed  BY <1>0 DEF Claimed
    <3> QED  BY <1>0, <1>1, <2>1, <3>1, HolderKept DEF DiscoveryInv
  <2>4. PowerInv'
    <3>1. op[o].stage \notin Switching  BY <1>0 DEF Switching
    <3> QED  BY <1>0, <2>1, <3>1, PowerKept DEF DiscoveryInv
  <2>5. BusInv'  BY <1>0 DEF DiscoveryInv, BusInv, Attachment
  <2> QED  BY <2>2, <2>3, <2>4, <2>5 DEF DiscoveryInv
<1>2. CASE \E e \in UsbErrors(o, Taken(o)) : Fail(o, At(<<"Usb", e>>)) /\ UNCHANGED holder
  <2>1. Sets(o, "done", op[o].at) /\ UNCHANGED holder
    BY <1>0, <1>2, Fails DEF DiscoveryInv
  <2> QED  BY <1>0, <2>1, Advances DEF Located, Active, Claimed, Switching
<1> QED  BY <1>1, <1>2 DEF Claim

\* Reading the strings: the interface stays claimed.
LEMMA ReadLanguageKeeps ==
  ASSUME DiscoveryInv, NEW o \in Openers, ReadLanguage(o)
  PROVE  DiscoveryInv'
<1>0. /\ op[o].stage = "language" /\ op[o].at \in Attachment /\ op[o].at \in active
  BY DEF ReadLanguage, DiscoveryInv, OpInv, Located, Active, Claimed
<1>1. Sets(o, "manufacturer", op[o].at)
  BY <1>0 DEF ReadLanguage, Go, DiscoveryInv, OpInv, Sets, New, Stages, Claimed
<1> QED  BY <1>0, <1>1, Advances DEF ReadLanguage, Claimed, Switching

\* The same of the manufacturer and the product.
LEMMA ReadStringKeeps ==
  ASSUME DiscoveryInv, NEW o \in Openers, NEW string, NEW next,
         \/ string = "manufacturer" /\ next = "product"
         \/ string = "product" /\ next = "configure",
         ReadString(o, string, next)
  PROVE  DiscoveryInv'
<1>0. /\ op[o].stage = string /\ op[o].at \in Attachment /\ op[o].at \in active
      /\ string \in Claimed /\ next \in Claimed /\ string \notin Switching
  BY DEF ReadString, DiscoveryInv, OpInv, Located, Active, Claimed, Switching
<1>1. Sets(o, next, op[o].at)
  <2> DEFINE Has(value) == [op[o] EXCEPT !.stage = next, !.descriptor[string] = Kept(@, value)]
  <2>1. \E value : \/ op' = [op EXCEPT ![o] = Has(value)]
                   \/ op' = [op EXCEPT ![o] = [Has(value) EXCEPT !.faults = @ \cup {"string"}]]
    BY DEF ReadString
  <2>2. PICK value : \/ op' = [op EXCEPT ![o] = Has(value)]
                     \/ op' = [op EXCEPT ![o] = [Has(value) EXCEPT !.faults = @ \cup {"string"}]]
    BY <2>1
  <2> DEFINE descriptor == [op[o].descriptor EXCEPT ![string] = Kept(@, value)]
             r == [op[o] EXCEPT !.stage = next, !.descriptor = descriptor]
  <2>3. Has(value) = r  OBVIOUS
  <2> HIDE DEF descriptor, Has
  <2>4. next \in Stages /\ op[o].stage # "done" /\ next # "done"
    BY <1>0 DEF Stages, Claimed
  <2>5. /\ DOMAIN r = DOMAIN New /\ r.stage = next /\ r.at = op[o].at
        /\ r.faults = op[o].faults /\ "shutdown" \notin op[o].faults
    BY <2>4 DEF DiscoveryInv, OpInv, New
  <2> HIDE DEF r
  <2>6. CASE op' = [op EXCEPT ![o] = r]
    BY <2>4, <2>5, <2>6 DEF DiscoveryInv, OpInv, Sets
  <2>7. CASE op' = [op EXCEPT ![o] = [r EXCEPT !.faults = @ \cup {"string"}]]
    BY <2>4, <2>5, <2>7 DEF DiscoveryInv, OpInv, Sets, New
  <2> QED  BY <2>2, <2>3, <2>6, <2>7
<1> QED  BY <1>0, <1>1, Advances DEF ReadString, Claimed, Switching

\* The radio is switched on by who holds its interface.
LEMMA ConfigureKeeps ==
  ASSUME DiscoveryInv, NEW o \in Openers, Configure(o)
  PROVE  DiscoveryInv'
<1>0. /\ op[o].stage = "configure" /\ op[o].at \in Attachment /\ op[o].at \in active
      /\ UNCHANGED <<bus, plugs, active, holder>>
  BY DEF Configure, DiscoveryInv, OpInv, Located, Active, Claimed
<1>1. CASE /\ powered' = powered \cup {op[o].at} /\ Go(o, "configuring")
  <2>1. Sets(o, "configuring", op[o].at)
    BY <1>0, <1>1, Goes DEF DiscoveryInv, Stages, Claimed
  <2>2. OpInv'  BY <1>0, <2>1, OpKept DEF DiscoveryInv
  <2>3. HolderInv'
    <3>1. op[o].stage \in Claimed /\ "configuring" \in Claimed  BY <1>0 DEF Claimed
    <3> QED  BY <1>0, <2>1, <3>1, HolderKept DEF DiscoveryInv
  <2>4. PowerInv'
    <3>1. "configuring" \in Switching  BY DEF Switching
    <3> QED  BY <1>0, <1>1, <2>1, <3>1, PowerKept DEF DiscoveryInv
  <2>5. BusInv'  BY <1>0 DEF DiscoveryInv, BusInv, Attachment
  <2> QED  BY <2>2, <2>3, <2>4, <2>5 DEF DiscoveryInv
<1>2. CASE \E e : /\ op' = [op EXCEPT ![o].stage = "shutdown", ![o].result = e]
                  /\ UNCHANGED powered
  <2>1. Sets(o, "shutdown", op[o].at)
    BY <1>0, <1>2, Resulting DEF DiscoveryInv, Stages, Claimed
  <2> QED  BY <1>0, <1>2, <2>1, Advances DEF Claimed, Switching
<1> QED  BY <1>1, <1>2 DEF Configure

\* Ready, or to be shut down: in both cases still responsible.
LEMMA InitializeKeeps ==
  ASSUME DiscoveryInv, NEW o \in Openers, Initialize(o)
  PROVE  DiscoveryInv'
<1>0. /\ op[o].stage = "configuring" /\ op[o].at \in Attachment /\ op[o].at \in active
  BY DEF Initialize, DiscoveryInv, OpInv, Located, Active, Claimed
<1>1. \/ \E e : op' = [op EXCEPT ![o].stage = "ready", ![o].result = e]
      \/ \E e : op' = [op EXCEPT ![o].stage = "shutdown", ![o].result = e]
  BY DEF Initialize
<1>2. Sets(o, "ready", op[o].at) \/ Sets(o, "shutdown", op[o].at)
  BY <1>0, <1>1, Resulting DEF DiscoveryInv, Stages, Claimed
<1> QED  BY <1>0, <1>2, Advances DEF Initialize, Claimed, Switching

\* Steps after which o is done and its interface released.
LEMMA ReleasingKeeps ==
  ASSUME DiscoveryInv, NEW o \in Openers, Sets(o, "done", op[o].at), Releases(o),
         UNCHANGED <<bus, plugs, active>>,
         \/ powered' = powered \ {op[o].at}
         \/ powered' = powered /\ (op[o].stage \in Switching => "shutdown" \in op'[o].faults)
  PROVE  DiscoveryInv'
<1>0. "done" \notin Claimed /\ "done" \notin Located /\ "done" \notin Active
  BY DEF Claimed, Located, Active
<1>1. OpInv'  BY <1>0, OpKept DEF DiscoveryInv
<1>2. HolderInv'  BY <1>0, HolderKept DEF DiscoveryInv
<1>3. PowerInv'  BY PowerKept DEF DiscoveryInv
<1>4. BusInv'  BY DEF DiscoveryInv, BusInv, Attachment
<1> QED  BY <1>1, <1>2, <1>3, <1>4 DEF DiscoveryInv

\* Switched off and released, or left to the drop of the session.
LEMMA ShutdownKeeps ==
  ASSUME DiscoveryInv, NEW o \in Openers, Shutdown(o)
  PROVE  DiscoveryInv'
<1>0. /\ op[o].stage = "shutdown" /\ op[o].at \in Attachment /\ op[o].at \in active
  BY DEF Shutdown, DiscoveryInv, OpInv, Located, Active, Claimed
<1>1. CASE /\ Go(o, "done") /\ Releases(o) /\ powered' = powered \ {op[o].at}
  <2>1. Sets(o, "done", op[o].at)  BY <1>0, <1>1, Goes DEF DiscoveryInv, Stages
  <2> QED  BY <1>1, <2>1, ReleasingKeeps DEF Shutdown
<1>2. CASE Go(o, "cleanup") /\ UNCHANGED <<holder, powered>>
  <2>1. Sets(o, "cleanup", op[o].at)  BY <1>0, <1>2, Goes DEF DiscoveryInv, Stages, Claimed
  <2> QED  BY <1>0, <1>2, <2>1, Advances DEF Shutdown, Claimed, Switching
<1> QED  BY <1>1, <1>2 DEF Shutdown

\* Switched off, or the failure noted; released in any case.
LEMMA CleanupKeeps ==
  ASSUME DiscoveryInv, NEW o \in Openers, Cleanup(o)
  PROVE  DiscoveryInv'
<1>0. op[o].stage = "cleanup" /\ Releases(o)  BY DEF Cleanup
<1>1. CASE powered' = powered \ {op[o].at} /\ Go(o, "done")
  <2>1. Sets(o, "done", op[o].at)  BY <1>0, <1>1, Goes DEF DiscoveryInv, Stages
  <2> QED  BY <1>0, <1>1, <2>1, ReleasingKeeps DEF Cleanup
<1>2. CASE /\ UNCHANGED powered
           /\ op' = [op EXCEPT ![o].stage = "done", ![o].faults = @ \cup {"shutdown"}]
  <2>1. Sets(o, "done", op[o].at) /\ "shutdown" \in op'[o].faults
    BY <1>0, <1>2 DEF DiscoveryInv, OpInv, Sets, New, Stages
  <2> QED  BY <1>0, <1>2, <2>1, ReleasingKeeps DEF Cleanup
<1> QED  BY <1>1, <1>2 DEF Cleanup

\* A dropped future releases the interface, or goes on to the cleanup.
LEMMA DropKeeps ==
  ASSUME DiscoveryInv, NEW o \in Openers, Drop(o)
  PROVE  DiscoveryInv'
<1>0. /\ op[o].stage \in Opening \cup (Claimed \ {"cleanup"})
      /\ op' = [op EXCEPT ![o].stage = DropTo(op[o].stage), ![o].result = <<"Dropped">>]
      /\ op[o].stage # "done"
  BY DEF Drop, Opening, Claimed
<1>1. CASE op[o].stage \in Session
  <2>1. DropTo(op[o].stage) = "cleanup"  BY <1>1 DEF DropTo
  <2>2. Sets(o, "cleanup", op[o].at)
    BY <1>0, <2>1, Resulting DEF DiscoveryInv, Stages, Claimed
  <2>3. UNCHANGED holder  BY <2>1 DEF Drop
  <2>4. op[o].at \in Attachment /\ op[o].at \in active
    BY <1>1 DEF DiscoveryInv, OpInv, Located, Active, Claimed, Session
  <2> QED  BY <1>1, <2>2, <2>3, <2>4, Advances DEF Drop, Claimed, Switching, Session
<1>2. CASE op[o].stage \notin Session
  <2>1. DropTo(op[o].stage) = "done"  BY <1>2 DEF DropTo
  <2>2. Sets(o, "done", op[o].at)
    BY <1>0, <2>1, Resulting DEF DiscoveryInv, Stages
  <2>3. Releases(o)  BY <2>1 DEF Drop
  <2>4. op[o].stage \notin Switching
    BY <1>0, <1>2 DEF Switching, Session, Opening, Claimed
  <2> QED  BY <2>2, <2>3, <2>4, ReleasingKeeps DEF Drop
<1> QED  BY <1>1, <1>2

-----------------------------------------------------------------------------
(* The steps of the bus                                                     *)

\* Nobody has used an attachment before there was one.
LEMMA PlugKeeps ==
  ASSUME DiscoveryInv, NEW d \in Devices, Plug(d)
  PROVE  DiscoveryInv'
<1> DEFINE new == <<d, plugs + 1>>
<1>1. BusInv' /\ Range(bus') = Range(bus) \cup {new}  BY PlugBus DEF DiscoveryInv
<1>2. /\ plugs' = plugs + 1 /\ plugs \in Nat /\ active \subseteq active'
      /\ UNCHANGED <<holder, powered, op>>
  BY DEF Plug, DiscoveryInv, BusInv
<1>3. Attachment \subseteq Attachment' /\ new \notin Attachment
  BY <1>2 DEF Attachment
<1>4. OpInv'
  <2>1. (DOMAIN New)' = DOMAIN New  BY DEF New
  <2> QED  BY <1>2, <1>3, <2>1 DEF DiscoveryInv, OpInv
<1> HIDE DEF new
<1>5. HolderInv'
  <2>1. ASSUME NEW o \in Openers, op[o].stage \in Claimed
        PROVE  op[o].at \in Range(bus') <=> op[o].at \in Range(bus)
    BY <1>1, <1>3, <2>1 DEF DiscoveryInv, OpInv, Located
  <2>2. op' = op /\ holder' = holder  BY <1>2
  <2> QED  BY <2>1, <2>2 DEF DiscoveryInv, HolderInv, Live, Dev
<1>6. PowerInv'
  <2>1. powered \cap Range(bus') = powered \cap Range(bus)
    BY <1>1, <1>3 DEF DiscoveryInv, PowerInv
  <2> QED  BY <1>2, <1>3, <2>1 DEF DiscoveryInv, PowerInv
<1> QED  BY <1>1, <1>4, <1>5, <1>6 DEF DiscoveryInv

\* Who held the device holds nothing any more, and nobody else is concerned.
LEMMA UnplugKeeps ==
  ASSUME DiscoveryInv, NEW d \in Devices, Unplug(d)
  PROVE  DiscoveryInv'
<1>1. BusInv' /\ Range(bus') = {at \in Range(bus) : at[1] # d}
  BY UnplugBus DEF DiscoveryInv
<1>2. /\ plugs' = plugs + 1 /\ plugs \in Nat /\ holder' = [holder EXCEPT ![d] = None]
      /\ UNCHANGED <<active, powered, op>>
  BY DEF Unplug, DiscoveryInv, BusInv
<1>3. Attachment \subseteq Attachment'  BY <1>2 DEF Attachment
<1>4. OpInv'
  <2>1. (DOMAIN New)' = DOMAIN New  BY DEF New
  <2> QED  BY <1>2, <1>3, <2>1 DEF DiscoveryInv, OpInv
<1>5. HolderInv'
  <2>1. holder \in [Devices -> Openers \cup {None}]  BY DEF DiscoveryInv, HolderInv
  <2>2. holder' \in [Devices -> Openers \cup {None}]  BY <1>2, <2>1
  <2>3. ASSUME NEW o \in Openers, NEW e \in Devices
        PROVE  holder'[e] = o <=>
                 op'[o].stage \in Claimed /\ op'[o].at \in Range(bus') /\ op'[o].at[1] = e
    <3>1. holder[e] = o <=> op[o].stage \in Claimed /\ op[o].at \in Range(bus) /\ op[o].at[1] = e
      BY DEF DiscoveryInv, HolderInv, Live, Dev
    <3>2. CASE e = d  BY <1>1, <1>2, <2>1, <3>2, DiscoveryAssumption
    <3>3. CASE e # d  BY <1>1, <1>2, <2>1, <3>1, <3>3
    <3> QED  BY <3>2, <3>3
  <2> QED  BY <2>2, <2>3 DEF HolderInv, Live, Dev
<1>6. PowerInv'  BY <1>1, <1>2, <1>3 DEF DiscoveryInv, PowerInv
<1> QED  BY <1>1, <1>4, <1>5, <1>6 DEF DiscoveryInv

-----------------------------------------------------------------------------
(* The theorems                                                             *)

\* Nothing is claimed or on when the first builder is made.
LEMMA InitHolds == Init => DiscoveryInv
<1> SUFFICES ASSUME Init PROVE DiscoveryInv  OBVIOUS
<1> DEFINE n == Cardinality(Devices)
<1>1. n \in Nat  BY DiscoveryAssumption, FS_CardinalityType
<1>2. PICK ds \in [1..n -> Devices] :
        /\ \A i, j \in 1..n : i # j => ds[i] # ds[j]
        /\ bus = [i \in DOMAIN ds |-> <<ds[i], 0>>]
  BY DEF Init, SetToSeqs
<1> HIDE DEF n
<1>3. bus = [i \in 1..n |-> <<ds[i], 0>>]  BY <1>2
<1>4. plugs = 0 /\ powered = {} /\ holder = [d \in Devices |-> None]
      /\ op = [o \in Openers |-> New]
  BY DEF Init
<1>5. BusInv
  <2>1. \A i \in 1..n : <<ds[i], 0>> \in Attachment  BY <1>2, <1>4 DEF Attachment
  <2>2. bus \in Seq(Attachment)  BY <1>1, <1>3, <2>1, IsASeq
  <2>3. Len(bus) = n  BY <1>1, <1>3, <2>2, LenProperties
  <2> QED  BY <1>2, <1>3, <1>4, <2>2, <2>3 DEF BusInv
<1>6. OpInv  BY <1>4 DEF OpInv, New, Stages, Located, Active, Claimed, Opening
<1>7. HolderInv
  BY <1>4, DiscoveryAssumption DEF HolderInv, New, Claimed
<1>8. PowerInv  BY <1>4 DEF PowerInv
<1> QED  BY <1>5, <1>6, <1>7, <1>8 DEF DiscoveryInv

\* Every step keeps the invariant.
LEMMA NextKeeps == DiscoveryInv /\ [Next]_vars => DiscoveryInv'
<1> SUFFICES ASSUME DiscoveryInv, [Next]_vars PROVE DiscoveryInv'  OBVIOUS
<1>1. CASE UNCHANGED vars
  BY <1>1 DEF vars, DiscoveryInv, OpInv, BusInv, HolderInv, PowerInv, Attachment, Live, Dev, New
<1>2. ASSUME NEW o \in Openers, Step(o)  PROVE DiscoveryInv'
  BY <1>2, ListDevicesKeeps, OpenDeviceKeeps, SelectConfigurationKeeps, ClaimKeeps,
     ReadLanguageKeeps, ReadStringKeeps, ConfigureKeeps, InitializeKeeps, ShutdownKeeps,
     CleanupKeeps
     DEF Step
<1>3. CASE Next
  BY <1>2, <1>3, OpenBeginKeeps, RequestPermissionKeeps, DropKeeps, ChooseKeeps, PlugKeeps,
     UnplugKeeps
     DEF Next
<1> QED  BY <1>1, <1>3

\* So it always holds.
LEMMA InvariantHolds == Spec => []DiscoveryInv
BY InitHolds, NextKeeps, PTL DEF Spec

\* The interface is held from the claim to the release by the opener that is
\* there, and by nobody else (NusbTransport::open).
THEOREM OwnershipSafe == Spec => []Ownership
<1>1. DiscoveryInv => Ownership
  BY DEF DiscoveryInv, OpInv, HolderInv, Ownership, Active
<1> QED  BY <1>1, InvariantHolds, PTL

\* Wherever an open ends or is dropped, the receiver it switched on is off, is
\* about to be shut down by who holds the device, or its shutdown has failed.
THEOREM PoweredSafe == Spec => []PoweredIsOwned
<1>1. DiscoveryInv => PoweredIsOwned
  <2> SUFFICES ASSUME DiscoveryInv, NEW at \in powered \cap Range(bus)
               PROVE  \E o \in Openers : op[o].at = at /\ (holder[at[1]] = o \/ "shutdown" \in op[o].faults)
    BY DEF PoweredIsOwned
  <2>1. PICK o \in Openers : /\ op[o].at = at
                             /\ op[o].stage \in Switching \/ "shutdown" \in op[o].faults
    BY DEF DiscoveryInv, PowerInv
  <2>2. at[1] \in Devices  BY DEF DiscoveryInv, PowerInv, Attachment
  <2>3. op[o].stage \in Switching => op[o].stage \in Claimed  BY DEF Switching, Claimed
  <2> QED  BY <2>1, <2>2, <2>3 DEF DiscoveryInv, HolderInv, Live, Dev
<1> QED  BY <1>1, InvariantHolds, PTL

\* A call to the system that fails is reported with its cause, whatever else
\* happens on the bus, and no other step reports one for it.
THEOREM KindSafe == Spec => KindTellsCause
<1>1. ASSUME OpInv, NEW o \in Openers, NEW busy \in BOOLEAN, NEW e \in UsbErrors(o, busy),
             Fail(o, At(<<"Usb", e>>))
      PROVE  Kind(op'[o].result) \in (IF ~Live(o) THEN {"DeviceDisconnected"}
                                      ELSE IF busy THEN {"Busy"} ELSE {"NotFound", "Unsupported", "Usb"})
  <2>1. op'[o].result = <<"Operation", <<"Usb", e>>>>  BY <1>1 DEF OpInv, New, Fail, At
  <2>2. Kind(op'[o].result) = Category(<<"Usb", e>>)  BY <2>1 DEF Kind
  <2> QED  BY <1>1, <2>2 DEF UsbErrors, UsbFaults, Category
<1>2. ASSUME OpInv, NEW o \in Openers, NEW stage, Go(o, stage)
      PROVE  op'[o].result = op[o].result
  BY <1>2 DEF OpInv, New, Go
<1>3. ASSUME OpInv, NEW o \in Openers, Step(o) \/ OpenBegin(o) \/ RequestPermission(o) \/ Drop(o)
                                       \/ \E choice \in Calls : Choose(o, choice)
      PROVE  CauseTold(o)
  <2> SUFFICES ASSUME op[o].result # op'[o].result, op[o].stage \in Opening \ {"list"},
                      op'[o].result # <<"Dropped">>
               PROVE  Kind(op'[o].result) \in
                        (IF ~Live(o) THEN {"DeviceDisconnected"}
                         ELSE IF Taken(o) /\ op[o].stage # "open" THEN {"Busy"}
                         ELSE {"NotFound", "Unsupported", "Usb"})
    BY DEF CauseTold
  <2>1. CASE OpenDevice(o)
    <3>1. op[o].stage = "open"  BY <2>1 DEF OpenDevice
    <3> QED  BY <2>1, <3>1, <1>1, <1>2, <1>3 DEF OpenDevice
  <2>2. CASE SelectConfiguration(o)
    <3>1. op[o].stage = "configuration" /\ Taken(o) \in BOOLEAN
      BY <2>2 DEF SelectConfiguration, Taken
    <3> QED  BY <2>2, <3>1, <1>1, <1>2, <1>3 DEF SelectConfiguration
  <2>3. CASE Claim(o)
    <3>1. op[o].stage = "claim" /\ Taken(o) \in BOOLEAN  BY <2>3 DEF Claim, Taken
    <3> QED  BY <2>3, <3>1, <1>1, <1>2, <1>3 DEF Claim
  <2>4. CASE Drop(o)  BY <2>4, <1>3 DEF Drop, OpInv, New
  <2> QED
    BY <1>3, <2>1, <2>2, <2>3, <2>4
       DEF Step, OpenBegin, RequestPermission, Choose, ListDevices, ReadLanguage, ReadString,
           Configure, Initialize, Shutdown, Cleanup, Opening
<1>4. ASSUME OpInv, NEW q \in Openers, NEW o \in Openers, o # q,
             Step(q) \/ OpenBegin(q) \/ RequestPermission(q) \/ Drop(q)
               \/ \E choice \in Calls : Choose(q, choice)
      PROVE  op'[o] = op[o]
  BY <1>4 DEF OpInv, Step, OpenBegin, RequestPermission, Drop, Choose, ListDevices, OpenDevice,
     SelectConfiguration, Claim, ReadLanguage, ReadString, Configure, Initialize, Shutdown,
     Cleanup, Go, Fail
<1>5. DiscoveryInv /\ [Next]_vars => [\A o \in Openers : CauseTold(o)]_vars
  <2> SUFFICES ASSUME DiscoveryInv, [Next]_vars, NEW o \in Openers
               PROVE  CauseTold(o) \/ UNCHANGED vars
    OBVIOUS
  <2>1. OpInv  BY DEF DiscoveryInv
  <2>2. CASE \E d \in Devices : Plug(d) \/ Unplug(d)  BY <2>2 DEF Plug, Unplug, CauseTold
  <2>3. ASSUME NEW q \in Openers, Step(q) \/ OpenBegin(q) \/ RequestPermission(q) \/ Drop(q)
                                    \/ \E choice \in Calls : Choose(q, choice)
        PROVE  CauseTold(o)
    <3>1. CASE q = o  BY <1>3, <2>1, <2>3, <3>1
    <3>2. CASE q # o
      <4>1. op'[o] = op[o]  BY <1>4, <2>1, <2>3, <3>2
      <4> QED  BY <4>1 DEF CauseTold
    <3> QED  BY <3>1, <3>2
  <2> QED  BY <2>2, <2>3 DEF Next
<1> QED  BY <1>5, InvariantHolds, PTL DEF KindTellsCause, Spec

-----------------------------------------------------------------------------
(* The strings of a device                                                  *)

Strings == {"serial", "manufacturer", "product"}

\* The stages at which a string has been read.
After(string) ==
  IF string = "manufacturer" THEN {"product"} \cup Session
  ELSE IF string = "product" THEN Session ELSE {}

\* A string is the device's, or absent: not read yet, or not readable.
True(o, string) ==
  \/ op[o].descriptor[string] = Traits[Dev(o)][string]
  \/ /\ op[o].descriptor[string] = None
     /\ op[o].stage \in After(string) => "string" \in op[o].faults

StringInv ==
  \A o \in Openers :
    /\ DOMAIN op[o].descriptor = DOMAIN Nothing
    /\ op[o].at # None \/ op[o].stage \in Located => \A string \in Strings : True(o, string)

\* Who has passed the check, and who has been refused by it.
HfInv ==
  \A o \in Openers :
    /\ op[o].stage \in {"building", "list"} => op[o].result = <<"Pending">>
    /\ o \in Hf /\ op[o].stage \in {"configuring", "ready"} => BlogV4(op[o].descriptor)
    /\ op[o].result = <<"InvalidConfig">> => ~IsV4(Dev(o)) \/ "string" \in op[o].faults

DescriptorInv == OpInv /\ StringInv /\ HfInv

\* A step of o that leaves the descriptor alone.
LEMMA Untouched ==
  ASSUME DescriptorInv, NEW o \in Openers, NEW stage, Sets(o, stage, op[o].at),
         op'[o].descriptor = op[o].descriptor, op[o].faults \subseteq op'[o].faults,
         \A string \in Strings : stage \in After(string) => op[o].stage \in After(string),
         stage \in Located => op[o].stage \in Located,
         stage \in {"building", "list"} => op'[o].result = <<"Pending">>,
         o \in Hf /\ stage \in {"configuring", "ready"} => BlogV4(op[o].descriptor),
         op'[o].result = <<"InvalidConfig">> =>
           op[o].result = <<"InvalidConfig">> \/ ~IsV4(Dev(o)) \/ "string" \in op'[o].faults
  PROVE  StringInv' /\ HfInv'
<1>0. op'[o].stage = stage /\ op'[o].at = op[o].at  BY DEF Sets
<1>1. ASSUME NEW p \in Openers, p # o  PROVE op'[p] = op[p]  BY <1>1 DEF Sets
<1>2. ASSUME NEW p \in Openers
      PROVE  /\ DOMAIN op'[p].descriptor = DOMAIN Nothing
             /\ op'[p].at # None \/ op'[p].stage \in Located =>
                  \A string \in Strings :
                    \/ op'[p].descriptor[string] = Traits[op'[p].at[1]][string]
                    \/ /\ op'[p].descriptor[string] = None
                       /\ op'[p].stage \in After(string) => "string" \in op'[p].faults
  <2>1. CASE p = o
    BY <1>0, <2>1 DEF DescriptorInv, StringInv, True, Dev
  <2>2. CASE p # o
    BY <1>1, <2>2 DEF DescriptorInv, StringInv, True, Dev
  <2> QED  BY <2>1, <2>2
<1>3. StringInv'
  <2>1. (DOMAIN Nothing)' = DOMAIN Nothing  BY DEF Nothing
  <2> QED  BY <1>2, <2>1 DEF StringInv, True, Dev
<1>4. HfInv'
  <2> SUFFICES ASSUME NEW p \in Openers
               PROVE
                 /\ op'[p].stage \in {"building", "list"} => op'[p].result = <<"Pending">>
                 /\ p \in Hf /\ op'[p].stage \in {"configuring", "ready"} => BlogV4(op'[p].descriptor)
                 /\ op'[p].result = <<"InvalidConfig">> =>
                      ~IsV4(op'[p].at[1]) \/ "string" \in op'[p].faults
    BY DEF HfInv, Dev
  <2>1. CASE p = o
    <3>1. op[o].result = <<"InvalidConfig">> => ~IsV4(op[o].at[1]) \/ "string" \in op[o].faults
      BY DEF DescriptorInv, HfInv, Dev
    <3> QED  BY <1>0, <2>1, <3>1 DEF Dev
  <2>2. CASE p # o
    BY <1>1, <2>2 DEF DescriptorInv, HfInv, Dev
  <2> QED  BY <2>1, <2>2
<1> QED  BY <1>3, <1>4

\* A step of o that changes its stage, and perhaps its result.
LEMMA Moves ==
  ASSUME DescriptorInv, NEW o \in Openers, NEW stage \in Stages,
         \/ Go(o, stage)
         \/ \E e : /\ op' = [op EXCEPT ![o].stage = stage, ![o].result = e]
                   /\ e # <<"InvalidConfig">> \/ ~IsV4(Dev(o)) \/ "string" \in op[o].faults,
         op[o].stage # "done",
         \A string \in Strings : stage \in After(string) => op[o].stage \in After(string),
         stage \in Located => op[o].stage \in Located,
         stage \notin {"building", "list"} \/ (Go(o, stage) /\ op[o].stage \in {"building", "list"}),
         o \in Hf /\ stage \in {"configuring", "ready"} => BlogV4(op[o].descriptor)
  PROVE  StringInv' /\ HfInv'
<1>1. Sets(o, stage, op[o].at)  BY Goes, Resulting DEF DescriptorInv
<1>2. /\ op'[o].descriptor = op[o].descriptor /\ op'[o].faults = op[o].faults
      /\ Go(o, stage) => op'[o].result = op[o].result
      /\ op'[o].result = <<"InvalidConfig">> =>
           op[o].result = <<"InvalidConfig">> \/ ~IsV4(Dev(o)) \/ "string" \in op'[o].faults
  BY DEF DescriptorInv, OpInv, New, Go
<1>3. stage \in {"building", "list"} => op'[o].result = <<"Pending">>
  BY <1>2 DEF DescriptorInv, HfInv
<1> QED  BY <1>1, <1>2, <1>3, Untouched

\* Nothing is required of the strings at the other stages.
LEMMA OutsideAfter ==
  ASSUME NEW stage, stage \notin {"product"} \cup Session
  PROVE  \A string \in Strings : stage \notin After(string)
BY DEF After, Strings

\* What was found comes with what the system lists of it.
LEMMA ListDevicesTrue ==
  ASSUME DescriptorInv, BusInv, NEW o \in Openers, ListDevices(o)
  PROVE  StringInv' /\ HfInv'
<1>0. op[o].stage = "list" /\ op[o].result = <<"Pending">>
  BY DEF ListDevices, DescriptorInv, HfInv
<1> DEFINE seen == Candidates(op[o].selector)
<1> DEFINE Failed == \E e \in UsbFaults : Fail(o, <<"Usb", e>>)
<1>f. CASE Failed
  <2>1. PICK e \in UsbFaults : Fail(o, <<"Usb", e>>)  BY <1>f
  <2>2. "done" \in Stages \ ({"product"} \cup Session) /\ "done" \notin Located
    BY DEF Stages, Session, Located, Claimed
  <2>3. <<"Usb", e>> # <<"InvalidConfig">>  OBVIOUS
  <2> QED  BY <1>0, <2>1, <2>2, <2>3, OutsideAfter, Moves DEF Fail
<1>1. CASE ~Failed /\ Select(op[o].selector) = {}
  <2>1. op' = [op EXCEPT ![o].stage = "done", ![o].result = <<"DeviceNotFound">>, ![o].seen = seen]
    BY <1>1 DEF ListDevices
  <2> HIDE DEF seen
  <2>2. /\ Sets(o, "done", op[o].at)
        /\ op'[o].descriptor = op[o].descriptor /\ op'[o].faults = op[o].faults
        /\ op'[o].result = <<"DeviceNotFound">>
    BY <1>0, <2>1 DEF DescriptorInv, OpInv, Sets, New, Stages
  <2>3. "done" \notin {"product"} \cup Session /\ "done" \notin Located
    BY DEF Session, Located, Claimed
  <2> QED  BY <2>2, <2>3, OutsideAfter, Untouched
<1>2. CASE ~Failed /\ Select(op[o].selector) # {}
  <2>1. PICK hit \in Select(op[o].selector) :
          op' = [op EXCEPT ![o].stage = "open", ![o].at = hit[1], ![o].descriptor = hit[2],
                           ![o].seen = seen]
    BY <1>2 DEF ListDevices
  <2>2. PICK i \in DOMAIN bus : hit = Entry(op[o].selector, i)  BY DEF Select, Places
  <2> DEFINE at == hit[1]
             descriptor == hit[2]
             index == Index(op[o].selector, i)
  <2>3. at = bus[i] /\ descriptor = FromNusb(index, at)  BY <2>2 DEF Entry
  <2>4. op' = [op EXCEPT ![o].stage = "open", ![o].at = at, ![o].descriptor = descriptor,
                         ![o].seen = seen]
    BY <2>1
  <2> HIDE DEF seen, at, descriptor, index
  <2>5. /\ op'[o].stage = "open" /\ op'[o].at = at /\ op'[o].descriptor = descriptor
        /\ op'[o].result = op[o].result
        /\ \A p \in Openers \ {o} : op'[p] = op[p]
    BY <2>4 DEF DescriptorInv, OpInv, New
  <2>6. ASSUME NEW string \in Strings
        PROVE  \/ descriptor[string] = Traits[at[1]][string]
               \/ descriptor[string] = None
    BY <2>3 DEF FromNusb, Listed, Strings
  <2>7. DOMAIN descriptor = DOMAIN Nothing  BY <2>3 DEF FromNusb, Nothing
  <2>8. "open" \notin {"product"} \cup Session  BY DEF Session
  <2>9. StringInv'
    <3>1. (DOMAIN Nothing)' = DOMAIN Nothing  BY DEF Nothing
    <3> SUFFICES ASSUME NEW p \in Openers
                 PROVE
                   /\ DOMAIN op'[p].descriptor = DOMAIN Nothing
                   /\ op'[p].at # None \/ op'[p].stage \in Located =>
                        \A string \in Strings :
                          \/ op'[p].descriptor[string] = Traits[op'[p].at[1]][string]
                          \/ /\ op'[p].descriptor[string] = None
                             /\ op'[p].stage \in After(string) => "string" \in op'[p].faults
      BY <3>1 DEF StringInv, True, Dev
    <3>2. CASE p = o  BY <2>5, <2>6, <2>7, <2>8, <3>2, OutsideAfter
    <3>3. CASE p # o  BY <2>5, <3>3 DEF DescriptorInv, StringInv, True, Dev
    <3> QED  BY <3>2, <3>3
  <2>10. HfInv'
    <3> SUFFICES ASSUME NEW p \in Openers
                 PROVE
                   /\ op'[p].stage \in {"building", "list"} => op'[p].result = <<"Pending">>
                   /\ p \in Hf /\ op'[p].stage \in {"configuring", "ready"} => BlogV4(op'[p].descriptor)
                   /\ op'[p].result = <<"InvalidConfig">> =>
                        ~IsV4(op'[p].at[1]) \/ "string" \in op'[p].faults
      BY DEF HfInv, Dev
    <3>1. CASE p = o  BY <1>0, <2>5, <3>1
    <3>2. CASE p # o  BY <2>5, <3>2 DEF DescriptorInv, HfInv, Dev
    <3> QED  BY <3>1, <3>2
  <2> QED  BY <2>9, <2>10
<1> QED  BY <1>f, <1>1, <1>2

\* What was listed stays, what was missing is read or its failure noted.
LEMMA ReadStringTrue ==
  ASSUME DescriptorInv, NEW o \in Openers, NEW string, NEW next,
         \/ string = "manufacturer" /\ next = "product"
         \/ string = "product" /\ next = "configure",
         ReadString(o, string, next)
  PROVE  StringInv' /\ HfInv'
<1> DEFINE Has(value) == [op[o] EXCEPT !.stage = next, !.descriptor[string] = Kept(@, value)]
<1>0. /\ op[o].stage = string /\ string \in Located /\ string \in Strings
      /\ next \notin {"building", "list", "configuring", "ready"}
      /\ \A other \in Strings \ {string} : next \in After(other) => string \in After(other)
  BY DEF ReadString, Located, Claimed, Strings, After, Session
<1>1. \A other \in Strings : True(o, other)
  BY <1>0 DEF DescriptorInv, StringInv
<1>2. PICK value, faults :
        /\ op' = [op EXCEPT ![o] = [Has(value) EXCEPT !.faults = faults]]
        /\ op[o].faults \subseteq faults
        /\ \/ ~Missing(o, string) /\ value = None
           \/ value = Traits[Dev(o)][string]
           \/ value = None /\ "string" \in faults
  <2> DEFINE With(value, faults) == op' = [op EXCEPT ![o] = [Has(value) EXCEPT !.faults = faults]]
  <2>1. \A value : [Has(value) EXCEPT !.faults = op[o].faults] = Has(value)
    OBVIOUS
  <2>2. \A value : Has(value).faults = op[o].faults
    BY DEF DescriptorInv, OpInv, New
  <2>3. CASE ~Missing(o, string) /\ op' = [op EXCEPT ![o] = Has(None)]
    BY <2>1, <2>3
  <2>4. CASE op' = [op EXCEPT ![o] = Has(Traits[Dev(o)][string])]
    BY <2>1, <2>4
  <2>5. CASE op' = [op EXCEPT ![o] = [Has(None) EXCEPT !.faults = @ \cup {"string"}]]
    <3>1. With(None, op[o].faults \cup {"string"})  BY <2>2, <2>5
    <3> QED  BY <3>1
  <2> QED  BY <2>3, <2>4, <2>5 DEF ReadString
<1> DEFINE descriptor == [op[o].descriptor EXCEPT ![string] = Kept(op[o].descriptor[string], value)]
<1>3. op' = [op EXCEPT ![o] = [op[o] EXCEPT !.stage = next, !.descriptor = descriptor,
                                            !.faults = faults]]
  BY <1>2
<1>4. DOMAIN descriptor = DOMAIN Nothing /\ string \in DOMAIN Nothing
  BY <1>0 DEF DescriptorInv, StringInv, Nothing, Strings
<1>5. /\ descriptor[string] = Kept(op[o].descriptor[string], value)
      /\ \A other \in Strings \ {string} : descriptor[other] = op[o].descriptor[other]
  BY <1>4 DEF DescriptorInv, StringInv, Nothing, Strings
<1> HIDE DEF descriptor, Has
<1>6. /\ op'[o].stage = next /\ op'[o].at = op[o].at /\ op'[o].descriptor = descriptor
      /\ op'[o].faults = faults /\ op'[o].result = op[o].result
      /\ \A p \in Openers \ {o} : op'[p] = op[p]
  BY <1>3 DEF DescriptorInv, OpInv, New
<1>7. ASSUME NEW other \in Strings
      PROVE  \/ descriptor[other] = Traits[op[o].at[1]][other]
             \/ /\ descriptor[other] = None
                /\ next \in After(other) => "string" \in faults
  <2>1. CASE other = string
    BY <1>1, <1>2, <1>5, <2>1 DEF True, Kept, Missing, Dev
  <2>2. CASE other # string
    BY <1>0, <1>1, <1>2, <1>5, <2>2 DEF True, Dev
  <2> QED  BY <2>1, <2>2
<1>8. StringInv'
  <2>1. (DOMAIN Nothing)' = DOMAIN Nothing  BY DEF Nothing
  <2> SUFFICES ASSUME NEW p \in Openers
               PROVE
                 /\ DOMAIN op'[p].descriptor = DOMAIN Nothing
                 /\ op'[p].at # None \/ op'[p].stage \in Located =>
                      \A other \in Strings :
                        \/ op'[p].descriptor[other] = Traits[op'[p].at[1]][other]
                        \/ /\ op'[p].descriptor[other] = None
                           /\ op'[p].stage \in After(other) => "string" \in op'[p].faults
    BY <2>1 DEF StringInv, True, Dev
  <2>2. CASE p = o  BY <1>4, <1>6, <1>7, <2>2
  <2>3. CASE p # o  BY <1>6, <2>3 DEF DescriptorInv, StringInv, True, Dev
  <2> QED  BY <2>2, <2>3
<1>9. HfInv'
  <2> SUFFICES ASSUME NEW p \in Openers
               PROVE
                 /\ op'[p].stage \in {"building", "list"} => op'[p].result = <<"Pending">>
                 /\ p \in Hf /\ op'[p].stage \in {"configuring", "ready"} => BlogV4(op'[p].descriptor)
                 /\ op'[p].result = <<"InvalidConfig">> =>
                      ~IsV4(op'[p].at[1]) \/ "string" \in op'[p].faults
    BY DEF HfInv, Dev
  <2>1. CASE p = o
    <3>1. op[o].result = <<"InvalidConfig">> => ~IsV4(op[o].at[1]) \/ "string" \in op[o].faults
      BY DEF DescriptorInv, HfInv, Dev
    <3> QED  BY <1>0, <1>2, <1>6, <2>1, <3>1
  <2>2. CASE p # o  BY <1>6, <2>2 DEF DescriptorInv, HfInv, Dev
  <2> QED  BY <2>1, <2>2
<1> QED  BY <1>8, <1>9

\* A board that is refused is no Blog V4, or one of its strings was not read.
LEMMA RefusedIsOther ==
  ASSUME DescriptorInv, NEW o \in Openers, op[o].stage = "configure", ~BlogV4(op[o].descriptor)
  PROVE  ~IsV4(Dev(o)) \/ "string" \in op[o].faults
<1>1. True(o, "manufacturer") /\ True(o, "product")
  BY DEF DescriptorInv, StringInv, Located, Claimed, Strings
<1>2. "configure" \in After("manufacturer") /\ "configure" \in After("product")
  BY DEF After, Session
<1> QED  BY <1>1, <1>2 DEF True, BlogV4, IsV4, Dev

\* A board that passes is one.
LEMMA PassedIsV4 ==
  ASSUME DescriptorInv, NEW o \in Openers, op[o].stage \in Located, BlogV4(op[o].descriptor)
  PROVE  IsV4(Dev(o))
<1>1. True(o, "manufacturer") /\ True(o, "product")
  BY DEF DescriptorInv, StringInv, Strings
<1> QED  BY <1>1, DiscoveryAssumption DEF True, BlogV4, IsV4

\* Every step of an opener keeps both parts.
LEMMA StepTrue ==
  ASSUME DescriptorInv, BusInv, NEW o \in Openers,
         Step(o) \/ OpenBegin(o) \/ RequestPermission(o) \/ Drop(o) \/ \E choice \in Calls : Choose(o, choice)
  PROVE  StringInv' /\ HfInv'
<1>0. /\ \A stage \in Stages \ ({"product"} \cup Session), string \in Strings : stage \notin After(string)
      /\ \A s, t \in Session, string \in Strings : s \in After(string) => t \in After(string)
  BY DEF After, Strings
<1>1. CASE RequestPermission(o) \/ \E choice \in Calls : Choose(o, choice)
  <2> DEFINE Same == /\ Sets(o, "building", op[o].at)
                     /\ op'[o].descriptor = op[o].descriptor /\ op'[o].faults = op[o].faults
                     /\ op'[o].result = op[o].result /\ op[o].stage = "building"
  <2>1. ASSUME RequestPermission(o)  PROVE Same
    BY <2>1 DEF RequestPermission, DescriptorInv, OpInv, Sets, New, Stages
  <2>2. ASSUME NEW choice \in Calls, Choose(o, choice)  PROVE Same
    <3>1. PICK calls, selector, asked :
            op' = [op EXCEPT ![o].calls = calls, ![o].selector = selector, ![o].asked = asked,
                             ![o].permitted = None]
      BY <2>2 DEF Choose
    <3>2. op[o].stage = "building"  BY <2>2 DEF Choose
    <3> QED  BY <3>1, <3>2 DEF DescriptorInv, OpInv, Sets, New, Stages
  <2>3. Same  BY <1>1, <2>1, <2>2
  <2>4. op'[o].result = <<"Pending">>  BY <2>3 DEF DescriptorInv, HfInv
  <2>5. "building" \in Stages \ ({"product"} \cup Session) /\ "building" \notin Located
    BY DEF Stages, Session, Located, Claimed
  <2> QED  BY <1>0, <2>3, <2>4, <2>5, Untouched
<1>2. CASE OpenBegin(o)
  <2>1. "list" \in Stages \ ({"product"} \cup Session) /\ "list" \notin Located
    BY DEF Stages, Opening, Session, Located, Claimed
  <2> QED  BY <1>0, <1>2, <2>1, Moves DEF OpenBegin
<1>3. CASE ListDevices(o)  BY <1>3, ListDevicesTrue
<1>4. ASSUME NEW e, Fail(o, At(e)), op[o].stage # "done"  PROVE StringInv' /\ HfInv'
  <2>1. "done" \in Stages \ ({"product"} \cup Session) /\ "done" \notin Located
    BY DEF Stages, Session, Located, Claimed
  <2>2. At(e) # <<"InvalidConfig">>  BY DEF At
  <2> QED  BY <1>0, <1>4, <2>1, <2>2, Moves DEF Fail
<1>5. CASE OpenDevice(o) \/ SelectConfiguration(o) \/ Claim(o)
  <2>0. op[o].stage \in {"open", "configuration", "claim"}
    BY <1>5 DEF OpenDevice, SelectConfiguration, Claim
  <2>1. CASE \E stage \in {"configuration", "claim", "language"} : Go(o, stage)
    <3>1. PICK stage \in {"configuration", "claim", "language"} : Go(o, stage)  BY <2>1
    <3>2. stage \in Stages \ ({"product"} \cup Session)
      BY DEF Stages, Opening, Claimed, Session
    <3>3. op[o].stage \in Located  BY <2>0 DEF Located
    <3> QED  BY <1>0, <2>0, <3>1, <3>2, <3>3, Moves
  <2>2. CASE \E e : Fail(o, At(e))  BY <1>4, <2>0, <2>2
  <2> QED  BY <1>5, <2>1, <2>2 DEF OpenDevice, SelectConfiguration, Claim
<1>6. CASE ReadLanguage(o)
  <2>1. op[o].stage = "language" /\ op[o].stage \in Located
    BY <1>6 DEF ReadLanguage, Located, Claimed
  <2>2. /\ Sets(o, "manufacturer", op[o].at)
        /\ op'[o].descriptor = op[o].descriptor /\ op[o].faults \subseteq op'[o].faults
        /\ op'[o].result = op[o].result
    BY <1>6, <2>1 DEF ReadLanguage, Go, DescriptorInv, OpInv, Sets, New, Stages, Claimed
  <2>3. "manufacturer" \in Stages \ ({"product"} \cup Session)
    BY DEF Stages, Claimed, Session
  <2> QED  BY <1>0, <2>1, <2>2, <2>3, Untouched
<1>7. CASE ReadString(o, "manufacturer", "product") \/ ReadString(o, "product", "configure")
  BY <1>7, ReadStringTrue
<1>8. CASE Configure(o)
  <2>0. op[o].stage = "configure" /\ op[o].stage \in Session /\ op[o].stage \in Located
    BY <1>8 DEF Configure, Session, Located, Claimed
  <2>1. CASE Go(o, "configuring") /\ ~(o \in Hf /\ ~BlogV4(op[o].descriptor))
    <3>1. "configuring" \in Stages /\ "configuring" \in Session
      BY DEF Stages, Claimed, Session
    <3>2. \A string \in Strings : "configuring" \in After(string) => op[o].stage \in After(string)
      BY <1>0, <2>0, <3>1
    <3> QED  BY <2>0, <2>1, <3>1, <3>2, Moves
  <2>2. CASE \E e : /\ op' = [op EXCEPT ![o].stage = "shutdown", ![o].result = e]
                    /\ e # <<"InvalidConfig">> \/ ~BlogV4(op[o].descriptor)
    <3>1. "shutdown" \in Stages /\ "shutdown" \in Session
      BY DEF Stages, Claimed, Session
    <3>2. \A string \in Strings : "shutdown" \in After(string) => op[o].stage \in After(string)
      BY <1>0, <2>0, <3>1
    <3>3. \E e : /\ op' = [op EXCEPT ![o].stage = "shutdown", ![o].result = e]
                 /\ e # <<"InvalidConfig">> \/ ~IsV4(Dev(o)) \/ "string" \in op[o].faults
      BY <2>0, <2>2, RefusedIsOther
    <3> QED  BY <2>0, <3>1, <3>2, <3>3, Moves
  <2> QED  BY <1>8, <2>1, <2>2 DEF Configure
<1>9. CASE Initialize(o)
  <2>0. op[o].stage = "configuring" /\ op[o].stage \in Session /\ op[o].stage \in Located
    BY <1>9 DEF Initialize, Session, Located, Claimed
  <2>1. \/ op' = [op EXCEPT ![o].stage = "ready", ![o].result = <<"Ok">>]
        \/ \E e : op' = [op EXCEPT ![o].stage = "shutdown", ![o].result = <<"Transfer", e>>]
    BY <1>9 DEF Initialize
  <2>2. {"ready", "shutdown"} \subseteq Stages \cap Session  BY DEF Stages, Claimed, Session
  <2>3. o \in Hf => BlogV4(op[o].descriptor)  BY <2>0 DEF DescriptorInv, HfInv
  <2>4. ASSUME NEW e  PROVE <<"Ok">> # <<"InvalidConfig">> /\ <<"Transfer", e>> # <<"InvalidConfig">>
    OBVIOUS
  <2> QED  BY <1>0, <2>0, <2>1, <2>2, <2>3, <2>4, Moves
<1>10. CASE Shutdown(o) \/ Cleanup(o)
  <2>0. op[o].stage \in {"shutdown", "cleanup"} /\ op[o].stage \in Located
    BY <1>10 DEF Shutdown, Cleanup, Located, Claimed
  <2>1. /\ {"done", "cleanup"} \subseteq Stages \ ({"product"} \cup Session)
    BY DEF Stages, Claimed, Session
  <2>2. CASE \E stage \in {"done", "cleanup"} : Go(o, stage)
    BY <1>0, <2>0, <2>1, <2>2, Moves
  <2>3. CASE op' = [op EXCEPT ![o].stage = "done", ![o].faults = @ \cup {"shutdown"}]
    <3>1. /\ Sets(o, "done", op[o].at)
          /\ op'[o].descriptor = op[o].descriptor /\ op[o].faults \subseteq op'[o].faults
          /\ op'[o].result = op[o].result
      BY <2>0, <2>3 DEF DescriptorInv, OpInv, Sets, New, Stages
    <3> QED  BY <1>0, <2>0, <2>1, <3>1, Untouched
  <2> QED  BY <1>10, <2>2, <2>3 DEF Shutdown, Cleanup
<1>11. CASE Drop(o)
  <2> DEFINE to == DropTo(op[o].stage)
  <2>1. /\ op' = [op EXCEPT ![o].stage = to, ![o].result = <<"Dropped">>]
        /\ op[o].stage # "done"
    BY <1>11 DEF Drop, Opening, Claimed
  <2>2. to \in {"cleanup", "done"}  BY DEF DropTo
  <2>3. {"done", "cleanup"} \subseteq Stages \ ({"product"} \cup Session)
    BY DEF Stages, Claimed, Session
  <2>4. to \in Located => op[o].stage \in Located
    BY DEF DropTo, Session, Located, Claimed
  <2> HIDE DEF to
  <2>5. to \in Stages /\ \A string \in Strings : to \notin After(string)
    BY <1>0, <2>2, <2>3
  <2>6. \E e : /\ op' = [op EXCEPT ![o].stage = to, ![o].result = e]
               /\ e # <<"InvalidConfig">>
    <3>1. <<"Dropped">> # <<"InvalidConfig">>  OBVIOUS
    <3> QED  BY <2>1, <3>1
  <2> QED  BY <2>1, <2>2, <2>4, <2>5, <2>6, Moves
<1> QED
  BY <1>1, <1>2, <1>3, <1>5, <1>6, <1>7, <1>8, <1>9, <1>10, <1>11 DEF Step

\* And so does every step of the bus.
LEMMA DescriptorHolds == Spec => [](OpInv /\ StringInv /\ HfInv)
<1>1. Init => StringInv /\ HfInv
  BY DEF Init, StringInv, HfInv, New, Nothing, Located, Claimed
<1>2. DiscoveryInv /\ StringInv /\ HfInv /\ [Next]_vars => StringInv' /\ HfInv'
  <2> SUFFICES ASSUME DiscoveryInv, StringInv, HfInv, [Next]_vars
               PROVE  StringInv' /\ HfInv'
    OBVIOUS
  <2>0. DescriptorInv /\ BusInv  BY DEF DescriptorInv, DiscoveryInv
  <2>1. CASE op' = op
    BY <2>1 DEF StringInv, HfInv, True, Dev, Nothing
  <2>2. CASE \E d \in Devices : Plug(d) \/ Unplug(d)  BY <2>1, <2>2 DEF Plug, Unplug
  <2>3. CASE UNCHANGED vars  BY <2>1, <2>3 DEF vars
  <2>4. CASE \E o \in Openers : \/ Step(o) \/ OpenBegin(o) \/ RequestPermission(o) \/ Drop(o)
                                \/ \E choice \in Calls : Choose(o, choice)
    BY <2>0, <2>4, StepTrue
  <2> QED  BY <2>2, <2>3, <2>4 DEF Next
<1>3. DiscoveryInv => OpInv  BY DEF DiscoveryInv
<1> QED  BY <1>1, <1>2, <1>3, InvariantHolds, PTL DEF Spec

\* Whatever the system lists, and whichever reads fail, a descriptor has only
\* strings of its own device, all of them once it is ready unless a read
\* failed; below 28.8 MHz a board that is ready is a Blog V4 (discovery.rs).
THEOREM DescriptorSafe == Spec => []DescriptorTrue
<1>1. OpInv /\ StringInv /\ HfInv => DescriptorTrue
  <2> SUFFICES ASSUME DescriptorInv PROVE DescriptorTrue  BY DEF DescriptorInv
  <2>1. ASSUME NEW o \in Openers, op[o].at # None, NEW string \in Strings
        PROVE  \/ op[o].descriptor[string] = Traits[Dev(o)][string]
               \/ /\ op[o].descriptor[string] = None
                  /\ string # "serial" /\ op[o].stage \in Session => "string" \in op[o].faults
    <3>1. True(o, string)  BY <2>1 DEF DescriptorInv, StringInv
    <3>2. string # "serial" /\ op[o].stage \in Session => op[o].stage \in After(string)
      BY DEF After, Strings
    <3> QED  BY <3>1, <3>2 DEF True
  <2>2. HfNeedsV4
    <3>1. ASSUME NEW o \in Hf
          PROVE  /\ op[o].stage = "ready" => IsV4(Dev(o))
                 /\ op[o].result = <<"InvalidConfig">> => ~IsV4(Dev(o)) \/ "string" \in op[o].faults
      <4>1. o \in Openers  BY DiscoveryAssumption
      <4>2. op[o].stage = "ready" => op[o].stage \in Located /\ BlogV4(op[o].descriptor)
        BY <4>1 DEF DescriptorInv, HfInv, Located, Claimed
      <4> QED  BY <4>1, <4>2, PassedIsV4 DEF DescriptorInv, HfInv
    <3> QED  BY <3>1 DEF HfNeedsV4
  <2> QED  BY <2>1, <2>2 DEF DescriptorTrue, Strings
<1> QED  BY <1>1, DescriptorHolds, PTL

-----------------------------------------------------------------------------
(* Selection                                                                *)

\* The places before another are finitely many.
LEMMA PlacesFinite ==
  ASSUME BusInv, NEW selector, NEW i
  PROVE  IsFiniteSet({j \in Places(selector) : j < i})
<1>1. Len(bus) \in Nat /\ DOMAIN bus = 1..Len(bus)
  BY DEF BusInv
<1>2. IsFiniteSet(1..Len(bus))
  BY <1>1, FS_Interval
<1>3. {j \in Places(selector) : j < i} \in SUBSET (1..Len(bus))
  BY <1>1 DEF Places
<1> QED
  BY <1>2, <1>3, FS_Subset

\* Of two places the later one has the larger index.
LEMMA IndexGrows ==
  ASSUME BusInv, NEW selector, NEW i \in Places(selector), NEW k \in Places(selector), i < k
  PROVE  Index(selector, i) < Index(selector, k)
<1> DEFINE S == {j \in Places(selector) : j < i}
           T == {j \in Places(selector) : j < k}
<1>0. Places(selector) \subseteq Nat
  BY DEF BusInv, Places
<1>1. IsFiniteSet(S) /\ IsFiniteSet(T)
  BY PlacesFinite
<1>2. i \notin S /\ S \cup {i} \in SUBSET T
  BY <1>0
<1> HIDE DEF S, T
<1>3. Cardinality(S \cup {i}) = Cardinality(S) + 1 /\ Cardinality(S) \in Nat
  BY <1>1, <1>2, FS_AddElement, FS_CardinalityType
<1>4. Cardinality(S \cup {i}) <= Cardinality(T) /\ Cardinality(T) \in Nat
  BY <1>1, <1>2, FS_Subset, FS_CardinalityType
<1>5. Cardinality(S) < Cardinality(T)
  BY <1>3, <1>4
<1> QED
  BY <1>5 DEF Index, S, T

\* So an index names one place.
LEMMA IndexIsOne ==
  ASSUME BusInv, NEW selector, NEW i \in Places(selector), NEW k \in Places(selector)
  PROVE  /\ Index(selector, i) \in Nat
         /\ Index(selector, i) = Index(selector, k) => i = k
<1>1. Index(selector, i) \in Nat /\ Index(selector, k) \in Nat
  BY PlacesFinite, FS_CardinalityType DEF Index
<1>2. i \in Nat /\ k \in Nat
  BY DEF BusInv, Places
<1>3. i < k => Index(selector, i) < Index(selector, k)
  BY IndexGrows
<1>4. k < i => Index(selector, k) < Index(selector, i)
  BY IndexGrows
<1> QED
  BY <1>1, <1>2, <1>3, <1>4

\* The places that match a selector; one is selected if there is one.
Hits(selector) == {i \in Places(selector) : Matches(selector, Index(selector, i), bus[i])}

LEMMA SelectFirst ==
  ASSUME BusInv, NEW selector
  PROVE  /\ \A hit \in Select(selector) : \E i \in Hits(selector) : hit = Entry(selector, i)
         /\ Hits(selector) # {} => Select(selector) # {}
         /\ \A i : Hits(selector) = {i} => Select(selector) = {Entry(selector, i)}
<1>0. Hits(selector) \in SUBSET Nat
  BY DEF Hits, Places, BusInv
<1>1. Select(selector) =
        {Entry(selector, i) : i \in {h \in Hits(selector) : \A j \in Hits(selector) : h <= j}}
  BY Zenon DEF Select, Hits
<1>2. \A hit \in Select(selector) : \E i \in Hits(selector) : hit = Entry(selector, i)
  BY <1>1
<1>3. ASSUME Hits(selector) # {} PROVE Select(selector) # {}
  <2>1. PICK h \in Hits(selector) : \A j \in Hits(selector) : h <= j
    BY <1>0, <1>3, LeastOf
  <2> QED
    BY <1>1, <2>1
<1>4. ASSUME NEW i, Hits(selector) = {i}
      PROVE  Select(selector) = {Entry(selector, i)}
  <2>1. i <= i
    BY <1>0, <1>4
  <2>2. {h \in Hits(selector) : \A j \in Hits(selector) : h <= j} = {i}
    BY <1>4, <2>1
  <2> QED
    BY <1>1, <2>2
<1> QED
  BY <1>2, <1>3, <1>4

\* Places and indices depend on a selector's IDs alone.
LEMMA SameIds ==
  ASSUME NEW s, NEW t, s.ids = t.ids
  PROVE  /\ Places(s) = Places(t)
         /\ \A i : Index(s, i) = Index(t, i) /\ Entry(s, i) = Entry(t, i)
<1>1. Places(s) = Places(t)
  BY DEF Places, MatchesId
<1> QED
  BY <1>1 DEF Index, Entry

\* Without a change of the bus, what list shows is what select takes by its
\* index, or by a serial that no other has.
LEMMA Agreement ==
  ASSUME BusInv
  PROVE  ListSelectAgree
<1> SUFFICES ASSUME NEW entry \in Candidates(Anything)
             PROVE
               /\ Select([Anything EXCEPT !.index = entry[2].index]) = {entry}
               /\ entry[2].serial # None
                  /\ {e \in Candidates(Anything) : e[2].serial = entry[2].serial} = {entry} =>
                    Select([Anything EXCEPT !.serial = entry[2].serial]) = {entry}
  BY DEF ListSelectAgree
<1>1. PICK i \in Places(Anything) : entry = Entry(Anything, i)
  BY DEF Candidates
<1>2. \A k \in Places(Anything) :
         /\ Entry(Anything, k) \in Candidates(Anything)
         /\ Entry(Anything, k)[2].index = Index(Anything, k)
         /\ Entry(Anything, k)[2].serial = Listed(bus[k][1], "serial")
         /\ Index(Anything, k) \in Nat
         /\ Index(Anything, i) = Index(Anything, k) => i = k
  BY IndexIsOne DEF Candidates, Entry, FromNusb
<1>3. Select([Anything EXCEPT !.index = entry[2].index]) = {entry}
  <2> DEFINE s == [Anything EXCEPT !.index = entry[2].index]
  <2>1. s.ids = Anything.ids /\ s.index = Index(Anything, i) /\ s.serial = None
    BY <1>1, <1>2 DEF Anything
  <2> HIDE DEF s
  <2>2. /\ Places(s) = Places(Anything)
        /\ \A k : Index(s, k) = Index(Anything, k) /\ Entry(s, k) = Entry(Anything, k)
    BY <2>1, SameIds
  <2>3. \A k \in Places(Anything) : Matches(s, Index(s, k), bus[k]) <=> k = i
    BY <1>2, <2>1, <2>2, DiscoveryAssumption DEF Matches
  <2>4. Hits(s) = {i}
    BY <2>2, <2>3 DEF Hits
  <2>5. Select(s) = {Entry(s, i)}
    BY <2>4, SelectFirst
  <2> QED
    BY <1>1, <2>2, <2>5 DEF s
<1>4. ASSUME entry[2].serial # None,
             {e \in Candidates(Anything) : e[2].serial = entry[2].serial} = {entry}
      PROVE  Select([Anything EXCEPT !.serial = entry[2].serial]) = {entry}
  <2> DEFINE s == [Anything EXCEPT !.serial = entry[2].serial]
  <2>1. s.ids = Anything.ids /\ s.index = None /\ s.serial = entry[2].serial
    BY DEF Anything
  <2> HIDE DEF s
  <2>2. /\ Places(s) = Places(Anything)
        /\ \A k : Index(s, k) = Index(Anything, k) /\ Entry(s, k) = Entry(Anything, k)
    BY <2>1, SameIds
  <2>3. ASSUME NEW k \in Places(Anything), Listed(bus[k][1], "serial") = entry[2].serial
        PROVE  k = i
    <3>1. Entry(Anything, k) = entry
      BY <1>2, <1>4, <2>3
    <3> QED
      BY <1>1, <1>2, <3>1
  <2>4. \A k \in Places(Anything) : Matches(s, Index(s, k), bus[k]) <=> k = i
    BY <1>1, <1>2, <1>4, <2>1, <2>3 DEF Matches
  <2>5. Hits(s) = {i}
    BY <2>2, <2>4 DEF Hits
  <2>6. Select(s) = {Entry(s, i)}
    BY <2>5, SelectFirst
  <2> QED
    BY <1>1, <2>2, <2>6 DEF s
<1> QED
  BY <1>3, <1>4

-----------------------------------------------------------------------------
(* What was asked for, picked and found                                     *)

\* The selector holds what was asked for last, and nothing else.
Wanted(o) ==
  /\ DOMAIN op[o].selector = DOMAIN Anything
  /\ IF op[o].asked = None THEN op[o].selector.index = None /\ op[o].selector.serial = None
     ELSE IF op[o].asked[1] = "index"
     THEN op[o].selector.index = op[o].asked[2] /\ op[o].asked[2] # None /\ op[o].selector.serial = None
     ELSE op[o].selector.serial = op[o].asked[2] /\ op[o].asked[2] # None /\ op[o].selector.index = None

\* What was picked is visible, and was offered for the selector there is.
Picked(o) ==
  op[o].permitted # None =>
    /\ op[o].permitted \in granted
    /\ MatchesId(op[o].selector, op[o].permitted)
    /\ op[o].selector.serial \in {None, Listed(op[o].permitted[1], "serial")}

\* What was found was asked for; nothing is found before it is looked for.
Found(o) ==
  /\ op[o].stage \in {"building", "list"} =>
       op[o].at = None /\ op[o].result # <<"DeviceNotFound">>
  /\ op[o].at # None => \E entry \in op[o].seen : entry[1] = op[o].at /\ AsAsked(o, entry)
  /\ op[o].result = <<"DeviceNotFound">> => ~\E entry \in op[o].seen : AsAsked(o, entry)

SelectionInv == \A o \in Openers : Wanted(o) /\ Picked(o) /\ Found(o)

\* A step of o that changes neither what was asked for nor what was found.
Stays(o) ==
  /\ \A p \in Openers \ {o} : op'[p] = op[p]
  /\ op'[o].selector = op[o].selector /\ op'[o].asked = op[o].asked
  /\ op'[o].permitted = op[o].permitted
  /\ op'[o].at = op[o].at /\ op'[o].seen = op[o].seen
  /\ op'[o].stage \in {"building", "list"} => op[o].stage \in {"building", "list"}
  /\ op'[o].result = op[o].result \/ op'[o].result # <<"DeviceNotFound">>
  /\ granted' = granted

\* Everything about an opener that does not change is kept.
LEMMA OthersStay ==
  ASSUME SelectionInv, NEW p \in Openers, op'[p] = op[p], granted \subseteq granted'
  PROVE  Wanted(p)' /\ Picked(p)' /\ Found(p)'
<1>1. Wanted(p) /\ Picked(p) /\ Found(p)
  BY DEF SelectionInv
<1>2. Wanted(p)'
  BY <1>1 DEF Wanted, Anything
<1>3. Picked(p)'
  BY <1>1 DEF Picked, MatchesId
<1>4. Found(p)'
  BY <1>1 DEF Found, AsAsked
<1> QED
  BY <1>2, <1>3, <1>4

\* And such a step keeps the invariant.
LEMMA StaysHeld ==
  ASSUME SelectionInv, NEW o \in Openers, Stays(o)
  PROVE  SelectionInv'
<1> SUFFICES ASSUME NEW p \in Openers PROVE Wanted(p)' /\ Picked(p)' /\ Found(p)'
  BY DEF SelectionInv
<1>1. CASE p # o
  BY <1>1, OthersStay DEF Stays
<1>2. CASE p = o
  <2>0. Wanted(o) /\ Picked(o) /\ Found(o)
    BY DEF SelectionInv
  <2>1. Wanted(o)'
    BY <2>0 DEF Stays, Wanted, Anything
  <2>2. Picked(o)'
    BY <2>0 DEF Stays, Picked, MatchesId
  <2>3. Found(o)'
    BY <2>0 DEF Stays, Found, AsAsked
  <2> QED
    BY <1>2, <2>1, <2>2, <2>3
<1> QED
  BY <1>1, <1>2

\* A call on the builder replaces what was asked for, and the permission.
LEMMA ChooseHolds ==
  ASSUME OpInv, SelectionInv, NEW o \in Openers, NEW choice \in Calls, Choose(o, choice)
  PROVE  SelectionInv'
<1> DEFINE s == Chosen(op[o].selector, choice)
           asked == IF choice[1] = "ids" THEN op[o].asked ELSE choice
<1>0. op[o].stage = "building" /\ granted' = granted
  BY DEF Choose
<1>1. op' = [op EXCEPT ![o].calls = op[o].calls + 1, ![o].selector = s, ![o].asked = asked,
                       ![o].permitted = None]
  BY DEF Choose
<1> HIDE DEF s, asked
<1>2. /\ op'[o].selector = s /\ op'[o].asked = asked /\ op'[o].permitted = None
      /\ op'[o].at = op[o].at /\ op'[o].seen = op[o].seen
      /\ op'[o].stage = op[o].stage /\ op'[o].result = op[o].result
      /\ \A p \in Openers \ {o} : op'[p] = op[p]
  BY <1>1 DEF OpInv, New
<1>3. Wanted(o) /\ Found(o)
  BY DEF SelectionInv
<1>4. op[o].at = None /\ op[o].result # <<"DeviceNotFound">>
  BY <1>0, <1>3 DEF Found
<1>5. /\ DOMAIN s = DOMAIN Anything
      /\ IF asked = None THEN s.index = None /\ s.serial = None
         ELSE IF asked[1] = "index" THEN s.index = asked[2] /\ asked[2] # None /\ s.serial = None
         ELSE s.serial = asked[2] /\ asked[2] # None /\ s.index = None
  <2>0. choice # None
    BY DiscoveryAssumption
  <2>1. CASE choice[1] = "index" /\ choice[2] \in Nat
    <3>1. s = [op[o].selector EXCEPT !.serial = None, !.index = choice[2]] /\ asked = choice
      BY <1>3, <2>1 DEF s, asked, Chosen, Wanted, Anything
    <3>2. choice[2] # None
      BY <2>1, DiscoveryAssumption
    <3> QED
      BY <1>3, <2>0, <2>1, <3>1, <3>2 DEF Wanted, Anything
  <2>2. CASE choice[1] = "serial" /\ choice[2] # None
    <3>1. s = [op[o].selector EXCEPT !.index = None, !.serial = choice[2]] /\ asked = choice
      BY <1>3, <2>2 DEF s, asked, Chosen, Wanted, Anything
    <3> QED
      BY <1>3, <2>0, <2>2, <3>1 DEF Wanted, Anything
  <2>3. CASE choice[1] = "ids"
    <3>1. s = [op[o].selector EXCEPT !.ids = choice[2]] /\ asked = op[o].asked
      BY <2>3 DEF s, asked, Chosen
    <3> QED
      BY <1>3, <3>1 DEF Wanted, Anything
  <2> QED
    BY <2>1, <2>2, <2>3, DiscoveryAssumption
<1> SUFFICES ASSUME NEW p \in Openers PROVE Wanted(p)' /\ Picked(p)' /\ Found(p)'
  BY DEF SelectionInv
<1>6. CASE p # o
  BY <1>0, <1>2, <1>6, OthersStay
<1>7. CASE p = o
  <2>1. Wanted(o)'
    BY <1>2, <1>5 DEF Wanted, Anything
  <2>2. Picked(o)'
    BY <1>2 DEF Picked
  <2>3. Found(o)'
    BY <1>2, <1>4 DEF Found
  <2> QED
    BY <1>7, <2>1, <2>2, <2>3
<1> QED
  BY <1>6, <1>7

\* The dialog offers what the selector would take but for its index.
LEMMA PermissionHolds ==
  ASSUME OpInv, SelectionInv, NEW o \in Openers, RequestPermission(o)
  PROVE  SelectionInv'
<1>1. PICK at \in Offered(op[o].selector) :
        granted' = granted \cup {at} /\ op' = [op EXCEPT ![o].permitted = at]
  BY DEF RequestPermission
<1>2. /\ op'[o] = [op[o] EXCEPT !.permitted = at] /\ op'[o].permitted = at
      /\ op'[o].selector = op[o].selector /\ op'[o].asked = op[o].asked
      /\ op'[o].at = op[o].at /\ op'[o].seen = op[o].seen
      /\ op'[o].stage = op[o].stage /\ op'[o].result = op[o].result
      /\ \A p \in Openers \ {o} : op'[p] = op[p]
  BY <1>1 DEF OpInv, New
<1>3. at \in granted' /\ MatchesId(op[o].selector, at)
      /\ op[o].selector.serial \in {None, Listed(at[1], "serial")}
  BY <1>1 DEF Offered
<1> SUFFICES ASSUME NEW p \in Openers PROVE Wanted(p)' /\ Picked(p)' /\ Found(p)'
  BY DEF SelectionInv
<1>4. CASE p # o
  BY <1>1, <1>2, <1>4, OthersStay
<1>5. CASE p = o
  <2>0. Wanted(o) /\ Picked(o) /\ Found(o)
    BY DEF SelectionInv
  <2>1. Wanted(o)'
    BY <1>2, <2>0 DEF Wanted, Anything
  <2>2. Picked(o)'
    BY <1>2, <1>3 DEF Picked, MatchesId
  <2>3. Found(o)'
    BY <1>2, <2>0 DEF Found, AsAsked
  <2> QED
    BY <1>5, <2>1, <2>2, <2>3
<1> QED
  BY <1>4, <1>5

\* A place matches a selector just if it is one of what was asked for.
LEMMA MatchIsAsked ==
  ASSUME BusInv, NEW o \in Openers, Wanted(o), NEW i \in Places(op[o].selector)
  PROVE  /\ Entry(op[o].selector, i) \in Candidates(op[o].selector)
         /\ i \in Hits(op[o].selector) <=> AsAsked(o, Entry(op[o].selector, i))
<1> DEFINE s == op[o].selector
           asked == op[o].asked
<1>1. Index(s, i) \in Nat
  BY IndexIsOne
<1>2. Index(s, i) # None
  BY <1>1, DiscoveryAssumption
<1>3. /\ Entry(s, i)[1] = bus[i] /\ Entry(s, i)[2].index = Index(s, i)
      /\ Ids(bus[i][1]) = s.ids
  BY DEF Entry, FromNusb, Places, MatchesId
<1>4. /\ asked = None => s.index = None /\ s.serial = None
      /\ asked # None /\ asked[1] = "index" =>
           s.index = asked[2] /\ asked[2] # None /\ s.serial = None
      /\ asked # None /\ asked[1] # "index" =>
           s.serial = asked[2] /\ asked[2] # None /\ s.index = None
  BY DEF Wanted
<1>5. i \in Hits(s) <=> Matches(s, Index(s, i), bus[i])
  BY DEF Hits
<1>6. Entry(s, i) \in Candidates(s)
  BY DEF Candidates
<1> HIDE DEF s, asked
<1>7. AsAsked(o, Entry(s, i)) <=>
        (asked # None => IF asked[1] = "index" THEN Index(s, i) = asked[2]
                         ELSE Listed(bus[i][1], "serial") = asked[2])
  BY <1>3 DEF AsAsked, s, asked
<1>8. i \in Hits(s) <=> AsAsked(o, Entry(s, i))
  BY <1>2, <1>4, <1>5, <1>7 DEF Matches
<1> QED
  BY <1>6, <1>8 DEF s

\* What is found is of those listed, and was asked for; what is not found
\* was not there.
LEMMA ListHolds ==
  ASSUME OpInv, BusInv, SelectionInv, NEW o \in Openers, ListDevices(o)
  PROVE  SelectionInv'
<1> DEFINE s == op[o].selector
           seen == Candidates(s)
<1>0. op[o].stage = "list" /\ granted' = granted
  BY DEF ListDevices
<1>1. Wanted(o) /\ Picked(o) /\ Found(o)
  BY DEF SelectionInv
<1>2. op[o].at = None /\ op[o].result # <<"DeviceNotFound">>
  BY <1>0, <1>1 DEF Found
<1>3. \A i \in Places(s) : /\ Entry(s, i) \in seen
                           /\ i \in Hits(s) <=> AsAsked(o, Entry(s, i))
  BY <1>1, MatchIsAsked
<1>4. /\ \A hit \in Select(s) : \E i \in Hits(s) : hit = Entry(s, i)
      /\ Hits(s) # {} => Select(s) # {}
  BY SelectFirst
<1>5. \A e \in seen : \E i \in Places(s) : e = Entry(s, i)
  BY DEF Candidates
<1>6. \A entry : AsAsked(o, entry) <=>
        /\ Ids(entry[1][1]) = s.ids
        /\ op[o].asked # None =>
             IF op[o].asked[1] = "index" THEN entry[2].index = op[o].asked[2]
             ELSE Listed(entry[1][1], "serial") = op[o].asked[2]
  BY DEF AsAsked
<1> DEFINE Failed == \E e \in UsbFaults : Fail(o, <<"Usb", e>>)
<1>f. CASE Failed
  <2>1. PICK e \in UsbFaults : Fail(o, <<"Usb", e>>)
    BY <1>f
  <2> DEFINE result == <<"Usb", e>>
  <2>2. op' = [op EXCEPT ![o].stage = "done", ![o].result = result] /\ result # <<"DeviceNotFound">>
    BY <2>1 DEF Fail
  <2> HIDE DEF result
  <2>3. Stays(o)
    BY <1>0, <2>2 DEF Stays, OpInv, New
  <2> QED
    BY <2>3, StaysHeld
<1> SUFFICES ASSUME ~Failed, NEW p \in Openers PROVE Wanted(p)' /\ Picked(p)' /\ Found(p)'
  BY <1>f DEF SelectionInv
<1>7. CASE Select(s) = {}
  <2>1. op' = [op EXCEPT ![o].stage = "done", ![o].result = <<"DeviceNotFound">>, ![o].seen = seen]
    BY <1>7 DEF ListDevices
  <2>2. ~\E entry \in seen : AsAsked(o, entry)
    BY <1>3, <1>4, <1>5, <1>7
  <2> HIDE DEF s, seen
  <2>3. /\ op'[o].selector = op[o].selector /\ op'[o].asked = op[o].asked
        /\ op'[o].permitted = op[o].permitted /\ op'[o].at = op[o].at
        /\ op'[o].seen = seen /\ op'[o].stage = "done"
        /\ \A q \in Openers \ {o} : op'[q] = op[q]
    BY <2>1 DEF OpInv, New
  <2>4. CASE p # o
    BY <1>0, <2>3, <2>4, OthersStay
  <2>5. CASE p = o
    <3>1. Wanted(o)'
      BY <1>1, <2>3 DEF Wanted, Anything
    <3>2. Picked(o)'
      BY <1>0, <1>1, <2>3 DEF Picked, MatchesId
    <3>3. Found(o)'
      BY <1>2, <2>2, <2>3 DEF Found, AsAsked
    <3> QED
      BY <2>5, <3>1, <3>2, <3>3
  <2> QED
    BY <2>4, <2>5
<1>8. CASE Select(s) # {}
  <2>1. PICK hit \in Select(s) :
          op' = [op EXCEPT ![o].stage = "open", ![o].at = hit[1], ![o].descriptor = hit[2],
                           ![o].seen = seen]
    BY <1>8 DEF ListDevices
  <2>2. hit \in seen /\ AsAsked(o, hit)
    <3>1. PICK i \in Hits(s) : hit = Entry(s, i)
      BY <1>4
    <3>2. i \in Places(s)
      BY DEF Hits
    <3> QED
      BY <1>3, <3>1, <3>2
  <2> DEFINE at == hit[1]
             descriptor == hit[2]
  <2>3. op' = [op EXCEPT ![o].stage = "open", ![o].at = at, ![o].descriptor = descriptor,
                         ![o].seen = seen]
    BY <2>1
  <2> HIDE DEF s, seen, at, descriptor
  <2>4. /\ op'[o].selector = op[o].selector /\ op'[o].asked = op[o].asked
        /\ op'[o].permitted = op[o].permitted /\ op'[o].at = at
        /\ op'[o].seen = seen /\ op'[o].stage = "open" /\ op'[o].result = op[o].result
        /\ \A q \in Openers \ {o} : op'[q] = op[q]
    BY <2>3 DEF OpInv, New
  <2>5. CASE p # o
    BY <1>0, <2>4, <2>5, OthersStay
  <2>6. CASE p = o
    <3>1. Wanted(o)'
      BY <1>1, <2>4 DEF Wanted, Anything
    <3>2. Picked(o)'
      BY <1>0, <1>1, <2>4 DEF Picked, MatchesId
    <3>3. Found(o)'
      BY <1>2, <2>2, <2>4 DEF Found, AsAsked, at
    <3> QED
      BY <2>6, <3>1, <3>2, <3>3
  <2> QED
    BY <2>5, <2>6
<1> QED
  BY <1>7, <1>8

\* Every other step leaves alone what was asked for and found.
LEMMA OtherStepsStay ==
  ASSUME OpInv, NEW o \in Openers,
         \/ OpenBegin(o) \/ Drop(o) \/ OpenDevice(o) \/ SelectConfiguration(o) \/ Claim(o)
         \/ ReadLanguage(o) \/ Configure(o) \/ Initialize(o) \/ Shutdown(o) \/ Cleanup(o)
         \/ \E string, next : /\ next \notin {"building", "list"} /\ ReadString(o, string, next)
  PROVE  Stays(o)
<1>0. granted' = granted
  BY DEF OpenBegin, Drop, OpenDevice, SelectConfiguration, Claim, ReadLanguage, Configure,
         Initialize, Shutdown, Cleanup, ReadString
<1>1. ASSUME NEW stage, Go(o, stage),
             stage \in {"building", "list"} => op[o].stage \in {"building", "list"}
      PROVE  Stays(o)
  BY <1>0, <1>1 DEF Stays, OpInv, New, Go
<1> DEFINE Ends(stage, e) == op' = [op EXCEPT ![o].stage = stage, ![o].result = e]
<1>2. ASSUME NEW stage, NEW e, Ends(stage, e), e # <<"DeviceNotFound">>,
             stage \notin {"building", "list"}
      PROVE  Stays(o)
  BY <1>0, <1>2 DEF Stays, OpInv, New
<1> DEFINE Faulty(stage, faults) == op' = [op EXCEPT ![o].stage = stage, ![o].faults = faults]
<1>12. ASSUME NEW stage, NEW faults, Faulty(stage, faults), stage \notin {"building", "list"}
      PROVE  Stays(o)
  BY <1>0, <1>12 DEF Stays, OpInv, New
<1>3. \A e : /\ At(<<"Usb", e>>) # <<"DeviceNotFound">> /\ <<"Transfer", e>> # <<"DeviceNotFound">>
             /\ <<"Ok">> # <<"DeviceNotFound">> /\ <<"Dropped">> # <<"DeviceNotFound">>
             /\ <<"InvalidConfig">> # <<"DeviceNotFound">>
  BY DEF At
<1>4. CASE OpenBegin(o)
  BY <1>1, <1>4 DEF OpenBegin
<1>5. CASE Drop(o)
  <2>1. DropTo(op[o].stage) \notin {"building", "list"}
    BY DEF DropTo
  <2>2. Ends(DropTo(op[o].stage), <<"Dropped">>)
    BY <1>5 DEF Drop
  <2> HIDE DEF Ends
  <2> QED
    BY <1>2, <1>3, <2>1, <2>2
<1>6. CASE OpenDevice(o) \/ SelectConfiguration(o) \/ Claim(o)
  <2>1. \/ \E stage \in {"configuration", "claim", "language"} : Go(o, stage)
        \/ \E e : Ends("done", At(<<"Usb", e>>))
    BY <1>6 DEF OpenDevice, SelectConfiguration, Claim, Fail
  <2>2. \A stage \in {"configuration", "claim", "language"} : Go(o, stage) => Stays(o)
    BY <1>1
  <2>3. \A e : Ends("done", At(<<"Usb", e>>)) => Stays(o)
    <3> HIDE DEF Ends
    <3>1. "done" \notin {"building", "list"}
      OBVIOUS
    <3> QED
      BY <1>2, <1>3, <3>1, Zenon
  <2> HIDE DEF Ends
  <2> QED
    BY <2>1, <2>2, <2>3, Zenon
<1>7. CASE ReadLanguage(o)
  <2>1. \/ Go(o, "manufacturer")
        \/ Faulty("manufacturer", op[o].faults \cup {"string"})
    BY <1>7 DEF ReadLanguage
  <2> HIDE DEF Faulty
  <2> QED
    BY <1>1, <1>12, <2>1
<1>8. CASE Configure(o) \/ Initialize(o)
  <2>1. \/ Go(o, "configuring")
        \/ \E e : Ends("shutdown", <<"Transfer", e>>)
        \/ Ends("shutdown", <<"InvalidConfig">>)
        \/ Ends("ready", <<"Ok">>)
    BY <1>8 DEF Configure, Initialize
  <2>2. Go(o, "configuring") => Stays(o)
    BY <1>1
  <2> HIDE DEF Ends
  <2>3. "shutdown" \notin {"building", "list"} /\ "ready" \notin {"building", "list"}
    OBVIOUS
  <2>4. \A e : Ends("shutdown", <<"Transfer", e>>) => Stays(o)
    BY <1>2, <1>3, <2>3, Zenon
  <2>5. /\ Ends("shutdown", <<"InvalidConfig">>) => Stays(o)
        /\ Ends("ready", <<"Ok">>) => Stays(o)
    BY <1>2, <1>3, <2>3, Zenon
  <2> QED
    BY <2>1, <2>2, <2>4, <2>5, Zenon
<1>9. CASE Shutdown(o) \/ Cleanup(o)
  <2>1. \/ \E stage \in {"done", "cleanup"} : Go(o, stage)
        \/ Faulty("done", op[o].faults \cup {"shutdown"})
    BY <1>9 DEF Shutdown, Cleanup
  <2> HIDE DEF Faulty
  <2> QED
    BY <1>1, <1>12, <2>1
<1>10. ASSUME NEW string, NEW next, next \notin {"building", "list"}, ReadString(o, string, next)
       PROVE  Stays(o)
  <2> DEFINE Has(value) == [op[o] EXCEPT !.stage = next, !.descriptor[string] = Kept(@, value)]
  <2>1. \E value : op' = [op EXCEPT ![o] = Has(value)]
                   \/ op' = [op EXCEPT ![o] = [Has(value) EXCEPT !.faults = @ \cup {"string"}]]
    BY <1>10 DEF ReadString
  <2>2. PICK value : \/ op' = [op EXCEPT ![o] = Has(value)]
                     \/ op' = [op EXCEPT ![o] = [Has(value) EXCEPT !.faults = @ \cup {"string"}]]
    BY <2>1
  <2> DEFINE d == [op[o].descriptor EXCEPT ![string] = Kept(op[o].descriptor[string], value)]
  <2>3. Has(value) = [op[o] EXCEPT !.stage = next, !.descriptor = d]
    BY DEF OpInv, New
  <2> HIDE DEF d, Has
  <2>4. /\ Has(value).selector = op[o].selector /\ Has(value).asked = op[o].asked
        /\ Has(value).permitted = op[o].permitted /\ Has(value).at = op[o].at
        /\ Has(value).seen = op[o].seen /\ Has(value).stage = next
        /\ Has(value).result = op[o].result /\ DOMAIN Has(value) = DOMAIN New
    BY <2>3 DEF OpInv, New
  <2>5. \A p \in Openers \ {o} : op'[p] = op[p]
    BY <2>2 DEF OpInv
  <2>6. op'[o] = Has(value) \/ op'[o] = [Has(value) EXCEPT !.faults = @ \cup {"string"}]
    BY <2>2 DEF OpInv
  <2>7. /\ op'[o].selector = op[o].selector /\ op'[o].asked = op[o].asked
        /\ op'[o].permitted = op[o].permitted /\ op'[o].at = op[o].at
        /\ op'[o].seen = op[o].seen /\ op'[o].stage = next
        /\ op'[o].result = op[o].result
    BY <2>4, <2>6 DEF New
  <2> QED
    BY <1>0, <1>10, <2>5, <2>7 DEF Stays
<1> QED
  BY <1>4, <1>5, <1>6, <1>7, <1>8, <1>9, <1>10

\* The invariant holds.
LEMMA SelectionHolds == Spec => []SelectionInv
<1>1. Init => SelectionInv
  <2> SUFFICES ASSUME Init, NEW o \in Openers PROVE Wanted(o) /\ Picked(o) /\ Found(o)
    BY DEF SelectionInv
  <2>1. op[o] = New
    BY DEF Init
  <2>2. <<"Pending">> # <<"DeviceNotFound">>
    OBVIOUS
  <2> QED
    BY <2>1, <2>2 DEF New, Wanted, Picked, Found, Anything
<1>2. DiscoveryInv /\ SelectionInv /\ [Next]_vars => SelectionInv'
  <2> SUFFICES ASSUME DiscoveryInv, SelectionInv, [Next]_vars
               PROVE  SelectionInv'
    OBVIOUS
  <2>0. OpInv /\ BusInv
    BY DEF DiscoveryInv
  <2>1. CASE op' = op /\ granted' = granted
    <3> SUFFICES ASSUME NEW p \in Openers PROVE Wanted(p)' /\ Picked(p)' /\ Found(p)'
      BY DEF SelectionInv
    <3> QED
      BY <2>1, OthersStay
  <2>2. CASE (\E d \in Devices : Plug(d) \/ Unplug(d)) \/ UNCHANGED vars
    BY <2>1, <2>2 DEF Plug, Unplug, vars
  <2>3. ASSUME NEW o \in Openers, Step(o) \/ OpenBegin(o) \/ RequestPermission(o) \/ Drop(o)
                                    \/ \E choice \in Calls : Choose(o, choice)
        PROVE  SelectionInv'
    <3>1. CASE RequestPermission(o)
      BY <2>0, <3>1, PermissionHolds
    <3>2. CASE \E choice \in Calls : Choose(o, choice)
      BY <2>0, <3>2, ChooseHolds
    <3>3. CASE ListDevices(o)
      BY <2>0, <3>3, ListHolds
    <3>4. ASSUME \/ OpenBegin(o) \/ Drop(o) \/ OpenDevice(o) \/ SelectConfiguration(o) \/ Claim(o)
                 \/ ReadLanguage(o) \/ Configure(o) \/ Initialize(o) \/ Shutdown(o) \/ Cleanup(o)
                 \/ \E string, next : /\ next \notin {"building", "list"}
                                      /\ ReadString(o, string, next)
          PROVE  SelectionInv'
      <4>1. Stays(o)
        BY <2>0, <3>4, OtherStepsStay
      <4> QED
        BY <4>1, StaysHeld
    <3>5. /\ "product" \notin {"building", "list"} /\ "configure" \notin {"building", "list"}
      OBVIOUS
    <3> QED
      BY <2>3, <3>1, <3>2, <3>3, <3>4, <3>5 DEF Step
  <2> QED
    BY <2>2, <2>3 DEF Next
<1> QED
  BY <1>1, <1>2, InvariantHolds, PTL DEF Spec

\* What list shows, what is picked in a browser's dialog and what is asked for
\* last is what select takes, after any calls on the builder and any changes of
\* the bus; what is not found was not there (discovery.rs, device.rs).
THEOREM SelectedSafe == Spec => []SelectedAsAsked
<1>1. DiscoveryInv /\ SelectionInv => SelectedAsAsked
  <2> SUFFICES ASSUME DiscoveryInv, SelectionInv PROVE SelectedAsAsked
    OBVIOUS
  <2>0. BusInv
    BY DEF DiscoveryInv
  <2>1. ListSelectAgree
    BY <2>0, Agreement
  <2>2. PermissionSuffices
    <3> SUFFICES ASSUME NEW o \in Openers, op[o].permitted \in Range(bus),
                        op[o].selector.index = None
                 PROVE  Select(op[o].selector) # {}
      BY DEF PermissionSuffices
    <3>1. PICK i \in DOMAIN bus : op[o].permitted = bus[i]
      BY DEF Range
    <3>2. bus[i] # None
      <4>1. bus[i] \in Devices \X Nat
        BY <2>0 DEF BusInv, Attachment
      <4> QED
        BY <4>1, DiscoveryAssumption
    <3>3. /\ op[o].permitted \in granted
          /\ MatchesId(op[o].selector, op[o].permitted)
          /\ op[o].selector.serial \in {None, Listed(op[o].permitted[1], "serial")}
      BY <3>1, <3>2 DEF SelectionInv, Picked
    <3>4. i \in Hits(op[o].selector)
      BY <3>1, <3>3 DEF Hits, Places, Matches
    <3> QED
      BY <2>0, <3>4, SelectFirst
  <2>3. FoundAsAsked
    BY DEF FoundAsAsked, SelectionInv, Found
  <2> QED
    BY <2>1, <2>2, <2>3 DEF SelectedAsAsked
<1> QED
  BY <1>1, InvariantHolds, SelectionHolds, PTL
================================================================================
