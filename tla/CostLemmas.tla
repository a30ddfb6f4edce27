------------------------------- MODULE CostLemmas -------------------------------
(***************************************************************************)
(* What the operators of Cost compute, for inputs of any length: sums over *)
(* sequences, the manifests an estimate keeps, and the price of one        *)
(* manifest.  The recursive functions they are built from are shown to     *)
(* exist, and their values are bounded, by induction in the form of        *)
(* SetInduction below, which speaks of a set where the usual rule speaks   *)
(* of a formula.                                                           *)
(***************************************************************************)
EXTENDS Cost, WellFoundedInduction, SequenceTheorems, TLAPS

LEMMA SetInduction ==
    ASSUME NEW S, 0 \in S, \A n \in Nat : n \in S => n + 1 \in S
    PROVE  Nat \subseteq S
<1> DEFINE T == Nat \ S
           R == {ss \in Nat \X Nat : ss[1] < ss[2]}
<1>1. SUFFICES ASSUME T # {} PROVE FALSE
  OBVIOUS
<1>2. IsWellFoundedOn(R, Nat)
  BY NatLessThanWellFounded DEF OpToRel
<1>3. PICK x \in T : \A y \in T : <<y, x>> \notin R
  <2> HIDE DEF R
  <2>1. T \subseteq Nat
    OBVIOUS
  <2> HIDE DEF T
  <2> QED
    BY <1>1, <1>2, <2>1, WFMin
<1>4. x \in Nat /\ x # 0
  OBVIOUS
<1>5. x - 1 \in Nat /\ x - 1 < x /\ (x - 1) + 1 = x
  BY <1>4
<1>6. x - 1 \in S
  BY <1>3, <1>5
<1>7. QED
  BY <1>5, <1>6

--------------------------------------------------------------------------------
(* Sums. *)

\* The partial sums of a, as Total computes them.
IsPartial(sum, a, n) == sum = [k \in 0..n |-> IF k = 0 THEN 0 ELSE sum[k - 1] + a[k]]

Partial(a) == CHOOSE sum : IsPartial(sum, a, Len(a))

LEMMA PartialExists ==
    ASSUME NEW a, Len(a) \in Nat
    PROVE  IsPartial(Partial(a), a, Len(a))
<1> DEFINE S == {n \in Nat : \E sum : IsPartial(sum, a, n)}
<1>1. 0 \in S
  <2>1. IsPartial([k \in 0..0 |-> 0], a, 0)
    BY DEF IsPartial
  <2>2. QED
    BY <2>1
<1>2. ASSUME NEW n \in Nat, n \in S PROVE n + 1 \in S
  <2>1. PICK sum : IsPartial(sum, a, n)
    BY <1>2
  <2> DEFINE next == [k \in 0..(n + 1) |-> IF k = n + 1 THEN sum[n] + a[n + 1] ELSE sum[k]]
  <2>2. IsPartial(next, a, n + 1)
    BY <2>1 DEF IsPartial
  <2>3. QED
    BY <2>2
<1>3. Nat \subseteq S
  <2> HIDE DEF S
  <2> QED
    BY <1>1, <1>2, SetInduction
<1>4. QED
  BY <1>3 DEF Partial

\* Its defining equations.
LEMMA PartialStep ==
    ASSUME NEW a, Len(a) \in Nat
    PROVE  /\ Partial(a)[0] = 0
           /\ \A k \in 1..Len(a) : Partial(a)[k] = Partial(a)[k - 1] + a[k]
           /\ Total(a) = Partial(a)[Len(a)]
<1>1. Total(a) = Partial(a)[Len(a)]
  BY DEF Total, Partial, IsPartial
<1>2. QED
  BY <1>1, PartialExists DEF IsPartial

LEMMA PartialNext ==
    ASSUME NEW a, Len(a) \in Nat, NEW n \in Nat, n + 1 <= Len(a)
    PROVE  Partial(a)[n + 1] = Partial(a)[n] + a[n + 1]
<1>1. n + 1 \in 1..Len(a) /\ (n + 1) - 1 = n
  OBVIOUS
<1>2. QED
  BY <1>1, PartialStep

LEMMA TotalEmpty == Total(<<>>) = 0
  BY PartialStep

\* What is said of natural numbers here is, where it holds, said of integers too.
Numbers(N) == N = Nat \/ N = Int

LEMMA NumbersClosed ==
    ASSUME NEW N, Numbers(N)
    PROVE  /\ Nat \subseteq N /\ N \subseteq Int
           /\ \A m, n \in N : m + n \in N
           /\ \A m, n \in N : m * n \in N
  BY DEF Numbers

LEMMA NatNumbers == Numbers(Nat) /\ Numbers(Int)
  BY DEF Numbers

LEMMA PartialNumber ==
    ASSUME NEW N, Numbers(N), NEW a \in Seq(N) PROVE \A k \in 0..Len(a) : Partial(a)[k] \in N
<1> DEFINE S == {n \in Nat : n <= Len(a) => Partial(a)[n] \in N}
<1>1. 0 \in S
  BY PartialStep, NumbersClosed
<1>2. ASSUME NEW n \in Nat, n \in S PROVE n + 1 \in S
  <2> SUFFICES ASSUME n + 1 <= Len(a) PROVE Partial(a)[n + 1] \in N
    OBVIOUS
  <2>1. Partial(a)[n] \in N /\ a[n + 1] \in N
    BY <1>2
  <2>2. Partial(a)[n + 1] = Partial(a)[n] + a[n + 1]
    BY PartialNext
  <2>3. QED
    BY <2>1, <2>2, NumbersClosed
<1>3. Nat \subseteq S
  <2> HIDE DEF S
  <2> QED
    BY <1>1, <1>2, SetInduction
<1>4. QED
  BY <1>3

LEMMA TotalNumber == ASSUME NEW N, Numbers(N), NEW a \in Seq(N) PROVE Total(a) \in N
  BY PartialNumber, PartialStep

LEMMA PartialNat ==
    ASSUME NEW a \in Seq(Nat) PROVE \A k \in 0..Len(a) : Partial(a)[k] \in Nat
  BY PartialNumber, NatNumbers

LEMMA TotalNat == ASSUME NEW a \in Seq(Nat) PROVE Total(a) \in Nat
  BY TotalNumber, NatNumbers

\* More amounts, or larger ones, do not add up to less.
LEMMA TotalMonotone ==
    ASSUME NEW a \in Seq(Nat), NEW b \in Seq(Nat), Len(a) <= Len(b),
           \A i \in 1..Len(a) : a[i] <= b[i]
    PROVE  Total(a) <= Total(b)
<1> DEFINE A(k) == IF k <= Len(a) THEN Partial(a)[k] ELSE Total(a)
           S == {n \in Nat : n <= Len(b) => A(n) <= Partial(b)[n]}
<1>1. 0 \in S
  BY PartialStep
<1>2. ASSUME NEW n \in Nat, n \in S PROVE n + 1 \in S
  <2> SUFFICES ASSUME n + 1 <= Len(b) PROVE A(n + 1) <= Partial(b)[n + 1]
    OBVIOUS
  <2>1. /\ n + 1 \in 1..Len(b) /\ n \in 0..Len(b) /\ b[n + 1] \in Nat /\ Partial(b)[n] \in Nat
        /\ Partial(b)[n + 1] = Partial(b)[n] + b[n + 1]
    BY PartialNext, PartialNat
  <2>2. A(n) <= Partial(b)[n]
    BY <1>2
  <2>3. CASE n + 1 <= Len(a)
    <3>1. n + 1 \in 1..Len(a) /\ n \in 0..Len(a) /\ a[n + 1] <= b[n + 1] /\ a[n + 1] \in Nat
      BY <2>3
    <3>2. Partial(a)[n] \in Nat /\ Partial(a)[n + 1] = Partial(a)[n] + a[n + 1]
      BY <2>3, <3>1, PartialNext, PartialNat, Len(a) \in Nat
    <3>3. A(n) = Partial(a)[n] /\ A(n + 1) = Partial(a)[n + 1]
      BY <2>3
    <3>4. QED
      <4>1. \A w, x, y, z \in Nat : w <= x /\ y <= z => w + y <= x + z
        OBVIOUS
      <4> HIDE DEF A
      <4>2. QED
        BY <2>1, <2>2, <3>1, <3>2, <3>3, <4>1
  <2>4. CASE ~(n + 1 <= Len(a))
    <3>1. A(n) = Total(a) /\ A(n + 1) = Total(a) /\ Total(a) \in Nat
      BY <2>4, PartialStep, TotalNat
    <3>2. QED
      BY <2>1, <2>2, <3>1
  <2>5. QED
    BY <2>3, <2>4
<1>3. Nat \subseteq S
  <2> HIDE DEF S
  <2> QED
    BY <1>1, <1>2, SetInduction
<1>4. Len(b) \in S
  BY <1>3
<1>5. QED
  BY <1>4, PartialStep

\* A sum with one amount in it is that amount.
LEMMA TotalOfOne ==
    ASSUME NEW a \in Seq(Nat), NEW i \in 1..Len(a), \A j \in 1..Len(a) : j # i => a[j] = 0
    PROVE  Total(a) = a[i]
<1> DEFINE S == {n \in Nat : n <= Len(a) => Partial(a)[n] = IF n < i THEN 0 ELSE a[i]}
<1>1. 0 \in S
  BY PartialStep
<1>2. ASSUME NEW n \in Nat, n \in S PROVE n + 1 \in S
  <2> SUFFICES ASSUME n + 1 <= Len(a) PROVE Partial(a)[n + 1] = IF n + 1 < i THEN 0 ELSE a[i]
    OBVIOUS
  <2>1. Partial(a)[n + 1] = Partial(a)[n] + a[n + 1] /\ a[n + 1] \in Nat
    BY PartialNext
  <2>2. n + 1 # i => a[n + 1] = 0
    OBVIOUS
  <2>3. QED
    BY <1>2, <2>1, <2>2
<1>3. Nat \subseteq S
  <2> HIDE DEF S
  <2> QED
    BY <1>1, <1>2, SetInduction
<1>4. Len(a) \in S
  BY <1>3
<1>5. QED
  BY <1>4, PartialStep

\* No amount exceeds the sum it is part of.
LEMMA TotalBoundsEach ==
    ASSUME NEW a \in Seq(Nat), NEW i \in 1..Len(a) PROVE a[i] <= Total(a)
<1> DEFINE one == [j \in 1..Len(a) |-> IF j = i THEN a[i] ELSE 0]
<1>1. one \in Seq(Nat) /\ Len(one) = Len(a) /\ Len(one) <= Len(a) /\ one[i] = a[i] /\ i \in 1..Len(one)
  OBVIOUS
<1>2. /\ \A j \in 1..Len(one) : one[j] <= a[j]
      /\ \A j \in 1..Len(one) : j # i => one[j] = 0
  OBVIOUS
<1> HIDE DEF one
<1>3. Total(one) <= Total(a)
  BY <1>1, <1>2, TotalMonotone
<1>4. Total(one) = one[i]
  BY <1>1, <1>2, TotalOfOne
<1>5. QED
  BY <1>1, <1>3, <1>4

--------------------------------------------------------------------------------
(* Maxima. *)

LEMMA MaxIs ==
    ASSUME NEW S \in SUBSET Int, NEW m \in S, \A x \in S : x <= m PROVE Max(S) = m
<1>1. \A y \in S : m >= y
  OBVIOUS
<1>2. \A x \in S : (\A y \in S : x >= y) => x = m
  OBVIOUS
<1>3. Max(S) \in S /\ \A y \in S : Max(S) >= y
  BY <1>1 DEF Max
<1>4. QED
  BY <1>2, <1>3

LEMMA BoundedMax ==
    ASSUME NEW b \in Nat, NEW S \in SUBSET Nat, S # {}, \A x \in S : x <= b
    PROVE  Max(S) \in S /\ \A x \in S : x <= Max(S)
<1> DEFINE P == {n \in Nat : \A T \in SUBSET Nat :
                     T # {} /\ (\A x \in T : x <= n) => \E m \in T : \A x \in T : x <= m}
<1>1. 0 \in P
  <2> SUFFICES ASSUME NEW T \in SUBSET Nat, T # {}, \A x \in T : x <= 0
               PROVE  \E m \in T : \A x \in T : x <= m
    OBVIOUS
  <2>1. PICK x : x \in T
    OBVIOUS
  <2>2. QED
    BY <2>1
<1>2. ASSUME NEW n \in Nat, n \in P PROVE n + 1 \in P
  <2> SUFFICES ASSUME NEW T \in SUBSET Nat, T # {}, \A x \in T : x <= n + 1
               PROVE  \E m \in T : \A x \in T : x <= m
    OBVIOUS
  <2>1. CASE n + 1 \in T
    BY <2>1
  <2>2. CASE n + 1 \notin T
    <3>1. \A x \in T : x <= n
      BY <2>2
    <3>2. QED
      BY <1>2, <3>1
  <2>3. QED
    BY <2>1, <2>2
<1>3. Nat \subseteq P
  <2> HIDE DEF P
  <2> QED
    BY <1>1, <1>2, SetInduction
<1>4. \E m \in S : \A x \in S : x <= m
  BY <1>3
<1>5. QED
  BY <1>4, MaxIs

\* The largest of some amounts, zero among them.
LEMMA MaxOfSome ==
    ASSUME NEW a \in Seq(Int), NEW D \in SUBSET (1..Len(a))
    PROVE  LET S == {0} \cup {a[i] : i \in D}
           IN  Max(S) \in Nat /\ Max(S) \in S /\ \A x \in S : x <= Max(S)
<1> DEFINE S == {0} \cup {a[i] : i \in D}
           b == [i \in 1..Len(a) |-> IF a[i] < 0 THEN 0 ELSE a[i]]
           T == {0} \cup {b[i] : i \in D}
<1>1. b \in Seq(Nat) /\ Len(b) = Len(a)
  OBVIOUS
<1>2. T \in SUBSET Nat /\ T # {}
  <2>1. \A i \in D : b[i] \in Nat
    OBVIOUS
  <2> HIDE DEF b
  <2>2. QED
    BY <2>1
<1>3. Total(b) \in Nat /\ \A x \in T : x <= Total(b)
  <2>1. Total(b) \in Nat /\ \A i \in D : b[i] <= Total(b)
    <3> HIDE DEF b
    <3> QED
      BY <1>1, TotalNat, TotalBoundsEach
  <2> HIDE DEF b
  <2>2. QED
    BY <2>1
<1>4. Max(T) \in T /\ \A x \in T : x <= Max(T)
  <2> HIDE DEF T, b
  <2> QED
    BY <1>2, <1>3, BoundedMax
<1>5. S \in SUBSET Int /\ T \subseteq S /\ \A x \in S : \E y \in T : x <= y
  <2>1. \A i \in D : a[i] \in Int /\ (b[i] = 0 \/ b[i] = a[i]) /\ a[i] <= b[i]
    OBVIOUS
  <2> HIDE DEF b
  <2>2. S \in SUBSET Int
    BY <2>1
  <2>3. T \subseteq S
    BY <2>1
  <2>4. ASSUME NEW x \in S PROVE \E y \in T : x <= y
    <3>1. CASE x = 0
      BY <3>1
    <3>2. CASE x # 0
      <4>1. PICK i \in D : x = a[i]
        BY <3>2
      <4>2. b[i] \in T /\ x <= b[i]
        BY <2>1, <4>1
      <4>3. QED
        BY <4>2
    <3>3. QED
      BY <3>1, <3>2
  <2>5. QED
    BY <2>2, <2>3, <2>4
<1>6. Max(T) \in Nat /\ Max(T) \in S /\ \A x \in S : x <= Max(T)
  <2> HIDE DEF S, T
  <2>1. Max(T) \in Nat /\ Max(T) \in S
    BY <1>2, <1>4, <1>5
  <2>2. ASSUME NEW x \in S PROVE x <= Max(T)
    <3>1. PICK y \in T : x <= y
      BY <1>5
    <3>2. y <= Max(T) /\ y \in Nat /\ x \in Int
      BY <1>2, <1>4, <1>5
    <3>3. QED
      BY <2>1, <3>1, <3>2
  <2>3. QED
    BY <2>1, <2>2
<1>7. Max(S) = Max(T)
  <2> HIDE DEF S, T
  <2> QED
    BY <1>5, <1>6, MaxIs
<1>8. QED
  BY <1>6, <1>7

--------------------------------------------------------------------------------
(* The manifests an estimate keeps. *)

IsSelection(sel, objs, n) ==
    sel = [k \in 0..n |-> IF k = 0 THEN <<>> ELSE Keep(sel[k - 1], objs[k])]

Selection(objs) == CHOOSE sel : IsSelection(sel, objs, Len(objs))

LEMMA SelectionExists ==
    ASSUME NEW objs, Len(objs) \in Nat
    PROVE  IsSelection(Selection(objs), objs, Len(objs))
<1> DEFINE S == {n \in Nat : \E sel : IsSelection(sel, objs, n)}
<1>1. 0 \in S
  <2>1. IsSelection([k \in 0..0 |-> <<>>], objs, 0)
    BY DEF IsSelection
  <2>2. QED
    BY <2>1
<1>2. ASSUME NEW n \in Nat, n \in S PROVE n + 1 \in S
  <2>1. PICK sel : IsSelection(sel, objs, n)
    BY <1>2
  <2> DEFINE next == [k \in 0..(n + 1) |-> IF k = n + 1 THEN Keep(sel[n], objs[n + 1]) ELSE sel[k]]
  <2>2. IsSelection(next, objs, n + 1)
    BY <2>1 DEF IsSelection
  <2>3. QED
    BY <2>2
<1>3. Nat \subseteq S
  <2> HIDE DEF S
  <2> QED
    BY <1>1, <1>2, SetInduction
<1>4. QED
  BY <1>3 DEF Selection

LEMMA SelectionStep ==
    ASSUME NEW objs, Len(objs) \in Nat
    PROVE  /\ Selection(objs)[0] = <<>>
           /\ \A n \in Nat : n + 1 <= Len(objs) =>
                  Selection(objs)[n + 1] = Keep(Selection(objs)[n], objs[n + 1])
           /\ Priced(objs) = Selection(objs)[Len(objs)]
<1>1. Priced(objs) = Selection(objs)[Len(objs)]
  BY DEF Priced, Selection, IsSelection
<1>2. \A n \in Nat : n + 1 <= Len(objs) => n + 1 \in 1..Len(objs) /\ (n + 1) - 1 = n
  OBVIOUS
<1>3. QED
  BY <1>1, <1>2, SelectionExists DEF IsSelection

\* The positions of the manifests that can be priced.
PriceableAt(objs) == {i \in DOMAIN objs : Priceable(objs[i])}

LEMMA PricedType ==
    ASSUME NEW M, NEW objs \in Seq(M)
    PROVE  Priced(objs) \in Seq({objs[i] : i \in PriceableAt(objs)})
<1> DEFINE K == {objs[i] : i \in PriceableAt(objs)}
           S == {n \in Nat : n <= Len(objs) => Selection(objs)[n] \in Seq(K)}
<1>1. 0 \in S
  <2>1. <<>> \in Seq(K)
    OBVIOUS
  <2>2. Selection(objs)[0] = <<>>
    BY SelectionStep
  <2> HIDE DEF K
  <2>3. QED
    BY <2>1, <2>2
<1>2. ASSUME NEW n \in Nat, n \in S PROVE n + 1 \in S
  <2> SUFFICES ASSUME n + 1 <= Len(objs) PROVE Selection(objs)[n + 1] \in Seq(K)
    OBVIOUS
  <2>1. Selection(objs)[n] \in Seq(K)
    BY <1>2
  <2>2. Priceable(objs[n + 1]) => objs[n + 1] \in K
    BY DEF PriceableAt
  <2>3. Selection(objs)[n + 1] = Keep(Selection(objs)[n], objs[n + 1])
    BY SelectionStep
  <2>4. Keep(Selection(objs)[n], objs[n + 1]) \in Seq(K)
    <3> HIDE DEF K
    <3> QED
      BY <2>1, <2>2 DEF Keep
  <2>5. QED
    BY <2>3, <2>4
<1>3. Nat \subseteq S
  <2> HIDE DEF S
  <2> QED
    BY <1>1, <1>2, SetInduction
<1>4. Len(objs) \in S
  BY <1>3
<1>5. QED
  BY <1>4, SelectionStep

--------------------------------------------------------------------------------
(* What a pod reserves. *)

Fields == {"cpu", "mem", "sto"}
Resources(N) == [cpu : N, mem : N, sto : N]

\* No quantity of the container is malformed.
Readable(N, t, c) == c.sidecar \in BOOLEAN /\ ContainerResources(t, c) \in Resources(N)

ReadablePod(N, t, pod) ==
    /\ pod.containers \in Seq({c \in Range(pod.containers) : Readable(N, t, c)})
    /\ pod.inits \in Seq({c \in Range(pod.inits) : Readable(N, t, c)})

\* The amounts that Running and MaxInit are made of.
AppAmounts(t, pod, field) ==
    [i \in DOMAIN pod.containers |-> ContainerResources(t, pod.containers[i])[field]]
SidecarAmounts(t, pod, field) ==
    [i \in DOMAIN pod.inits |-> IF pod.inits[i].sidecar
                                THEN ContainerResources(t, pod.inits[i])[field] ELSE 0]
InitAmounts(t, pod, field) ==
    [i \in DOMAIN pod.inits |-> ContainerResources(t, pod.inits[i])[field]]
Ordinary(pod) == {j \in DOMAIN pod.inits : ~pod.inits[j].sidecar}

LEMMA AmountsType ==
    ASSUME NEW N, Numbers(N), NEW t, NEW pod, ReadablePod(N, t, pod), NEW field \in Fields
    PROVE  /\ AppAmounts(t, pod, field) \in Seq(N)
           /\ Len(AppAmounts(t, pod, field)) = Len(pod.containers)
           /\ SidecarAmounts(t, pod, field) \in Seq(N)
           /\ Len(SidecarAmounts(t, pod, field)) = Len(pod.inits)
           /\ InitAmounts(t, pod, field) \in Seq(N)
           /\ Len(InitAmounts(t, pod, field)) = Len(pod.inits)
           /\ Ordinary(pod) \in SUBSET (1..Len(InitAmounts(t, pod, field)))
           /\ DOMAIN pod.inits = 1..Len(pod.inits) /\ Len(pod.inits) \in Nat
           /\ DOMAIN pod.containers = 1..Len(pod.containers) /\ Len(pod.containers) \in Nat
<1>1. \A c : Readable(N, t, c) => ContainerResources(t, c)[field] \in N
  BY DEF Readable, Resources, Fields
<1>2. /\ DOMAIN pod.inits = 1..Len(pod.inits) /\ Len(pod.inits) \in Nat
      /\ \A i \in DOMAIN pod.inits : Readable(N, t, pod.inits[i])
  BY DEF ReadablePod
<1>3. /\ DOMAIN pod.containers = 1..Len(pod.containers) /\ Len(pod.containers) \in Nat
      /\ \A i \in DOMAIN pod.containers : Readable(N, t, pod.containers[i])
  BY DEF ReadablePod
<1>4. /\ AppAmounts(t, pod, field) \in Seq(N)
      /\ Len(AppAmounts(t, pod, field)) = Len(pod.containers)
  BY <1>1, <1>3 DEF AppAmounts
<1>5. /\ SidecarAmounts(t, pod, field) \in Seq(N)
      /\ Len(SidecarAmounts(t, pod, field)) = Len(pod.inits)
  BY <1>1, <1>2, NumbersClosed DEF SidecarAmounts
<1>6. /\ InitAmounts(t, pod, field) \in Seq(N)
      /\ Len(InitAmounts(t, pod, field)) = Len(pod.inits)
  BY <1>1, <1>2 DEF InitAmounts
<1>7. QED
  BY <1>2, <1>3, <1>4, <1>5, <1>6 DEF Ordinary

LEMMA RunningIs ==
    ASSUME NEW t, NEW pod, NEW field
    PROVE  Running(t, pod, field)
               = Total(AppAmounts(t, pod, field)) + Total(SidecarAmounts(t, pod, field))
  BY DEF Running, AppAmounts, SidecarAmounts

LEMMA MaxInitIs ==
    ASSUME NEW t, NEW pod, NEW field
    PROVE  MaxInit(t, pod, field) = Max({0} \cup {InitAmounts(t, pod, field)[i] : i \in Ordinary(pod)})
<1>1. {ContainerResources(t, pod.inits[i])[field] : i \in Ordinary(pod)}
          = {InitAmounts(t, pod, field)[i] : i \in Ordinary(pod)}
  BY DEF InitAmounts, Ordinary
<1>2. QED
  BY <1>1 DEF MaxInit, Ordinary

LEMMA PodAmounts ==
    ASSUME NEW N, Numbers(N), NEW t, NEW pod, ReadablePod(N, t, pod), NEW field \in Fields
    PROVE  /\ Running(t, pod, field) \in N
           /\ MaxInit(t, pod, field) \in Nat
           /\ \A i \in Ordinary(pod) :
                  ContainerResources(t, pod.inits[i])[field] <= MaxInit(t, pod, field)
           /\ \/ MaxInit(t, pod, field) = 0
              \/ \E i \in Ordinary(pod) :
                     MaxInit(t, pod, field) = ContainerResources(t, pod.inits[i])[field]
<1>1. Running(t, pod, field) \in N
  BY RunningIs, AmountsType, TotalNumber, NumbersClosed
<1> DEFINE a == InitAmounts(t, pod, field)
           S == {0} \cup {a[i] : i \in Ordinary(pod)}
<1>2. Max(S) \in Nat /\ Max(S) \in S /\ \A x \in S : x <= Max(S)
  <2>1. a \in Seq(Int) /\ Ordinary(pod) \in SUBSET (1..Len(a))
    BY AmountsType, NumbersClosed
  <2> HIDE DEF a
  <2> QED
    BY <2>1, MaxOfSome
<1>3. \A i \in Ordinary(pod) : a[i] = ContainerResources(t, pod.inits[i])[field] /\ a[i] \in S
  BY DEF InitAmounts, Ordinary
<1>4. MaxInit(t, pod, field) = Max(S)
  BY MaxInitIs
<1>5. Max(S) = 0 \/ \E i \in Ordinary(pod) : Max(S) = a[i]
  <2> HIDE DEF a
  <2> QED
    BY <1>2
<1>6. QED
  <2> HIDE DEF S, a
  <2> QED
    BY <1>1, <1>2, <1>3, <1>4, <1>5

LEMMA PodResourcesType ==
    ASSUME NEW N, Numbers(N), NEW t, NEW pod, ReadablePod(N, t, pod)
    PROVE  PodResources(t, pod) \in Resources(N)
  BY PodAmounts, NumbersClosed DEF PodResources, Larger, Fields, Resources

\* q asks for at least what p asks for, container by container, and keeps its
\* sidecars.
AsksForMore(t, p, q) ==
    /\ Len(p.containers) <= Len(q.containers)
    /\ Len(p.inits) <= Len(q.inits)
    /\ \A field \in Fields :
           /\ \A i \in 1..Len(p.containers) :
                  ContainerResources(t, p.containers[i])[field]
                      <= ContainerResources(t, q.containers[i])[field]
           /\ \A i \in 1..Len(p.inits) :
                  ContainerResources(t, p.inits[i])[field]
                      <= ContainerResources(t, q.inits[i])[field]
    /\ \A i \in 1..Len(p.inits) : p.inits[i].sidecar <=> q.inits[i].sidecar

AtLeast(r, s) == r.cpu <= s.cpu /\ r.mem <= s.mem /\ r.sto <= s.sto

LEMMA PodLengths ==
    ASSUME NEW N, NEW t, NEW pod, ReadablePod(N, t, pod)
    PROVE  /\ DOMAIN pod.inits = 1..Len(pod.inits) /\ Len(pod.inits) \in Nat
           /\ DOMAIN pod.containers = 1..Len(pod.containers) /\ Len(pod.containers) \in Nat
  BY DEF ReadablePod

LEMMA RunningMonotone ==
    ASSUME NEW t, NEW p, NEW q, ReadablePod(Nat, t, p), ReadablePod(Nat, t, q), AsksForMore(t, p, q),
           NEW field \in Fields
    PROVE  Running(t, p, field) <= Running(t, q, field)
<1>1. Total(AppAmounts(t, p, field)) <= Total(AppAmounts(t, q, field))
  <2> DEFINE a == AppAmounts(t, p, field)
             b == AppAmounts(t, q, field)
  <2>1. a \in Seq(Nat) /\ b \in Seq(Nat) /\ Len(a) = Len(p.containers) /\ Len(b) = Len(q.containers)
        /\ Len(a) <= Len(b)
    BY AmountsType, NatNumbers DEF AsksForMore
  <2>2. \A i \in 1..Len(a) : a[i] <= b[i]
    <3> SUFFICES ASSUME NEW i \in 1..Len(p.containers) PROVE a[i] <= b[i]
      BY <2>1
    <3>1. i \in DOMAIN p.containers /\ i \in DOMAIN q.containers
      BY PodLengths DEF AsksForMore
    <3>2. QED
      BY <3>1 DEF AppAmounts, AsksForMore
  <2>3. Total(a) <= Total(b)
    <3> HIDE DEF a, b
    <3> QED
      BY <2>1, <2>2, TotalMonotone
  <2>4. QED
    BY <2>3
<1>2. Total(SidecarAmounts(t, p, field)) <= Total(SidecarAmounts(t, q, field))
  <2> DEFINE a == SidecarAmounts(t, p, field)
             b == SidecarAmounts(t, q, field)
  <2>1. a \in Seq(Nat) /\ b \in Seq(Nat) /\ Len(a) = Len(p.inits) /\ Len(b) = Len(q.inits)
        /\ Len(a) <= Len(b)
    BY AmountsType, NatNumbers DEF AsksForMore
  <2>2. \A i \in 1..Len(a) : a[i] <= b[i]
    <3> SUFFICES ASSUME NEW i \in 1..Len(p.inits) PROVE a[i] <= b[i]
      BY <2>1
    <3>1. i \in DOMAIN p.inits /\ i \in DOMAIN q.inits
      BY PodLengths DEF AsksForMore
    <3>2. (p.inits[i].sidecar <=> q.inits[i].sidecar)
          /\ ContainerResources(t, p.inits[i])[field] <= ContainerResources(t, q.inits[i])[field]
      BY DEF AsksForMore
    <3>3. QED
      BY <3>1, <3>2 DEF SidecarAmounts
  <2>3. Total(a) <= Total(b)
    <3> HIDE DEF a, b
    <3> QED
      BY <2>1, <2>2, TotalMonotone
  <2>4. QED
    BY <2>3
<1>3. /\ Total(AppAmounts(t, p, field)) \in Nat /\ Total(AppAmounts(t, q, field)) \in Nat
      /\ Total(SidecarAmounts(t, p, field)) \in Nat /\ Total(SidecarAmounts(t, q, field)) \in Nat
  BY AmountsType, NatNumbers, TotalNat
<1>4. QED
  BY <1>1, <1>2, <1>3, RunningIs

LEMMA MaxInitMonotone ==
    ASSUME NEW t, NEW p, NEW q, ReadablePod(Nat, t, p), ReadablePod(Nat, t, q), AsksForMore(t, p, q),
           NEW field \in Fields
    PROVE  MaxInit(t, p, field) <= MaxInit(t, q, field)
<1>1. CASE MaxInit(t, p, field) = 0
  BY <1>1, PodAmounts, NatNumbers
<1>2. ASSUME NEW i \in Ordinary(p), MaxInit(t, p, field) = ContainerResources(t, p.inits[i])[field]
      PROVE  MaxInit(t, p, field) <= MaxInit(t, q, field)
  <2>1. i \in 1..Len(p.inits) /\ i \in DOMAIN q.inits
    BY AmountsType, NatNumbers DEF Ordinary, AsksForMore
  <2>2. i \in Ordinary(q)
    BY <2>1 DEF Ordinary, AsksForMore
  <2>3. ContainerResources(t, p.inits[i])[field] <= ContainerResources(t, q.inits[i])[field]
    BY <2>1 DEF AsksForMore
  <2>4. ContainerResources(t, q.inits[i])[field] <= MaxInit(t, q, field)
    BY <2>2, PodAmounts, NatNumbers
  <2>5. ContainerResources(t, q.inits[i])[field] \in Nat
    <3>1. InitAmounts(t, q, field) \in Seq(Nat) /\ i \in 1..Len(InitAmounts(t, q, field))
      BY <2>1, AmountsType, NatNumbers
    <3>2. InitAmounts(t, q, field)[i] \in Nat
      BY <3>1
    <3>3. QED
      BY <2>1, <3>2 DEF InitAmounts
  <2>6. QED
    BY <1>2, <2>3, <2>4, <2>5, PodAmounts, NatNumbers
<1>3. QED
  BY <1>1, <1>2, PodAmounts, NatNumbers

\* Asking for more never reserves less.
LEMMA PodResourcesMonotone ==
    ASSUME NEW t, NEW p, NEW q, ReadablePod(Nat, t, p), ReadablePod(Nat, t, q), AsksForMore(t, p, q)
    PROVE  AtLeast(PodResources(t, p), PodResources(t, q))
<1>1. \A field \in Fields : /\ Running(t, p, field) \in Nat /\ MaxInit(t, p, field) \in Nat
                            /\ Running(t, q, field) \in Nat /\ MaxInit(t, q, field) \in Nat
                            /\ Running(t, p, field) <= Running(t, q, field)
                            /\ MaxInit(t, p, field) <= MaxInit(t, q, field)
  BY PodAmounts, NatNumbers, RunningMonotone, MaxInitMonotone
<1>2. QED
  BY <1>1 DEF PodResources, AtLeast, Larger, Fields

--------------------------------------------------------------------------------
(* What a manifest costs. *)

LEMMA TimesNat == ASSUME NEW m \in Nat, NEW n \in Nat PROVE m * n \in Nat
  OBVIOUS

LEMMA TimesMonotone ==
    ASSUME NEW m \in Nat, NEW n \in Nat, NEW k \in Nat, m <= n PROVE m * k <= n * k /\ k * m <= k * n
  OBVIOUS

LEMMA MonthlyUSDType ==
    ASSUME NEW N, Numbers(N), NEW t, ReadTable(N, t), NEW r \in Resources(N) PROVE MonthlyUSD(t, r) \in N
  BY NumbersClosed DEF MonthlyUSD, HourlyUSD, ReadTable, Resources

LEMMA MonthlyUSDMonotone ==
    ASSUME NEW t, ReadTable(Nat, t), NEW r \in Resources(Nat), NEW s \in Resources(Nat), AtLeast(r, s)
    PROVE  MonthlyUSD(t, r) <= MonthlyUSD(t, s)
<1>1. HourlyUSD(t, r) \in Nat /\ HourlyUSD(t, s) \in Nat /\ t.hours \in Nat
  BY TimesNat DEF HourlyUSD, ReadTable, Resources
<1>2. r.cpu * t.cpu <= s.cpu * t.cpu /\ r.mem * t.mem <= s.mem * t.mem /\ r.sto * t.sto <= s.sto * t.sto
  BY TimesMonotone DEF AtLeast, ReadTable, Resources
<1>3. HourlyUSD(t, r) <= HourlyUSD(t, s)
  <2>1. \A a, b, c, d, e, f \in Nat : a <= d /\ b <= e /\ c <= f => a + b + c <= d + e + f
    OBVIOUS
  <2>2. /\ r.cpu * t.cpu \in Nat /\ r.mem * t.mem \in Nat /\ r.sto * t.sto \in Nat
        /\ s.cpu * t.cpu \in Nat /\ s.mem * t.mem \in Nat /\ s.sto * t.sto \in Nat
    BY TimesNat DEF ReadTable, Resources
  <2>3. QED
    BY <1>2, <2>1, <2>2 DEF HourlyUSD
<1>4. QED
  BY <1>1, <1>3, TimesMonotone DEF MonthlyUSD

LEMMA NothingReserved ==
    ASSUME NEW N, Numbers(N) PROVE [cpu |-> 0, mem |-> 0, sto |-> 0] \in Resources(N)
  BY DEF Numbers, Resources

LEMMA DecodedSequence ==
    ASSUME NEW N, NEW objs, AllDecoded(N, objs)
    PROVE  /\ Len(objs) \in Nat /\ DOMAIN objs = 1..Len(objs) /\ objs \in Seq(Range(objs))
           /\ \A i \in DOMAIN objs : Decoded(N, objs[i])
<1>1. \A i \in DOMAIN objs : objs[i] \in Range(objs)
  BY DEF Range
<1>2. QED
  BY <1>1 DEF AllDecoded

LEMMA ContainerReadable ==
    ASSUME NEW N, Numbers(N), NEW t, ReadTable(N, t), NEW c \in Containers(N),
           LET r == ContainerResources(t, c) IN Malformed \notin {r.cpu, r.mem, r.sto}
    PROVE  Readable(N, t, c)
  BY NumbersClosed DEF Readable, ContainerResources, OrDefault, Containers, Quantities, ReadTable, Resources

\* When the estimate does not fail, what it reads of a manifest it prices is there
\* to be read.
LEMMA ManifestReadable ==
    ASSUME NEW N, Numbers(N), NEW t, ReadTable(N, t), NEW objs, AllDecoded(N, objs), ~EstimateFails(t, objs),
           NEW i \in PriceableAt(objs), objs[i].kind \notin RunToCompletion
    PROVE  /\ objs[i].pod # Absent => ReadablePod(N, t, objs[i].pod)
           /\ objs[i].kind \in {"StatefulSet", "PersistentVolumeClaim"} => Malformed \notin Range(objs[i].claims)
<1> DEFINE o == objs[i]
<1>1. i \in {j \in DOMAIN objs : Priceable(objs[j]) /\ objs[j].kind \notin RunToCompletion}
  BY DEF PriceableAt
<1>2. ASSUME o.pod # Absent PROVE ReadablePod(N, t, o.pod)
  <2>1. o.pod.containers \in Seq(Containers(N)) /\ o.pod.inits \in Seq(Containers(N))
    <3>1. Decoded(N, o)
      BY <1>1, DecodedSequence
    <3>2. o.pod \in Pods(N)
      BY <1>2, <3>1 DEF Decoded
    <3>3. QED
      BY <3>2 DEF Pods
  <2>2. ASSUME NEW c \in Range(o.pod.containers) \cup Range(o.pod.inits) PROVE Readable(N, t, c)
    <3>1. c \in Containers(N)
      BY <2>1 DEF Range
    <3>2. LET r == ContainerResources(t, c) IN Malformed \notin {r.cpu, r.mem, r.sto}
      BY <1>1, <1>2 DEF EstimateFails
    <3>3. QED
      BY <3>1, <3>2, ContainerReadable
  <2>3. QED
    <3> DEFINE cs == o.pod.containers
               is == o.pod.inits
    <3>1. cs \in Seq(Containers(N)) /\ \A k \in DOMAIN cs : cs[k] \in Range(cs) /\ Readable(N, t, cs[k])
      BY <2>1, <2>2 DEF Range
    <3>2. is \in Seq(Containers(N)) /\ \A k \in DOMAIN is : is[k] \in Range(is) /\ Readable(N, t, is[k])
      BY <2>1, <2>2 DEF Range
    <3> HIDE DEF cs, is
    <3>3. cs \in Seq({c \in Range(cs) : Readable(N, t, c)})
      BY <3>1
    <3>4. is \in Seq({c \in Range(is) : Readable(N, t, c)})
      BY <3>2
    <3>5. QED
      BY <3>3, <3>4 DEF ReadablePod, cs, is
<1>3. ASSUME o.kind \in {"StatefulSet", "PersistentVolumeClaim"} PROVE Malformed \notin Range(o.claims)
  BY <1>1, <1>3 DEF EstimateFails
<1>4. QED
  BY <1>2, <1>3

LEMMA ClaimedStorageType ==
    ASSUME NEW N, Numbers(N), NEW o, Decoded(N, o), Malformed \notin Range(o.claims)
    PROVE  ClaimedStorage(o) \in N
<1> DEFINE a == [i \in DOMAIN o.claims |-> OrDefault(o.claims[i], 0)]
<1>1. o.claims \in Seq(Quantities(N))
  BY DEF Decoded
<1>2. \A i \in DOMAIN o.claims : OrDefault(o.claims[i], 0) \in N
  BY <1>1, NumbersClosed DEF Quantities, OrDefault, Range
<1>3. a \in Seq(N)
  BY <1>1, <1>2
<1>4. Total(a) \in N
  <2> HIDE DEF a
  <2> QED
    BY <1>3, TotalNumber
<1>5. QED
  BY <1>4 DEF ClaimedStorage

LEMMA PerReplicaType ==
    ASSUME NEW N, Numbers(N), NEW t, ReadTable(N, t), NEW objs, AllDecoded(N, objs), ~EstimateFails(t, objs),
           NEW i \in PriceableAt(objs)
    PROVE  PerReplica(t, objs[i]) \in Resources(N)
<1> DEFINE o == objs[i]
           pod == IF o.pod = Absent \/ o.kind \in RunToCompletion
                  THEN [cpu |-> 0, mem |-> 0, sto |-> 0] ELSE PodResources(t, o.pod)
<1>1. Decoded(N, o)
  BY DecodedSequence DEF PriceableAt
<1>2. pod \in Resources(N)
  BY ManifestReadable, PodResourcesType, NothingReserved
<1>3. CASE o.kind \in {"StatefulSet", "PersistentVolumeClaim"}
  <2>1. ClaimedStorage(o) \in N
    BY <1>1, <1>3, ManifestReadable, ClaimedStorageType DEF RunToCompletion
  <2>2. PerReplica(t, o) = [pod EXCEPT !.sto = @ + ClaimedStorage(o)]
    BY <1>3 DEF PerReplica
  <2>3. QED
    <3> HIDE DEF pod
    <3> QED
      BY <1>2, <2>1, <2>2, NumbersClosed DEF Resources
<1>4. CASE o.kind \notin {"StatefulSet", "PersistentVolumeClaim"}
  BY <1>2, <1>4 DEF PerReplica
<1>5. QED
  BY <1>3, <1>4

\* The bounds a workload is priced between come from one of its autoscalers.
LEMMA BoundsAreAScalers ==
    ASSUME NEW N, Numbers(N), NEW objs, AllDecoded(N, objs), NEW o, ScalersOf(objs, o) # {}
    PROVE  Max(ScalersOf(objs, o)) \in ScalersOf(objs, o)
<1>1. ScalersOf(objs, o) \in SUBSET Nat /\ \A i \in ScalersOf(objs, o) : i <= Len(objs)
  BY DecodedSequence DEF ScalersOf
<1>2. Len(objs) \in Nat
  BY DecodedSequence
<1>3. QED
  BY <1>1, <1>2, BoundedMax

LEMMA BoundsType ==
    ASSUME NEW N, Numbers(N), NEW objs, AllDecoded(N, objs), NEW o, ScalersOf(objs, o) # {}
    PROVE  Bounds(objs, o).min \in N /\ Bounds(objs, o).max \in N
<1> DEFINE s == objs[Max(ScalersOf(objs, o))]
<1>1. Decoded(N, s)
  <2>1. Max(ScalersOf(objs, o)) \in DOMAIN objs
    BY BoundsAreAScalers DEF ScalersOf
  <2>2. QED
    BY <2>1, DecodedSequence
<1>2. s.min \in N \cup {Absent} /\ s.max \in N \cup {Absent}
  <2> HIDE DEF s
  <2> QED
    BY <1>1 DEF Decoded
<1>3. Bounds(objs, o) = IF s.kind = "ScaledObject"
        THEN [min |-> OrDefault(s.min, 0), max |-> OrDefault(s.max, KedaDefaultMaxReplicas)]
        ELSE [min |-> OrDefault(s.min, 1), max |-> OrDefault(s.max, 1)]
  BY DEF Bounds
<1>4. QED
  <2> HIDE DEF s
  <2> QED
    BY <1>2, <1>3, NumbersClosed DEF OrDefault, KedaDefaultMaxReplicas

\* A manifest that can be priced costs a number, at the floor and at the
\* ceiling.
LEMMA PriceType ==
    ASSUME NEW N, Numbers(N), NEW t, ReadTable(N, t), NEW nodes \in N,
           NEW objs, AllDecoded(N, objs), ~EstimateFails(t, objs), NEW i \in PriceableAt(objs)
    PROVE  LET w == Price(t, nodes, objs, objs[i]) IN w.ceiling \in N /\ w.floor \in N
<1> DEFINE o == objs[i]
<1>1. DeclaredReplicas(nodes, o) \in N
  <2>1. Decoded(N, o)
    BY DecodedSequence DEF PriceableAt
  <2> HIDE DEF o
  <2>2. o.replicas \in N \cup {Absent}
    BY <2>1 DEF Decoded
  <2>3. QED
    BY <2>2, NumbersClosed DEF DeclaredReplicas, OrDefault
<1>2. MonthlyUSD(t, PerReplica(t, o)) \in N
  BY PerReplicaType, MonthlyUSDType
<1>3. ScalersOf(objs, o) # {} => Bounds(objs, o).min \in N /\ Bounds(objs, o).max \in N
  BY BoundsType
<1> HIDE DEF o
<1>4. LET w == Price(t, nodes, objs, o) IN w.ceiling \in N /\ w.floor \in N
  BY <1>1, <1>2, <1>3, NumbersClosed DEF Price
<1>5. QED
  BY <1>4 DEF o

\* So does everything together.
LEMMA EstimateType ==
    ASSUME NEW N, Numbers(N), NEW t, ReadTable(N, t), NEW nodes \in N,
           NEW objs, AllDecoded(N, objs), ~EstimateFails(t, objs)
    PROVE  Estimate(t, nodes, objs).monthly \in N /\ Estimate(t, nodes, objs).committed \in N
<1> DEFINE priced == Priced(objs)
           ws == [k \in DOMAIN priced |-> Price(t, nodes, objs, priced[k])]
           cs == [k \in DOMAIN ws |-> ws[k].ceiling]
           fs == [k \in DOMAIN ws |-> ws[k].floor]
<1>1. priced \in Seq({objs[i] : i \in PriceableAt(objs)})
  BY PricedType, DecodedSequence
<1>2. \A k \in DOMAIN priced : \E i \in PriceableAt(objs) : priced[k] = objs[i]
  <2> HIDE DEF priced
  <2> QED
    BY <1>1
<1>3. \A k \in DOMAIN priced : ws[k].ceiling \in N /\ ws[k].floor \in N
  BY <1>2, PriceType
<1>4. DOMAIN ws = DOMAIN priced /\ DOMAIN priced = 1..Len(priced) /\ Len(priced) \in Nat
  <2> HIDE DEF priced
  <2> QED
    BY <1>1
<1>5. cs \in Seq(N) /\ fs \in Seq(N)
  <2> HIDE DEF ws, priced
  <2> QED
    BY <1>3, <1>4
<1>6. Total(cs) \in N /\ Total(fs) \in N
  <2> HIDE DEF cs, fs
  <2> QED
    BY <1>5, TotalNumber
<1>7. QED
  BY <1>6 DEF Estimate, EstimateOf

\* Nothing costs nothing.
LEMMA EstimateOfNothing ==
    ASSUME NEW t, NEW nodes PROVE Estimate(t, nodes, <<>>).monthly = 0
<1>1. Priced(<<>>) = <<>>
  BY SelectionStep
<1>2. Total(<<>>) = 0
  BY TotalEmpty
<1>3. QED
  BY <1>1, <1>2 DEF Estimate, EstimateOf

\* The estimate of manifests of which only the first can be priced.
LEMMA EstimateOfFirst ==
    ASSUME NEW t, NEW nodes, NEW objs, Len(objs) \in Nat, Len(objs) >= 1,
           Priceable(objs[1]), \A i \in 2..Len(objs) : ~Priceable(objs[i]),
           LET w == Price(t, nodes, objs, objs[1]) IN w.ceiling \in Nat /\ w.floor \in Nat
    PROVE  LET w == Price(t, nodes, objs, objs[1])
               e == Estimate(t, nodes, objs)
           IN  e.workloads[1] = w /\ e.monthly = w.ceiling /\ e.committed = w.floor
<1> DEFINE S == {n \in Nat : n + 1 <= Len(objs) => Selection(objs)[n + 1] = <<objs[1]>>}
<1>1. 0 \in S
  <2>1. Selection(objs)[0] = <<>> /\ Selection(objs)[0 + 1] = Keep(Selection(objs)[0], objs[0 + 1])
    BY SelectionStep
  <2>2. Keep(<<>>, objs[1]) = <<objs[1]>>
    BY DEF Keep
  <2>3. QED
    BY <2>1, <2>2
<1>2. ASSUME NEW n \in Nat, n \in S PROVE n + 1 \in S
  <2> SUFFICES ASSUME (n + 1) + 1 <= Len(objs) PROVE Selection(objs)[(n + 1) + 1] = <<objs[1]>>
    OBVIOUS
  <2>1. Selection(objs)[n + 1] = <<objs[1]>> /\ ~Priceable(objs[(n + 1) + 1])
    BY <1>2
  <2>2. Selection(objs)[(n + 1) + 1] = Keep(Selection(objs)[n + 1], objs[(n + 1) + 1])
    BY SelectionStep
  <2>3. QED
    BY <2>1, <2>2 DEF Keep
<1>3. Nat \subseteq S
  <2> HIDE DEF S
  <2> QED
    BY <1>1, <1>2, SetInduction
<1>4. Priced(objs) = <<objs[1]>>
  <2>1. PICK n \in Nat : n + 1 = Len(objs)
    <3>1. Len(objs) - 1 \in Nat /\ (Len(objs) - 1) + 1 = Len(objs)
      OBVIOUS
    <3>2. QED
      BY <3>1
  <2>2. n \in S
    BY <1>3
  <2>3. Selection(objs)[n + 1] = <<objs[1]>>
    BY <2>1, <2>2
  <2>4. QED
    BY <2>1, <2>3, SelectionStep
<1> DEFINE w == Price(t, nodes, objs, objs[1])
<1>5. Estimate(t, nodes, objs) = EstimateOf(<<w>>)
  <2>1. [i \in DOMAIN <<objs[1]>> |-> Price(t, nodes, objs, <<objs[1]>>[i])] = <<w>>
    OBVIOUS
  <2> HIDE DEF w
  <2>2. QED
    BY <1>4, <2>1 DEF Estimate
<1>6. ASSUME NEW n \in Nat PROVE Total(<<n>>) = n
  <2>1. <<n>> \in Seq(Nat) /\ 1 \in 1..Len(<<n>>) /\ <<n>>[1] = n
        /\ \A j \in 1..Len(<<n>>) : j # 1 => <<n>>[j] = 0
    OBVIOUS
  <2>2. QED
    BY <2>1, TotalOfOne
<1>7. QED
  <2> HIDE DEF w
  <2>1. /\ [i \in DOMAIN <<w>> |-> <<w>>[i].ceiling] = <<w.ceiling>>
        /\ [i \in DOMAIN <<w>> |-> <<w>>[i].floor] = <<w.floor>>
    OBVIOUS
  <2>2. w.ceiling \in Nat /\ w.floor \in Nat
    BY DEF w
  <2>3. EstimateOf(<<w>>) = [workloads |-> <<w>>, monthly |-> w.ceiling, committed |-> w.floor]
    BY <1>6, <2>1, <2>2 DEF EstimateOf
  <2>4. QED
    BY <1>5, <2>3 DEF w
================================================================================
