--------------------------- MODULE ExecutorProofs ---------------------------
(***************************************************************************)
(* What is proved about Executor, for any tasks, slots, durations and      *)
(* times and for heaps of every size: the timer heap keeps its entries and *)
(* has the earliest at its top, so that no sleeper is woken early and no   *)
(* poll runs past a deadline.                                              *)
(*                                                                         *)
(* sift_up and sift_down are recursive.  An induction over the place of    *)
(* the sifted entry is the argument that a set of counterexamples in which *)
(* each has one of lower rank is empty (NoDescent); that the recursive     *)
(* functions satisfy their equations at all is WellDefined.                *)
(***************************************************************************)
EXTENDS Executor, Integers, FiniteSetTheorems, WellFoundedInduction, TLAPS

-----------------------------------------------------------------------------
(* Induction and recursion over a rank.                                    *)

\* A set of naturals that is not empty has a least element.
LEMMA LeastNatural ==
    ASSUME NEW T, T \subseteq Nat, T # {}
    PROVE  \E x \in T : \A y \in T : x <= y
  <1> DEFINE R == OpToRel(<, Nat)
  <1>1. PICK x \in T : \A y \in T : ~(<<y, x>> \in R)
    <2>1. IsWellFoundedOn(R, Nat)
      BY NatLessThanWellFounded
    <2> HIDE DEF R
    <2> QED BY <2>1, WFMin
  <1>2. \A y \in T : ~(y < x)
    BY <1>1 DEF OpToRel
  <1> QED BY <1>2

\* A set in which every element has one of lower rank is empty.
LEMMA NoDescent ==
    ASSUME NEW Bad, NEW rank, \A d \in Bad : rank[d] \in Nat,
           \A d \in Bad : \E e \in Bad : rank[e] < rank[d]
    PROVE  Bad = {}
  <1> SUFFICES ASSUME Bad # {} PROVE FALSE
    OBVIOUS
  <1> DEFINE T == {rank[d] : d \in Bad}
  <1>1. T \subseteq Nat /\ T # {}
    OBVIOUS
  <1> HIDE DEF T
  <1>2. PICK x \in T : \A y \in T : x <= y
    BY <1>1, LeastNatural
  <1>3. PICK d \in Bad : x = rank[d]
    BY <1>2 DEF T
  <1>4. PICK e \in Bad : rank[e] < rank[d]
    BY <1>3
  <1>5. rank[e] \in T
    BY <1>4 DEF T
  <1> QED BY <1>2, <1>3, <1>4, <1>5

\* The elements of D of a rank below n, and a function that satisfies the
\* recursive equation on them: base where the recursion stops, and elsewhere
\* what comb makes of the value at the next element.
Ranked(D, rank, n) == {d \in D : rank[d] < n}
Solves(g, D, V, stop, base, comb, next) ==
    /\ g \in [D -> V]
    /\ \A d \in D : g[d] = IF d \in stop THEN base[d] ELSE comb[<<d, g[next[d]]>>]

\* Such an equation has a solution, when the rank sinks with every step.
LEMMA WellDefined ==
    ASSUME NEW D, NEW V, NEW rank \in [D -> Nat], NEW stop, NEW base \in [D -> V],
           NEW comb \in [D \X V -> V], NEW next,
           \A d \in D \ stop : next[d] \in D /\ rank[next[d]] < rank[d]
    PROVE  \E g : Solves(g, D, V, stop, base, comb, next)
  <1> DEFINE Sub(n) == Ranked(D, rank, n)
             Ok(g, n) == Solves(g, Sub(n), V, stop, base, comb, next)
  <1>0. \A n \in Nat : Sub(n) \subseteq D
    BY DEF Ranked
  <1>1. ASSUME NEW n \in Nat, NEW d \in Sub(n), d \notin stop
        PROVE  next[d] \in Sub(n) /\ next[d] \in Sub(n - 1) /\ rank[next[d]] < rank[d]
    BY <1>1 DEF Ranked
  <1>2. ASSUME NEW n \in Nat, NEW m \in Nat, NEW g, NEW h, Ok(g, n), Ok(h, m)
        PROVE  \A d \in Sub(n) \cap Sub(m) : g[d] = h[d]
    <2> DEFINE Bad == {d \in Sub(n) \cap Sub(m) : g[d] # h[d]}
    <2>1. ASSUME NEW d \in Bad
          PROVE  \E e \in Bad : rank[e] < rank[d]
      <3>1. d \notin stop
        BY <1>2 DEF Solves
      <3>2. next[d] \in Sub(n) \cap Sub(m) /\ rank[next[d]] < rank[d]
        BY <3>1, <1>1
      <3>3. g[next[d]] # h[next[d]]
        BY <3>1, <1>2 DEF Solves
      <3> QED BY <3>2, <3>3
    <2>2. \A d \in Bad : rank[d] \in Nat
      BY <1>0
    <2>3. Bad = {}
      <3> HIDE DEF Bad
      <3> QED BY <2>1, <2>2, NoDescent
    <2> QED BY <2>3
  <1>3. \A n \in Nat : \E g : Ok(g, n)
    <2> DEFINE Bad == {n \in Nat : ~ \E g : Ok(g, n)}
               id == [n \in Nat |-> n]
    <2>1. ASSUME NEW n \in Bad
          PROVE  \E m \in Bad : id[m] < id[n]
      <3>1. n # 0
        <4>1. Sub(0) = {}
          BY DEF Ranked
        <4>2. Ok([d \in Sub(0) |-> base[d]], 0)
          BY <4>1 DEF Solves
        <4> QED BY <4>2
      <3>2. n - 1 \in Nat /\ id[n - 1] < id[n]
        BY <3>1
      <3>3. ASSUME NEW g, Ok(g, n - 1)
            PROVE  FALSE
        <4> DEFINE h == [d \in Sub(n) |-> IF d \in stop THEN base[d]
                                          ELSE comb[<<d, g[next[d]]>>]]
        <4>1. \A d \in Sub(n) \ stop : next[d] \in Sub(n - 1) /\ next[d] \in Sub(n)
          BY <1>1
        <4>2. \A e \in Sub(n - 1) : e \in Sub(n) => h[e] = g[e]
          BY <3>3 DEF Solves
        <4>3. \A d \in Sub(n) \ stop : h[next[d]] = g[next[d]] /\ g[next[d]] \in V
          BY <4>1, <4>2, <3>3 DEF Solves
        <4>4. h \in [Sub(n) -> V]
          <5>1. \A d \in Sub(n) : d \in D
            BY <1>0
          <5>2. \A d \in Sub(n) \ stop : comb[<<d, g[next[d]]>>] \in V
            BY <4>3, <5>1
          <5> QED BY <5>1, <5>2
        <4>5. Ok(h, n)
          BY <4>3, <4>4 DEF Solves
        <4> QED BY <4>5
      <3> QED BY <3>2, <3>3
    <2>2. Bad = {}
      <3>1. \A d \in Bad : id[d] \in Nat
        OBVIOUS
      <3> HIDE DEF Bad, id
      <3> QED BY <2>1, <3>1, NoDescent
    <2> QED BY <2>2
  <1> DEFINE G(n) == CHOOSE g : Ok(g, n)
             f == [d \in D |-> G(rank[d] + 1)[d]]
  <1> HIDE DEF Ok
  <1>4. \A n \in Nat : Ok(G(n), n)
    BY <1>3, Zenon
  <1> HIDE DEF G
  <1>5. \A d \in D : rank[d] + 1 \in Nat /\ d \in Sub(rank[d] + 1)
    BY DEF Ranked
  <1>6. ASSUME NEW d \in D
        PROVE  /\ f[d] \in V
               /\ f[d] = IF d \in stop THEN base[d] ELSE comb[<<d, f[next[d]]>>]
    <2>1. Ok(G(rank[d] + 1), rank[d] + 1)
      BY <1>4, <1>5
    <2>2. f[d] \in V /\ (d \in stop => f[d] = base[d])
      BY <2>1, <1>5 DEF Ok, Solves
    <2>3. ASSUME d \notin stop
          PROVE  f[d] = comb[<<d, f[next[d]]>>]
      <3> DEFINE e == next[d]
      <3>1. e \in D /\ e \in Sub(rank[d] + 1) /\ e \in Sub(rank[e] + 1)
        BY <2>3, <1>1, <1>5
      <3>2. Ok(G(rank[e] + 1), rank[e] + 1)
        BY <3>1, <1>4, <1>5
      <3>3. G(rank[d] + 1)[e] = G(rank[e] + 1)[e]
        BY <3>1, <3>2, <2>1, <1>2, <1>5
      <3>4. f[d] = comb[<<d, G(rank[d] + 1)[e]>>]
        BY <2>1, <2>3, <1>5 DEF Ok, Solves
      <3> QED BY <3>1, <3>3, <3>4
    <2> QED BY <2>2, <2>3
  <1>7. Solves(f, D, V, stop, base, comb, next)
    <2> HIDE DEF f
    <2>1. f \in [D -> V]
      BY <1>6 DEF f
    <2> QED BY <2>1, <1>6 DEF Solves
  <1> QED BY <1>7

-----------------------------------------------------------------------------
(* The sifts satisfy their equations.                                      *)

\* The entries in a heap.
Entered(h) == {h[k] : k \in 1 .. Len(h)}

\* Exchanging two entries leaves a sequence of the same entries.
LEMMA SwapKeeps ==
    ASSUME NEW h \in Seq(Entries), NEW i \in 1 .. Len(h), NEW j \in 1 .. Len(h)
    PROVE  /\ Swapped(h, i, j) \in Seq(Entries)
           /\ Len(Swapped(h, i, j)) = Len(h)
           /\ Swapped(h, i, j)[i] = h[j] /\ Swapped(h, i, j)[j] = h[i]
           /\ \A k \in 1 .. Len(h) : k # i /\ k # j => Swapped(h, i, j)[k] = h[k]
           /\ Entered(Swapped(h, i, j)) = Entered(h)
  <1> DEFINE s == Swapped(h, i, j)
  <1>1. /\ s \in Seq(Entries) /\ Len(s) = Len(h) /\ s[i] = h[j] /\ s[j] = h[i]
        /\ \A k \in 1 .. Len(h) : k # i /\ k # j => s[k] = h[k]
    BY DEF Swapped
  <1> HIDE DEF s
  <1>2. \A k \in 1 .. Len(h) : \E m \in 1 .. Len(h) : s[k] = h[m]
    BY <1>1
  <1>3. \A k \in 1 .. Len(h) : \E m \in 1 .. Len(h) : h[k] = s[m]
    BY <1>1
  <1>4. Entered(s) = Entered(h)
    <2>1. \A e : e \in Entered(s) <=> \E k \in 1 .. Len(h) : e = s[k]
      BY <1>1 DEF Entered
    <2>2. \A e : e \in Entered(h) <=> \E k \in 1 .. Len(h) : e = h[k]
      BY DEF Entered
    <2>3. \A e : e \in Entered(s) <=> e \in Entered(h)
      <3>1. ASSUME NEW e, e \in Entered(s) PROVE e \in Entered(h)
        BY <1>2, <2>1, <2>2, <3>1
      <3>2. ASSUME NEW e, e \in Entered(h) PROVE e \in Entered(s)
        BY <1>3, <2>1, <2>2, <3>2
      <3> QED BY <3>1, <3>2
    <2> QED BY <2>3
  <1> QED BY <1>1, <1>4 DEF s

\* Where sift_up and sift_down stop, and where they go on.
UpStops(hc) == ~(hc[2] > 1 /\ hc[1][hc[2]].at < hc[1][hc[2] \div 2].at)
UpNext(hc) == <<Swapped(hc[1], hc[2], hc[2] \div 2), hc[2] \div 2>>
DownStops(hc) == Smallest(hc[1], hc[2]) = hc[2]
DownNext(hc) == <<Swapped(hc[1], hc[2], Smallest(hc[1], hc[2])), Smallest(hc[1], hc[2])>>

\* A place and its two components.
LEMMA PlaceOfEntry ==
    ASSUME NEW hc \in Places
    PROVE  /\ hc = <<hc[1], hc[2]>> /\ hc[1] \in Seq(Entries)
           /\ hc[2] \in 1 .. Len(hc[1]) /\ Len(hc[1]) \in Nat
  BY DEF Places

\* Every entry of a heap has a place.
LEMMA EntryHasPlace ==
    ASSUME NEW h \in Seq(Entries), NEW c \in 1 .. Len(h)
    PROVE  <<h, c>> \in Places
  BY DEF Places

\* The parent of a place is a place before it.
LEMMA ParentPlace ==
    ASSUME NEW c \in Nat, c > 1
    PROVE  c \div 2 \in Nat /\ 1 <= c \div 2 /\ c \div 2 < c
  OBVIOUS

\* sift_up goes on at the parent.
LEMMA UpGoesOn ==
    ASSUME NEW hc \in Places, ~UpStops(hc)
    PROVE  UpNext(hc) \in Places /\ UpNext(hc)[2] < hc[2] /\ UpNext(hc)[2] \in Nat
  <1>1. hc[1] \in Seq(Entries) /\ hc[2] \in 1 .. Len(hc[1]) /\ hc[2] > 1
    BY PlaceOfEntry DEF UpStops
  <1>2. hc[2] \div 2 \in 1 .. Len(hc[1]) /\ hc[2] \div 2 < hc[2]
    BY <1>1, ParentPlace
  <1>3. Swapped(hc[1], hc[2], hc[2] \div 2) \in Seq(Entries)
        /\ Len(Swapped(hc[1], hc[2], hc[2] \div 2)) = Len(hc[1])
    BY <1>1, <1>2, SwapKeeps
  <1> QED BY <1>2, <1>3, EntryHasPlace DEF UpNext

\* The earliest child is a place after its parent.
LEMMA SmallestPlace ==
    ASSUME NEW h \in Seq(Entries), NEW c \in 1 .. Len(h)
    PROVE  /\ Smallest(h, c) \in 1 .. Len(h)
           /\ Smallest(h, c) = c \/ (Smallest(h, c) > c /\ Smallest(h, c) \div 2 = c)
           /\ Smallest(h, c) # c => h[Smallest(h, c)].at < h[c].at
           /\ \A i \in 1 .. Len(h) : i = 2 * c \/ i = 2 * c + 1
                                       => h[Smallest(h, c)].at <= h[i].at
  <1>1. \A k \in 1 .. Len(h) : h[k] \in Entries
    OBVIOUS
  <1>2. \A k \in 1 .. Len(h) : h[k].at \in Nat
    BY <1>1 DEF Entries
  <1>3. c \in Nat /\ Len(h) \in Nat /\ c >= 1 /\ c <= Len(h)
    OBVIOUS
  <1>4. (2 * c) \div 2 = c /\ (2 * c + 1) \div 2 = c
    BY <1>3
  <1> DEFINE left == IF 2 * c <= Len(h) /\ h[2 * c].at < h[c].at THEN 2 * c ELSE c
  <1>5. /\ left \in 1 .. Len(h) /\ left \in {c, 2 * c}
        /\ left # c => h[left].at < h[c].at
        /\ 2 * c <= Len(h) => h[left].at <= h[2 * c].at
        /\ h[left].at <= h[c].at
    BY <1>2, <1>3
  <1>6. Smallest(h, c) = IF 2 * c + 1 <= Len(h) /\ h[2 * c + 1].at < h[left].at
                           THEN 2 * c + 1 ELSE left
    BY DEF Smallest
  <1> HIDE DEF left
  <1>7. CASE 2 * c + 1 <= Len(h) /\ h[2 * c + 1].at < h[left].at
    <2>1. 2 * c + 1 \in 1 .. Len(h) /\ 2 * c + 1 > c
      BY <1>3, <1>7
    <2>2. h[2 * c + 1].at < h[c].at /\ h[2 * c + 1].at <= h[2 * c].at
      <3>1. 2 * c \in 1 .. Len(h)
        BY <1>3, <1>7
      <3>2. h[left].at \in Nat /\ h[c].at \in Nat /\ h[2 * c].at \in Nat
            /\ h[2 * c + 1].at \in Nat
        BY <1>2, <1>5, <2>1, <3>1
      <3>3. h[left].at <= h[c].at /\ h[left].at <= h[2 * c].at
        BY <1>5, <3>1
      <3>4. \A x, y, z \in Nat : x < y /\ y <= z => x < z /\ x <= z
        OBVIOUS
      <3>5. h[2 * c + 1].at < h[left].at
        BY <1>7
      <3> QED BY <3>2, <3>3, <3>4, <3>5, Zenon
    <2>3. Smallest(h, c) = 2 * c + 1
      BY <1>6, <1>7
    <2>4. h[2 * c + 1].at <= h[2 * c + 1].at
      BY <1>2, <2>1
    <2> QED BY <1>4, <2>1, <2>2, <2>3, <2>4
  <1>8. CASE ~(2 * c + 1 <= Len(h) /\ h[2 * c + 1].at < h[left].at)
    <2>1. Smallest(h, c) = left
      BY <1>6, <1>8
    <2>2. left = c \/ (left > c /\ left \div 2 = c)
      BY <1>3, <1>4, <1>5
    <2>3. \A i \in 1 .. Len(h) : i = 2 * c \/ i = 2 * c + 1 => h[left].at <= h[i].at
      BY <1>2, <1>3, <1>5, <1>8
    <2> QED BY <1>5, <2>1, <2>2, <2>3
  <1> QED BY <1>7, <1>8

\* sift_down goes on at that child.
LEMMA DownGoesOn ==
    ASSUME NEW hc \in Places, ~DownStops(hc)
    PROVE  /\ DownNext(hc) \in Places
           /\ Len(DownNext(hc)[1]) = Len(hc[1])
           /\ hc[2] < DownNext(hc)[2]
  <1>1. hc[1] \in Seq(Entries) /\ hc[2] \in 1 .. Len(hc[1])
    BY PlaceOfEntry
  <1>2. Smallest(hc[1], hc[2]) \in 1 .. Len(hc[1]) /\ hc[2] < Smallest(hc[1], hc[2])
    BY <1>1, SmallestPlace DEF DownStops
  <1>3. Swapped(hc[1], hc[2], Smallest(hc[1], hc[2])) \in Seq(Entries)
        /\ Len(Swapped(hc[1], hc[2], Smallest(hc[1], hc[2]))) = Len(hc[1])
    BY <1>1, <1>2, SwapKeeps
  <1> QED BY <1>2, <1>3, EntryHasPlace DEF DownNext

\* What a recursion with these stops and steps solves.
UpEq(g) == g = [hc \in Places |-> IF UpStops(hc) THEN hc[1] ELSE g[UpNext(hc)]]
DownEq(g) == g = [hc \in Places |-> IF DownStops(hc) THEN hc[1] ELSE g[DownNext(hc)]]

\* sift_up is what its loop says: it stops, or goes on at the parent.
LEMMA SiftUpDef ==
    \A hc \in Places : SiftUp[hc] = IF UpStops(hc) THEN hc[1] ELSE SiftUp[UpNext(hc)]
  <1> DEFINE V == Seq(Entries)
             rank == [hc \in Places |-> hc[2]]
             stop == {hc \in Places : UpStops(hc)}
             base == [hc \in Places |-> hc[1]]
             comb == [x \in Places \X V |-> x[2]]
             next == [hc \in Places |-> UpNext(hc)]
  <1>1. /\ rank \in [Places -> Nat] /\ base \in [Places -> V]
        /\ comb \in [Places \X V -> V]
    BY PlaceOfEntry
  <1>2. \A d \in Places \ stop : next[d] \in Places /\ rank[next[d]] < rank[d]
    BY UpGoesOn
  <1>3. \E g : Solves(g, Places, V, stop, base, comb, next)
    <2> HIDE DEF V, rank, stop, base, comb, next
    <2> QED BY <1>1, <1>2, WellDefined
  <1>4. PICK g : Solves(g, Places, V, stop, base, comb, next)
    BY <1>3
  <1>5. \A d \in Places : g[d] = IF UpStops(d) THEN d[1] ELSE g[UpNext(d)]
    <2> TAKE d \in Places
    <2>1. CASE UpStops(d)
      BY <2>1, <1>4 DEF Solves
    <2>2. CASE ~UpStops(d)
      <3>1. UpNext(d) \in Places
        BY <2>2, UpGoesOn
      <3>2. g[UpNext(d)] \in V /\ g[d] = comb[<<d, g[next[d]]>>]
        BY <2>2, <3>1, <1>4 DEF Solves
      <3> QED BY <2>2, <3>2
    <2> QED BY <2>1, <2>2
  <1>6. UpEq(g)
    <2>1. g = [d \in Places |-> g[d]]
      BY <1>4 DEF Solves
    <2> QED BY <1>5, <2>1 DEF UpEq
  <1>7. SiftUp = CHOOSE x : UpEq(x)
    BY Zenon DEF SiftUp, UpEq, UpStops, UpNext
  <1>8. UpEq(SiftUp)
    BY <1>6, <1>7, Zenon
  <1> HIDE DEF SiftUp
  <1> QED BY <1>8 DEF UpEq

\* sift_down stops, or goes on at the smallest child.
LEMMA SiftDownDef ==
    \A hc \in Places :
        SiftDown[hc] = IF DownStops(hc) THEN hc[1] ELSE SiftDown[DownNext(hc)]
  <1> DEFINE V == Seq(Entries)
             rank == [hc \in Places |-> Len(hc[1]) - hc[2]]
             stop == {hc \in Places : DownStops(hc)}
             base == [hc \in Places |-> hc[1]]
             comb == [x \in Places \X V |-> x[2]]
             next == [hc \in Places |-> DownNext(hc)]
  <1>1. /\ rank \in [Places -> Nat] /\ base \in [Places -> V]
        /\ comb \in [Places \X V -> V]
    BY PlaceOfEntry
  <1>2. \A d \in Places \ stop : next[d] \in Places /\ rank[next[d]] < rank[d]
    BY DownGoesOn, PlaceOfEntry
  <1>3. \E g : Solves(g, Places, V, stop, base, comb, next)
    <2> HIDE DEF V, rank, stop, base, comb, next
    <2> QED BY <1>1, <1>2, WellDefined
  <1>4. PICK g : Solves(g, Places, V, stop, base, comb, next)
    BY <1>3
  <1>5. \A d \in Places : g[d] = IF DownStops(d) THEN d[1] ELSE g[DownNext(d)]
    <2> TAKE d \in Places
    <2>1. CASE DownStops(d)
      BY <2>1, <1>4 DEF Solves
    <2>2. CASE ~DownStops(d)
      <3>1. DownNext(d) \in Places
        BY <2>2, DownGoesOn
      <3>2. g[DownNext(d)] \in V /\ g[d] = comb[<<d, g[next[d]]>>]
        BY <2>2, <3>1, <1>4 DEF Solves
      <3> QED BY <2>2, <3>2
    <2> QED BY <2>1, <2>2
  <1>6. DownEq(g)
    <2>1. g = [d \in Places |-> g[d]]
      BY <1>4 DEF Solves
    <2> QED BY <1>5, <2>1 DEF DownEq
  <1>7. SiftDown = CHOOSE x : DownEq(x)
    <2>1. \A hc : DownStops(hc) <=> ~(Smallest(hc[1], hc[2]) # hc[2])
      BY DEF DownStops
    <2> QED BY Zenon DEF SiftDown, DownEq, DownStops, DownNext
  <1>8. DownEq(SiftDown)
    BY <1>6, <1>7, Zenon
  <1> HIDE DEF SiftDown
  <1> QED BY <1>8 DEF DownEq

-----------------------------------------------------------------------------
(* What the sifts do.                                                      *)

Parent(i) == i \div 2

\* The parent of a place, and the children of a place.
LEMMA Parents ==
    /\ \A i \in Nat : i >= 2 => Parent(i) \in Nat /\ 1 <= Parent(i) /\ Parent(i) < i
    /\ \A i, c \in Nat : Parent(i) = c <=> (i = 2 * c \/ i = 2 * c + 1)
  BY DEF Parent

\* No entry is earlier than its parent; the same but for the entry at c, or for
\* the children of c, which may break it alone.
Heaped(h) == \A i \in 2 .. Len(h) : h[Parent(i)].at <= h[i].at
UpFrom(h, c) ==
    /\ \A i \in 2 .. Len(h) : i # c => h[Parent(i)].at <= h[i].at
    /\ \A i \in 2 .. Len(h) : Parent(i) = c /\ c > 1 => h[Parent(c)].at <= h[i].at
DownFrom(h, c) ==
    /\ \A i \in 2 .. Len(h) : Parent(i) # c => h[Parent(i)].at <= h[i].at
    /\ \A i \in 2 .. Len(h) : Parent(i) = c /\ c > 1 => h[Parent(c)].at <= h[i].at

\* Deadlines are numbers.
LEMMA Deadlines ==
    ASSUME NEW h \in Seq(Entries), NEW k \in 1 .. Len(h)
    PROVE  h[k] \in Entries /\ h[k].at \in Nat
  <1>1. h[k] \in Entries
    OBVIOUS
  <1> QED BY <1>1 DEF Entries

\* One exchange of sift_up moves the only place out of order to the parent.
LEMMA UpStep ==
    ASSUME NEW h \in Seq(Entries), NEW c \in 1 .. Len(h), UpFrom(h, c), c > 1,
           h[c].at < h[Parent(c)].at
    PROVE  UpFrom(Swapped(h, c, Parent(c)), Parent(c))
  <1> DEFINE p == Parent(c)
             s == Swapped(h, c, p)
             at(k) == h[k].at
             to(k) == s[k].at
  <1>1. c \in Nat /\ p \in 1 .. Len(h) /\ p < c /\ p \in Nat /\ Len(h) \in Nat
    BY Parents
  <1>2. /\ Len(s) = Len(h) /\ to(c) = at(p) /\ to(p) = at(c)
        /\ \A k \in 1 .. Len(h) : k # c /\ k # p => to(k) = at(k)
    BY <1>1, SwapKeeps
  <1>3. \A k \in 1 .. Len(h) : at(k) \in Nat
    BY Deadlines
  <1>4. /\ \A i \in 2 .. Len(h) : i # c => at(Parent(i)) <= at(i)
        /\ \A i \in 2 .. Len(h) : Parent(i) = c => at(p) <= at(i)
        /\ at(c) < at(p)
    BY DEF UpFrom
  <1>5. \A i \in 2 .. Len(h) : Parent(i) \in 1 .. Len(h) /\ Parent(i) < i
    BY <1>1, Parents
  <1> HIDE DEF p, s, at, to
  <1>6. ASSUME NEW i \in 2 .. Len(h), i # p
        PROVE  to(Parent(i)) <= to(i)
    <2>1. Parent(i) \in 1 .. Len(h) /\ Parent(i) < i /\ i \in 1 .. Len(h)
      BY <1>5
    <2>2. CASE i = c
      BY <2>2, <1>1, <1>2, <1>3, <1>4 DEF p
    <2>3. CASE i # c /\ Parent(i) = c
      BY <2>1, <2>3, <1>1, <1>2, <1>3, <1>4, <1>6
    <2>4. CASE i # c /\ Parent(i) = p
      BY <2>1, <2>4, <1>1, <1>2, <1>3, <1>4, <1>6
    <2>5. CASE i # c /\ Parent(i) # c /\ Parent(i) # p
      BY <2>1, <2>5, <1>1, <1>2, <1>3, <1>4, <1>6
    <2> QED BY <2>2, <2>3, <2>4, <2>5
  <1>7. ASSUME NEW i \in 2 .. Len(h), Parent(i) = p, p > 1
        PROVE  to(Parent(p)) <= to(i)
    <2>1. Parent(p) \in 1 .. Len(h) /\ Parent(p) < p /\ p \in 2 .. Len(h)
      BY <1>1, <1>5, <1>7
    <2>2. to(Parent(p)) = at(Parent(p)) /\ at(Parent(p)) <= at(p)
      BY <2>1, <1>1, <1>2, <1>4
    <2>3. CASE i = c
      BY <2>2, <2>3, <1>2
    <2>4. CASE i # c
      <3>1. at(p) <= at(i) /\ to(i) = at(i)
        BY <2>4, <1>1, <1>2, <1>4, <1>5, <1>7
      <3> QED BY <3>1, <2>1, <2>2, <1>1, <1>3
    <2> QED BY <2>3, <2>4
  <1> QED BY <1>2, <1>6, <1>7 DEF UpFrom, s, to, p

\* One exchange of sift_down moves them to the child.
LEMMA DownStep ==
    ASSUME NEW h \in Seq(Entries), NEW c \in 1 .. Len(h), DownFrom(h, c),
           Smallest(h, c) # c
    PROVE  DownFrom(Swapped(h, c, Smallest(h, c)), Smallest(h, c))
  <1> DEFINE m == Smallest(h, c)
             s == Swapped(h, c, m)
             at(k) == h[k].at
             to(k) == s[k].at
  <1>1. /\ c \in Nat /\ m \in 1 .. Len(h) /\ c < m /\ m \in Nat /\ Len(h) \in Nat
        /\ Parent(m) = c /\ at(m) < at(c)
        /\ \A i \in 1 .. Len(h) : i = 2 * c \/ i = 2 * c + 1 => at(m) <= at(i)
    <2>1. /\ m \in 1 .. Len(h) /\ (m = c \/ (m > c /\ m \div 2 = c))
          /\ m # c => at(m) < at(c)
          /\ \A i \in 1 .. Len(h) : i = 2 * c \/ i = 2 * c + 1 => at(m) <= at(i)
      BY SmallestPlace
    <2>2. m # c
      BY DEF DownStops
    <2>3. c \in Nat /\ Len(h) \in Nat /\ m \in Nat
      BY <2>1
    <2> HIDE DEF m, at
    <2> QED BY <2>1, <2>2, <2>3 DEF Parent
  <1>2. /\ Len(s) = Len(h) /\ to(c) = at(m) /\ to(m) = at(c)
        /\ \A k \in 1 .. Len(h) : k # c /\ k # m => to(k) = at(k)
    BY <1>1, SwapKeeps
  <1>3. \A k \in 1 .. Len(h) : at(k) \in Nat
    BY Deadlines
  <1>4. /\ \A i \in 2 .. Len(h) : Parent(i) # c => at(Parent(i)) <= at(i)
        /\ \A i \in 2 .. Len(h) : Parent(i) = c /\ c > 1 => at(Parent(c)) <= at(i)
    BY DEF DownFrom
  <1>5. \A i \in 2 .. Len(h) : Parent(i) \in 1 .. Len(h) /\ Parent(i) < i
    BY <1>1, Parents
  <1>6. \A i \in 2 .. Len(h) : Parent(i) = c => at(m) <= at(i)
    BY <1>1, Parents
  <1> HIDE DEF m, s, at, to
  <1>7. ASSUME NEW i \in 2 .. Len(h), Parent(i) # m
        PROVE  to(Parent(i)) <= to(i)
    <2>1. Parent(i) \in 1 .. Len(h) /\ Parent(i) < i /\ i \in 1 .. Len(h)
      BY <1>5
    <2>2. CASE i = m
      BY <2>2, <1>1, <1>2, <1>3
    <2>3. CASE i # m /\ Parent(i) = c
      BY <2>1, <2>3, <1>1, <1>2, <1>3, <1>6
    <2>4. CASE i = c
      <3>1. c > 1 /\ m \in 2 .. Len(h)
        BY <2>4, <1>1
      <3>2. at(Parent(c)) <= at(m)
        BY <3>1, <1>1, <1>4
      <3> QED BY <2>1, <2>4, <3>2, <1>1, <1>2, <1>3
    <2>5. CASE i # m /\ i # c /\ Parent(i) # c
      BY <2>1, <2>5, <1>1, <1>2, <1>3, <1>4, <1>7
    <2> QED BY <2>2, <2>3, <2>4, <2>5
  <1>8. ASSUME NEW i \in 2 .. Len(h), Parent(i) = m
        PROVE  to(Parent(m)) <= to(i)
    <2>1. at(m) <= at(i) /\ i # m /\ i # c /\ i \in 1 .. Len(h)
      BY <1>1, <1>4, <1>5, <1>8
    <2> QED BY <2>1, <1>1, <1>2, <1>3
  <1> QED BY <1>2, <1>7, <1>8 DEF DownFrom, s, to, m

\* A heap, of the entries of another sequence.
Repaired(r, h) == r \in Seq(Entries) /\ Heaped(r) /\ Len(r) = Len(h) /\ Entered(r) = Entered(h)

\* sift_up repairs a heap with one entry too far down, and keeps its entries.
LEMMA SiftUpRepairs ==
    ASSUME NEW h \in Seq(Entries), NEW c \in 1 .. Len(h), UpFrom(h, c)
    PROVE  Repaired(SiftUp[<<h, c>>], h)
  <1> DEFINE Bad == {d \in Places : UpFrom(d[1], d[2]) /\ ~Repaired(SiftUp[d], d[1])}
             rank == [d \in Places |-> d[2]]
  <1>1. ASSUME NEW d \in Bad
        PROVE  \E e \in Bad : rank[e] < rank[d]
    <2>1. /\ d \in Places /\ d[1] \in Seq(Entries) /\ d[2] \in 1 .. Len(d[1])
          /\ UpFrom(d[1], d[2]) /\ ~Repaired(SiftUp[d], d[1])
      BY PlaceOfEntry
    <2>2. ~UpStops(d)
      <3> SUFFICES ASSUME UpStops(d) PROVE Repaired(d[1], d[1])
        BY <2>1, SiftUpDef
      <3>1. d[2] > 1 => d[1][Parent(d[2])].at <= d[1][d[2]].at
        <4>1. d[2] > 1 => Parent(d[2]) \in 1 .. Len(d[1])
          BY <2>1, Parents
        <4> QED BY <4>1, <2>1, Deadlines DEF UpStops, Parent
      <3>2. Heaped(d[1])
        BY <2>1, <3>1 DEF UpFrom, Heaped
      <3> QED BY <2>1, <3>2 DEF Repaired
    <2>3. /\ UpNext(d) \in Places /\ UpNext(d)[2] < d[2]
          /\ SiftUp[d] = SiftUp[UpNext(d)]
      BY <2>1, <2>2, UpGoesOn, SiftUpDef
    <2>4. d[2] > 1 /\ d[1][d[2]].at < d[1][Parent(d[2])].at
      BY <2>2 DEF UpStops, Parent
    <2>5. UpFrom(UpNext(d)[1], UpNext(d)[2])
      BY <2>1, <2>4, UpStep DEF UpNext, Parent
    <2>6. Parent(d[2]) \in 1 .. Len(d[1])
      BY <2>1, <2>4, Parents
    <2>7. Len(UpNext(d)[1]) = Len(d[1]) /\ Entered(UpNext(d)[1]) = Entered(d[1])
      BY <2>1, <2>6, SwapKeeps DEF UpNext, Parent
    <2>8. ~Repaired(SiftUp[UpNext(d)], UpNext(d)[1])
      BY <2>1, <2>3, <2>7 DEF Repaired
    <2> QED BY <2>1, <2>3, <2>5, <2>8
  <1>2. \A d \in Bad : rank[d] \in Nat
    BY PlaceOfEntry
  <1>3. Bad = {}
    <2> HIDE DEF Bad, rank
    <2> QED BY <1>1, <1>2, NoDescent
  <1>4. <<h, c>> \in Places
    BY EntryHasPlace
  <1> QED BY <1>3, <1>4

\* sift_down repairs a heap with one entry too far up, and keeps its entries.
LEMMA SiftDownRepairs ==
    ASSUME NEW h \in Seq(Entries), NEW c \in 1 .. Len(h), DownFrom(h, c)
    PROVE  Repaired(SiftDown[<<h, c>>], h)
  <1> DEFINE Bad == {d \in Places : DownFrom(d[1], d[2]) /\ ~Repaired(SiftDown[d], d[1])}
             rank == [d \in Places |-> Len(d[1]) - d[2]]
  <1>1. ASSUME NEW d \in Bad
        PROVE  \E e \in Bad : rank[e] < rank[d]
    <2>1. /\ d \in Places /\ d[1] \in Seq(Entries) /\ d[2] \in 1 .. Len(d[1])
          /\ DownFrom(d[1], d[2]) /\ ~Repaired(SiftDown[d], d[1])
      BY PlaceOfEntry
    <2>2. ~DownStops(d)
      <3> SUFFICES ASSUME DownStops(d) PROVE Repaired(d[1], d[1])
        BY <2>1, SiftDownDef
      <3>1. \A i \in 1 .. Len(d[1]) : i = 2 * d[2] \/ i = 2 * d[2] + 1
                                        => d[1][d[2]].at <= d[1][i].at
        BY <2>1, SmallestPlace DEF DownStops
      <3>2. ASSUME NEW i \in 2 .. Len(d[1]), Parent(i) = d[2]
            PROVE  d[1][d[2]].at <= d[1][i].at
        <4>1. i \in Nat /\ d[2] \in Nat /\ i \in 1 .. Len(d[1])
          BY <2>1
        <4>2. i = 2 * d[2] \/ i = 2 * d[2] + 1
          BY <4>1, <3>2, Parents
        <4> QED BY <4>1, <4>2, <3>1
      <3>3. Heaped(d[1])
        BY <2>1, <3>2 DEF DownFrom, Heaped
      <3> QED BY <2>1, <3>3 DEF Repaired
    <2>3. /\ DownNext(d) \in Places /\ d[2] < DownNext(d)[2]
          /\ Len(DownNext(d)[1]) = Len(d[1])
          /\ SiftDown[d] = SiftDown[DownNext(d)]
      BY <2>1, <2>2, DownGoesOn, SiftDownDef
    <2>4. Smallest(d[1], d[2]) # d[2] /\ Smallest(d[1], d[2]) \in 1 .. Len(d[1])
      BY <2>1, <2>2, SmallestPlace DEF DownStops
    <2>5. DownFrom(DownNext(d)[1], DownNext(d)[2])
      BY <2>1, <2>4, DownStep DEF DownNext
    <2>6. Entered(DownNext(d)[1]) = Entered(d[1])
      BY <2>1, <2>4, SwapKeeps DEF DownNext
    <2>7. ~Repaired(SiftDown[DownNext(d)], DownNext(d)[1])
      BY <2>1, <2>3, <2>6 DEF Repaired
    <2>8. rank[DownNext(d)] < rank[d]
      BY <2>1, <2>3, PlaceOfEntry
    <2> QED BY <2>1, <2>3, <2>5, <2>7, <2>8
  <1>2. \A d \in Bad : rank[d] \in Nat
    BY PlaceOfEntry
  <1>3. Bad = {}
    <2> HIDE DEF Bad, rank
    <2> QED BY <1>1, <1>2, NoDescent
  <1>4. <<h, c>> \in Places
    BY EntryHasPlace
  <1> QED BY <1>3, <1>4

-----------------------------------------------------------------------------
(* TimerHeap.                                                              *)

\* The top of a heap is its earliest entry.
LEMMA TopIsEarliest ==
    ASSUME NEW h \in Seq(Entries), Heaped(h), NEW k \in 1 .. Len(h)
    PROVE  h[1].at <= h[k].at
  <1> DEFINE Bad == {i \in 1 .. Len(h) : ~(h[1].at <= h[i].at)}
             id == [i \in 1 .. Len(h) |-> i]
  <1>1. ASSUME NEW i \in Bad
        PROVE  \E j \in Bad : id[j] < id[i]
    <2>1. i \in 1 .. Len(h) /\ 1 \in 1 .. Len(h) /\ i # 1
      BY Deadlines
    <2>2. i \in Nat /\ i >= 2 /\ i \in 2 .. Len(h)
      BY <2>1
    <2>3. Parent(i) \in 1 .. Len(h) /\ Parent(i) < i
      BY <2>2, Parents
    <2>4. h[Parent(i)].at <= h[i].at
      BY <2>2 DEF Heaped
    <2>5. h[1].at \in Nat /\ h[i].at \in Nat /\ h[Parent(i)].at \in Nat
      BY <2>1, <2>3, Deadlines
    <2>6. Parent(i) \in Bad
      BY <2>1, <2>3, <2>4, <2>5
    <2> QED BY <2>1, <2>3, <2>6
  <1>2. Bad = {}
    <2>1. \A i \in Bad : id[i] \in Nat
      OBVIOUS
    <2> HIDE DEF Bad, id
    <2> QED BY <1>1, <2>1, NoDescent
  <1> QED BY <1>2

\* push leaves a heap of the old entries and the new one.
LEMMA PushAdds ==
    ASSUME NEW h \in Seq(Entries), Heaped(h), NEW e \in Entries
    PROVE  /\ Push(h, e) \in Seq(Entries) /\ Heaped(Push(h, e))
           /\ \A x : x \in Entered(Push(h, e)) <=> x \in Entered(h) \/ x = e
  <1> DEFINE a == Append(h, e)
             n == Len(h) + 1
  <1>1. /\ a \in Seq(Entries) /\ Len(a) = n /\ n \in 1 .. Len(a) /\ a[n] = e
        /\ n \in Nat /\ Len(h) \in Nat
        /\ \A k \in 1 .. Len(h) : a[k] = h[k]
    OBVIOUS
  <1>2. UpFrom(a, n)
    <2>1. ASSUME NEW i \in 2 .. Len(a), i # n
          PROVE  a[Parent(i)].at <= a[i].at
      <3>1. i \in 2 .. Len(h) /\ Parent(i) \in 1 .. Len(h)
        BY <2>1, <1>1, Parents
      <3> QED BY <3>1, <1>1 DEF Heaped
    <2>2. ASSUME NEW i \in 2 .. Len(a) PROVE Parent(i) # n
      BY <1>1, Parents
    <2> QED BY <2>1, <2>2 DEF UpFrom
  <1>3. Repaired(Push(h, e), a)
    BY <1>1, <1>2, SiftUpRepairs DEF Push
  <1>4. \A x : x \in Entered(a) <=> x \in Entered(h) \/ x = e
    <2>1. ASSUME NEW x, x \in Entered(a) PROVE x \in Entered(h) \/ x = e
      <3>1. PICK k \in 1 .. Len(a) : x = a[k]
        BY <2>1 DEF Entered
      <3>2. CASE k = n
        BY <3>1, <3>2, <1>1
      <3>3. CASE k # n
        BY <3>1, <3>3, <1>1 DEF Entered
      <3> QED BY <3>2, <3>3
    <2>2. ASSUME NEW x, x \in Entered(h) PROVE x \in Entered(a)
      <3>1. PICK k \in 1 .. Len(h) : x = h[k]
        BY <2>2 DEF Entered
      <3>2. k \in 1 .. Len(a) /\ x = a[k]
        BY <3>1, <1>1
      <3> QED BY <3>2 DEF Entered
    <2>3. e \in Entered(a)
      BY <1>1 DEF Entered
    <2> QED BY <2>1, <2>2, <2>3
  <1> QED BY <1>3, <1>4 DEF Repaired

\* pop leaves a heap of all entries but the one at the top.
LEMMA PopRemoves ==
    ASSUME NEW h \in Seq(Entries), Heaped(h), h # <<>>
    PROVE  /\ Pop(h) \in Seq(Entries) /\ Heaped(Pop(h))
           /\ \A x : x \in Entered(Pop(h)) <=> \E k \in 2 .. Len(h) : x = h[k]
  <1> DEFINE n == Len(h)
             g == [h EXCEPT ![1] = h[Len(h)]]
             s == SubSeq(g, 1, n - 1)
  <1>1. n \in Nat /\ n >= 1 /\ 1 \in 1 .. n /\ n \in 1 .. n
    OBVIOUS
  <1>2. CASE n = 1
    <2>1. Pop(h) = <<>>
      BY <1>2 DEF Pop
    <2>2. Entered(<<>>) = {} /\ Heaped(<<>>)
      BY DEF Entered, Heaped
    <2> QED BY <2>1, <2>2, <1>2
  <1>3. CASE n # 1
    <2>1. /\ g \in Seq(Entries) /\ Len(g) = n /\ g[1] = h[n]
          /\ \A k \in 2 .. n : g[k] = h[k]
      BY <1>1
    <2> HIDE DEF g
    <2>2. /\ s \in Seq(Entries) /\ Len(s) = n - 1
          /\ \A k \in 1 .. n - 1 : s[k] = g[k]
      BY <2>1, <1>1, <1>3
    <2> HIDE DEF s
    <2>3. /\ 1 \in 1 .. Len(s) /\ s[1] = h[n]
          /\ \A k \in 2 .. n - 1 : s[k] = h[k]
      BY <2>1, <2>2, <1>1, <1>3
    <2>4. DownFrom(s, 1)
      <3>1. ASSUME NEW i \in 2 .. Len(s), Parent(i) # 1
            PROVE  s[Parent(i)].at <= s[i].at
        <4>1. i \in 2 .. n - 1 /\ Parent(i) \in 2 .. n - 1 /\ i \in 2 .. n
          BY <3>1, <2>2, <1>1, Parents
        <4> QED BY <4>1, <2>3 DEF Heaped
      <3> QED BY <3>1 DEF DownFrom
    <2>5. Repaired(SiftDown[<<s, 1>>], s)
      BY <2>2, <2>3, <2>4, SiftDownRepairs
    <2>6. Pop(h) = SiftDown[<<s, 1>>]
      BY <1>3 DEF Pop, s, g
    <2>7. ASSUME NEW x, x \in Entered(s) PROVE \E k \in 2 .. n : x = h[k]
      <3>1. PICK k \in 1 .. n - 1 : x = s[k]
        BY <2>7, <2>2 DEF Entered
      <3>2. CASE k = 1
        BY <3>1, <3>2, <2>3, <1>1, <1>3
      <3>3. CASE k # 1
        BY <3>1, <3>3, <2>3, <1>1
      <3> QED BY <3>2, <3>3
    <2>8. ASSUME NEW k \in 2 .. n PROVE h[k] \in Entered(s)
      <3>1. CASE k = n
        BY <3>1, <2>2, <2>3 DEF Entered
      <3>2. CASE k # n
        BY <3>2, <2>2, <2>3, <1>1 DEF Entered
      <3> QED BY <3>1, <3>2
    <2> QED BY <2>5, <2>6, <2>7, <2>8 DEF Repaired
  <1> QED BY <1>2, <1>3

-----------------------------------------------------------------------------
(* The heap at the start.                                                  *)

\* A heap of entries of slot 1 that are older than every wait to come.
OldHeaps == {h \in Seq(Entries) : Heaped(h) /\ \A k \in 1 .. Len(h) : h[k].gen = 0}
Old(ats) == [id |-> 1, gen |-> 0, at |-> ats[Len(ats)]]
Front(ats) == SubSeq(ats, 1, Len(ats) - 1)
LeftEq(g) == g = [ats \in Seq(Nat) |-> IF ats = <<>> THEN <<>>
                                       ELSE Push(g[Front(ats)], Old(ats))]

\* Pushing such an entry leaves such a heap.
LEMMA PushOld ==
    ASSUME NEW h \in OldHeaps, NEW ats \in Seq(Nat), ats # <<>>
    PROVE  Push(h, Old(ats)) \in OldHeaps
  <1>1. Old(ats) \in Entries /\ Old(ats).gen = 0
    BY ExecutorAssumption DEF Old, Entries, Slots, ExecutorAssumption
  <1>2. h \in Seq(Entries) /\ Heaped(h) /\ \A x \in Entered(h) : x.gen = 0
    BY DEF OldHeaps, Entered
  <1>3. /\ Push(h, Old(ats)) \in Seq(Entries) /\ Heaped(Push(h, Old(ats)))
        /\ \A x \in Entered(Push(h, Old(ats))) : x.gen = 0
    BY <1>1, <1>2, PushAdds
  <1>4. \A k \in 1 .. Len(Push(h, Old(ats))) : Push(h, Old(ats))[k] \in Entered(Push(h, Old(ats)))
    BY DEF Entered
  <1> QED BY <1>3, <1>4 DEF OldHeaps

\* LeftHeap is well defined, and a heap of old entries.
LEMMA LeftHeapIsOld == \A ats \in Seq(Nat) : LeftHeap[ats] \in OldHeaps
  <1> DEFINE D == Seq(Nat)
             V == OldHeaps
             rank == [ats \in D |-> Len(ats)]
             stop == {<<>>}
             base == [ats \in D |-> <<>>]
             comb == [x \in D \X V |-> IF x[1] = <<>> THEN <<>> ELSE Push(x[2], Old(x[1]))]
             next == [ats \in D |-> Front(ats)]
  <1>1. <<>> \in OldHeaps
    BY DEF OldHeaps, Heaped
  <1>2. \A x \in D \X V : comb[x] \in V
    BY <1>1, PushOld
  <1>3. \A ats \in D \ stop : Front(ats) \in D /\ Len(Front(ats)) < Len(ats)
    BY DEF Front
  <1>4. /\ rank \in [D -> Nat] /\ base \in [D -> V] /\ comb \in [D \X V -> V]
        /\ \A d \in D \ stop : next[d] \in D /\ rank[next[d]] < rank[d]
    BY <1>1, <1>2, <1>3
  <1>5. \E g : Solves(g, D, V, stop, base, comb, next)
    <2> HIDE DEF D, V, rank, stop, base, comb, next
    <2> QED BY <1>4, WellDefined
  <1>6. PICK g : Solves(g, D, V, stop, base, comb, next)
    BY <1>5
  <1>7. \A d \in D : g[d] = IF d = <<>> THEN <<>> ELSE Push(g[Front(d)], Old(d))
    <2> TAKE d \in D
    <2>1. CASE d = <<>>
      BY <2>1, <1>6 DEF Solves
    <2>2. CASE d # <<>>
      <3>1. Front(d) \in D /\ g[Front(d)] \in V /\ g[d] = comb[<<d, g[next[d]]>>]
        BY <2>2, <1>3, <1>6 DEF Solves
      <3> QED BY <2>2, <3>1
    <2> QED BY <2>1, <2>2
  <1>8. LeftEq(g)
    <2>1. g = [d \in D |-> g[d]]
      BY <1>6 DEF Solves
    <2> QED BY <1>7, <2>1 DEF LeftEq
  <1>9. LeftHeap = CHOOSE x : LeftEq(x)
    BY Zenon DEF LeftHeap, LeftEq, Front, Old
  <1>10. LeftEq(LeftHeap)
    BY <1>8, <1>9, Zenon
  <1> HIDE DEF LeftHeap
  <1>11. \A ats \in D : LeftHeap[ats] = IF ats = <<>> THEN <<>>
                                        ELSE Push(LeftHeap[Front(ats)], Old(ats))
    BY <1>10 DEF LeftEq
  <1> DEFINE Bad == {ats \in D : LeftHeap[ats] \notin OldHeaps}
  <1>12. ASSUME NEW d \in Bad
         PROVE  \E e \in Bad : rank[e] < rank[d]
    <2>1. d # <<>>
      BY <1>1, <1>11
    <2>2. Front(d) \in D /\ rank[Front(d)] < rank[d]
      BY <2>1, <1>3
    <2>3. Front(d) \in Bad
      BY <2>1, <2>2, <1>11, PushOld
    <2> QED BY <2>2, <2>3
  <1>13. Bad = {}
    <2>1. \A d \in Bad : rank[d] \in Nat
      OBVIOUS
    <2> HIDE DEF Bad, rank
    <2> QED BY <1>12, <2>1, NoDescent
  <1> QED BY <1>13

-----------------------------------------------------------------------------
(* The inductive invariant.                                                *)

\* The token of an entry or of an event is no younger than its slot, and older
\* than the wait a free slot will serve next.
Aged(e) == e.gen <= slot[e.id].gen /\ (Free(e.id) => e.gen < slot[e.id].gen)
AgesInv == (\A e \in Entered(heap) : Aged(e)) /\ (\A e \in events : Aged(e))

\* A slot in use has a task of its own that sleeps.
SlotsInv ==
    /\ \A i \in Slots : ~Free(i) => task[slot[i].task].state = "Suspended"
    /\ \A i, j \in Slots : ~Free(i) /\ slot[i].task = slot[j].task => i = j

\* A task that sleeps has a slot and, if it sleeps for a time, its entry.
Entry(i, at) == [id |-> i, gen |-> slot[i].gen, at |-> at]
SleepInv ==
    \A t \in Tasks : task[t].state = "Suspended" =>
        \E i \in Slots : /\ slot[i].task = t
                         /\ task[t].due > 0 => Entry(i, task[t].due) \in Entered(heap)

\* An entry that names a wait has the deadline of that wait, and an event that
\* names one belongs to a wait without a deadline.
NamesInv ==
    /\ \A e \in Entered(heap) : Names(e) => task[slot[e.id].task].due = e.at
    /\ \A e \in events : Names(e) => task[slot[e.id].task].due = 0

\* The ready queue holds queued tasks, once; the task the loop runs is running.
QueueInv ==
    /\ \A k \in 1 .. Len(ready) : task[ready[k]].state = "Queued"
    /\ \A j, k \in 1 .. Len(ready) : ready[j] = ready[k] => j = k
    /\ exec.cur # None => exec.pc \in Drains /\ task[exec.cur].state = "Running"

WaitInv == /\ TypeOK /\ Heaped(heap)
           /\ AgesInv /\ SlotsInv /\ SleepInv /\ NamesInv /\ QueueInv

ExecutorInv == WaitInv /\ exec.seen <= now /\ NeverEarly /\ NeverOversleeps

TaskRec == [state : {"Queued", "Running", "Suspended", "Done"},
            due : 0 .. MaxTime, canceled : {0, 1}, waits : 0 .. MaxWaits]
SlotRec == [gen : Nat, task : Tasks \cup {None}]
ExecRec == [driver : {"blocking", "pump"}, pc : Points, cur : Tasks \cup {None},
            seen : 0 .. MaxTime, work : {0, 1}, until : Nat]

\* The types of the parts, and what the assumptions say of the constants.
LEMMA Typed ==
    ASSUME TypeOK
    PROVE  /\ now \in Nat /\ MaxTime \in Nat /\ now <= MaxTime /\ MaxWaits \in Nat
           /\ heap \in Seq(Entries)
           /\ slot \in [Slots -> SlotRec]
           /\ \A i \in Slots : slot[i].gen \in Nat /\ slot[i].task \in Tasks \cup {None}
           /\ \A i \in Slots : ~Free(i) => slot[i].task \in Tasks
           /\ task \in [Tasks -> TaskRec]
           /\ \A t \in Tasks : task[t].due \in Nat
           /\ \A e \in Entered(heap) : e \in Entries /\ e.id \in Slots /\ e.gen \in Nat
                                        /\ e.at \in Nat
           /\ \A e \in events : e.id \in Slots /\ e.gen \in Nat
           /\ None \notin Tasks
  <1>1. MaxTime \in Nat /\ MaxWaits \in Nat /\ None \notin Tasks
    BY ExecutorAssumption DEF ExecutorAssumption
  <1>2. slot \in [Slots -> SlotRec] /\ task \in [Tasks -> TaskRec] /\ now \in 0 .. MaxTime
        /\ heap \in Seq(Entries) /\ events \subseteq [id : Slots, gen : Nat]
    BY DEF TypeOK, SlotRec, TaskRec
  <1>3. \A i \in Slots : slot[i].gen \in Nat /\ slot[i].task \in Tasks \cup {None}
    BY <1>2 DEF SlotRec
  <1>4. \A t \in Tasks : task[t].due \in Nat
    BY <1>1, <1>2 DEF TaskRec
  <1>5. \A e \in Entered(heap) : e \in Entries
    BY <1>2 DEF Entered
  <1>6. \A e \in Entered(heap) : e.id \in Slots /\ e.gen \in Nat /\ e.at \in Nat
    BY <1>5 DEF Entries
  <1> QED BY <1>1, <1>2, <1>3, <1>4, <1>5, <1>6 DEF Free

\* A wait ends: slot i is retired and its task, whose deadline stays, is queued.
\* Entries may leave the heap that name no other wait.
LEMMA WaitEnds ==
    ASSUME WaitInv, NEW i \in Slots, ~Free(i), slot' = Retired(i),
           ready' = Append(ready, slot[i].task),
           task' \in [Tasks -> TaskRec],
           \A u \in Tasks : task'[u].due = task[u].due,
           \A u \in Tasks : u # slot[i].task => task'[u].state = task[u].state,
           task'[slot[i].task].state = "Queued",
           heap' \in Seq(Entries), Heaped(heap'),
           \A e \in Entered(heap') : e \in Entered(heap),
           \A e \in Entered(heap) : Names(e) => e \in Entered(heap') \/ e.id = i,
           events' \subseteq events, now' = now,
           exec' \in ExecRec, exec'.cur = exec.cur, exec'.pc = exec.pc
    PROVE  WaitInv'
  <1> DEFINE t == slot[i].task
  <1>0. TypeOK
    BY DEF WaitInv
  <1>1. /\ t \in Tasks /\ task[t].state = "Suspended" /\ t # None
        /\ \A j \in Slots : slot[j].task = t => j = i
    BY <1>0, Typed DEF WaitInv, SlotsInv
  <1>2. /\ slot' \in [Slots -> SlotRec]
        /\ slot'[i].gen = slot[i].gen + 1 /\ slot'[i].task = None
        /\ \A j \in Slots : j # i => slot'[j] = slot[j]
    BY <1>0, Typed DEF Retired, SlotRec
  <1>3. TypeOK'
    <2>1. ready' \in Seq(Tasks)
      BY <1>1 DEF WaitInv, TypeOK
    <2>2. events' \subseteq [id : Slots, gen : Nat]
      BY <1>0 DEF TypeOK
    <2>3. now' \in 0 .. MaxTime
      BY <1>0 DEF TypeOK
    <2> QED BY <1>2, <2>1, <2>2, <2>3 DEF TypeOK, SlotRec, TaskRec, ExecRec
  <1>4. \A e : Aged(e) /\ e.id \in Slots /\ e.gen \in Nat => Aged(e)'
    <2> SUFFICES ASSUME NEW e, Aged(e), e.id \in Slots, e.gen \in Nat PROVE Aged(e)'
      OBVIOUS
    <2>1. slot[e.id].gen \in Nat
      BY <1>0, Typed
    <2>2. CASE e.id = i
      BY <2>1, <2>2, <1>2 DEF Aged, Free
    <2>3. CASE e.id # i
      BY <2>3, <1>2 DEF Aged, Free
    <2> QED BY <2>2, <2>3
  <1>5. AgesInv'
    <2>1. \A e \in Entered(heap) : Aged(e)'
      BY <1>0, <1>4, Typed DEF WaitInv, AgesInv
    <2>2. \A e \in events : Aged(e)'
      BY <1>0, <1>4, Typed DEF WaitInv, AgesInv
    <2> QED BY <2>1, <2>2 DEF AgesInv
  <1>6. \A j \in Slots : ~Free(j)' => j # i /\ ~Free(j) /\ slot'[j] = slot[j] /\ slot[j].task # t
    BY <1>1, <1>2 DEF Free
  <1>7. SlotsInv'
    <2>1. ASSUME NEW j \in Slots, ~Free(j)'
          PROVE  task'[slot'[j].task].state = "Suspended"
      <3>1. ~Free(j) /\ slot'[j] = slot[j] /\ slot[j].task # t
        BY <2>1, <1>6
      <3>2. slot[j].task \in Tasks /\ task[slot[j].task].state = "Suspended"
        BY <3>1, <1>0, Typed DEF WaitInv, SlotsInv
      <3> QED BY <3>1, <3>2
    <2>2. \A j, k \in Slots : ~Free(j)' /\ slot'[j].task = slot'[k].task => j = k
      BY <1>2, <1>6 DEF WaitInv, SlotsInv, Free
    <2> QED BY <2>1, <2>2 DEF SlotsInv
  <1>8. SleepInv'
    <2> SUFFICES ASSUME NEW u \in Tasks, task'[u].state = "Suspended"
                 PROVE  \E j \in Slots :
                          /\ slot'[j].task = u
                          /\ task'[u].due > 0 => Entry(j, task[u].due)' \in Entered(heap')
      BY DEF SleepInv
    <2>1. u # t /\ task[u].state = "Suspended"
      OBVIOUS
    <2>2. PICK j \in Slots :
             slot[j].task = u /\ (task[u].due > 0 => Entry(j, task[u].due) \in Entered(heap))
      BY <2>1 DEF WaitInv, SleepInv
    <2>3. j # i /\ slot'[j] = slot[j] /\ u # None
      BY <2>1, <2>2, <1>0, <1>2, Typed
    <2>4. Entry(j, task[u].due)' = Entry(j, task[u].due) /\ Entry(j, task[u].due).id = j
          /\ Names(Entry(j, task[u].due))
      BY <2>2, <2>3 DEF Entry, Names, Free
    <2>5. task[u].due > 0 => Entry(j, task[u].due) \in Entered(heap')
      BY <2>2, <2>3, <2>4
    <2> QED BY <2>2, <2>3, <2>4, <2>5
  <1>9. NamesInv'
    <2>1. \A e : e.id \in Slots /\ Names(e)' => Names(e) /\ slot'[e.id] = slot[e.id]
      BY <1>6 DEF Names
    <2>2. ASSUME NEW e \in Entered(heap'), Names(e)'
          PROVE  task'[slot'[e.id].task].due = e.at
      <3>1. e \in Entered(heap) /\ e.id \in Slots
        BY <1>0, Typed
      <3>2. Names(e) /\ slot'[e.id] = slot[e.id] /\ slot[e.id].task \in Tasks
        BY <2>1, <2>2, <3>1, <1>0, Typed DEF Names
      <3> QED BY <3>1, <3>2 DEF WaitInv, NamesInv
    <2>3. ASSUME NEW e \in events', Names(e)'
          PROVE  task'[slot'[e.id].task].due = 0
      <3>1. e \in events /\ e.id \in Slots
        BY <1>0, Typed
      <3>2. Names(e) /\ slot'[e.id] = slot[e.id] /\ slot[e.id].task \in Tasks
        BY <2>1, <2>3, <3>1, <1>0, Typed DEF Names
      <3> QED BY <3>1, <3>2 DEF WaitInv, NamesInv
    <2> QED BY <2>2, <2>3 DEF NamesInv
  <1>10. QueueInv'
    <2>1. ready \in Seq(Tasks) /\ \A k \in 1 .. Len(ready) : ready[k] \in Tasks /\ ready[k] # t
      <3>1. ready \in Seq(Tasks)
        BY <1>0 DEF TypeOK
      <3>2. \A k \in 1 .. Len(ready) : ready[k] \in Tasks /\ task[ready[k]].state = "Queued"
        BY <3>1 DEF WaitInv, QueueInv
      <3> QED BY <3>1, <3>2, <1>1
    <2>2. /\ Len(ready') = Len(ready) + 1 /\ ready'[Len(ready) + 1] = t
          /\ \A k \in 1 .. Len(ready) : ready'[k] = ready[k]
      BY <2>1, <1>1
    <2>3. \A k \in 1 .. Len(ready') : k # Len(ready) + 1 => k \in 1 .. Len(ready)
      BY <2>1, <2>2
    <2>4. \A k \in 1 .. Len(ready') : task'[ready'[k]].state = "Queued"
      BY <2>1, <2>2, <2>3 DEF WaitInv, QueueInv
    <2>5. \A j, k \in 1 .. Len(ready') : ready'[j] = ready'[k] => j = k
      BY <2>1, <2>2, <2>3 DEF WaitInv, QueueInv
    <2>6. exec'.cur # None => exec'.pc \in Drains /\ task'[exec'.cur].state = "Running"
      <3>1. exec.cur \in Tasks \cup {None}
        BY <1>0 DEF TypeOK
      <3> QED BY <3>1, <1>1 DEF WaitInv, QueueInv
    <2> QED BY <2>4, <2>5, <2>6 DEF QueueInv
  <1> QED BY <1>3, <1>5, <1>7, <1>8, <1>9, <1>10 DEF WaitInv

\* Nothing happens to waits and queue; entries may leave the heap that name no
\* wait, and tasks may become cancelled.
LEMMA WaitsStay ==
    ASSUME WaitInv, UNCHANGED <<slot, ready>>,
           task' \in [Tasks -> TaskRec],
           \A u \in Tasks : task'[u].due = task[u].due /\ task'[u].state = task[u].state,
           heap' \in Seq(Entries), Heaped(heap'),
           \A e \in Entered(heap') : e \in Entered(heap),
           \A e \in Entered(heap) : Names(e) => e \in Entered(heap'),
           events' \subseteq events, now' \in 0 .. MaxTime,
           exec' \in ExecRec, exec'.cur = exec.cur, exec.cur # None => exec'.pc = exec.pc
    PROVE  WaitInv'
  <1>0. TypeOK
    BY DEF WaitInv
  <1>1. TypeOK'
    <2>1. events' \subseteq [id : Slots, gen : Nat]
      BY <1>0 DEF TypeOK
    <2> QED BY <1>0, <2>1 DEF TypeOK, TaskRec, ExecRec
  <1>2. \A e : (Aged(e) <=> Aged(e)') /\ (Names(e) <=> Names(e)')
    BY DEF Aged, Names, Free
  <1>3. AgesInv'
    BY <1>2 DEF WaitInv, AgesInv
  <1>4. SlotsInv'
    BY <1>0, Typed DEF WaitInv, SlotsInv, Free
  <1>5. SleepInv'
    <2> SUFFICES ASSUME NEW u \in Tasks, task'[u].state = "Suspended"
                 PROVE  \E j \in Slots :
                          /\ slot'[j].task = u
                          /\ task'[u].due > 0 => Entry(j, task[u].due)' \in Entered(heap')
      BY DEF SleepInv
    <2>1. task[u].state = "Suspended" /\ u # None
      BY <1>0, Typed
    <2>2. PICK j \in Slots :
             slot[j].task = u /\ (task[u].due > 0 => Entry(j, task[u].due) \in Entered(heap))
      BY <2>1 DEF WaitInv, SleepInv
    <2>3. Entry(j, task[u].due)' = Entry(j, task[u].due) /\ Names(Entry(j, task[u].due))
      BY <2>1, <2>2 DEF Entry, Names, Free
    <2> QED BY <2>2, <2>3
  <1>6. NamesInv'
    <2>1. ASSUME NEW e, e.id \in Slots, Names(e)' PROVE Names(e) /\ slot[e.id].task \in Tasks
      BY <2>1, <1>0, <1>2, Typed DEF Names
    <2>2. ASSUME NEW e \in Entered(heap'), Names(e)'
          PROVE  task'[slot'[e.id].task].due = e.at
      <3>1. e \in Entered(heap) /\ e.id \in Slots
        BY <1>0, Typed
      <3> QED BY <2>1, <2>2, <3>1 DEF WaitInv, NamesInv
    <2>3. ASSUME NEW e \in events', Names(e)'
          PROVE  task'[slot'[e.id].task].due = 0
      <3>1. e \in events /\ e.id \in Slots
        BY <1>0, Typed
      <3> QED BY <2>1, <2>3, <3>1 DEF WaitInv, NamesInv
    <2> QED BY <2>2, <2>3 DEF NamesInv
  <1>7. QueueInv'
    <2>1. ready \in Seq(Tasks) /\ exec.cur \in Tasks \cup {None}
      BY <1>0 DEF TypeOK
    <2> QED BY <2>1 DEF WaitInv, QueueInv
  <1> QED BY <1>1, <1>3, <1>4, <1>5, <1>6, <1>7 DEF WaitInv

-----------------------------------------------------------------------------
(* The steps.                                                              *)

\* exec and heap, when they are typed.
LEMMA ExecTyped ==
    ASSUME TypeOK
    PROVE  /\ exec \in ExecRec /\ exec.cur \in Tasks \cup {None} /\ exec.pc \in Points
           /\ exec.until \in Nat /\ exec.seen \in Nat /\ ready \in Seq(Tasks)
           /\ 0 \in 0 .. MaxTime /\ now \in 0 .. MaxTime
  <1>1. exec \in ExecRec /\ now \in 0 .. MaxTime /\ ready \in Seq(Tasks) /\ MaxTime \in Nat
    BY Typed DEF TypeOK, ExecRec
  <1> QED BY <1>1 DEF ExecRec

\* A source fires.  If the token names a wait, that wait ends; else nothing
\* happens to waits.
LEMMA WakeKeeps ==
    ASSUME ExecutorInv, NEW e, e.id \in Slots, WakeBy(e), now' = now,
           Names(e) => task[slot[e.id].task].due <= now,
           heap' \in Seq(Entries), Heaped(heap'),
           \A x \in Entered(heap') : x \in Entered(heap),
           \A x \in Entered(heap) : Names(x) => x \in Entered(heap') \/ (x.id = e.id /\ Names(e)),
           events' \subseteq events,
           exec' \in ExecRec, exec'.cur = exec.cur, exec'.pc = exec.pc
    PROVE  WaitInv' /\ NeverEarly'
           /\ \A t \in Tasks : task'[t].due = task[t].due
                               /\ (task'[t].state = "Suspended" => task[t].state = "Suspended")
  <1>0. WaitInv /\ TypeOK
    BY DEF ExecutorInv, WaitInv
  <1>1. CASE ~Names(e)
    <2>1. UNCHANGED <<slot, task, ready>>
      BY <1>1 DEF WakeBy
    <2>2. WaitInv'
      BY <1>0, <1>1, <2>1, WaitsStay, Typed, ExecTyped
    <2>3. NeverEarly'
      BY <2>1 DEF ExecutorInv, NeverEarly
    <2> QED BY <2>1, <2>2, <2>3
  <1>2. CASE Names(e)
    <2> DEFINE t == slot[e.id].task
    <2>1. /\ ~Free(e.id) /\ t \in Tasks /\ slot' = Retired(e.id)
          /\ task' = [task EXCEPT ![t].state = "Queued"] /\ ready' = Append(ready, t)
      BY <1>0, <1>2, Typed DEF Names, WakeBy
    <2>2. /\ task' \in [Tasks -> TaskRec] /\ task'[t].state = "Queued"
          /\ \A u \in Tasks : task'[u].due = task[u].due /\ task'[u].canceled = task[u].canceled
          /\ \A u \in Tasks : u # t => task'[u].state = task[u].state
      BY <1>0, <2>1, Typed DEF TaskRec
    <2>3. WaitInv'
      <3>1. \A x \in Entered(heap) : Names(x) => x \in Entered(heap') \/ x.id = e.id
        OBVIOUS
      <3> QED BY <1>0, <2>1, <2>2, <3>1, WaitEnds
    <2>4. NeverEarly'
      BY <1>2, <2>2 DEF ExecutorInv, NeverEarly
    <2> QED BY <2>2, <2>3, <2>4
  <1> QED BY <1>1, <1>2

\* A cancellation ends the wait of a task that sleeps.
LEMMA CanceledKeeps ==
    ASSUME ExecutorInv, NEW t \in Tasks, Canceled(t), UNCHANGED <<now, heap, events, exec>>
    PROVE  WaitInv' /\ NeverEarly'
           /\ \A u \in Tasks : task'[u].due = task[u].due
                               /\ (task'[u].state = "Suspended" => task[u].state = "Suspended")
  <1>0. WaitInv /\ TypeOK
    BY DEF ExecutorInv, WaitInv
  <1>1. CASE task[t].state = "Suspended"
    <2> DEFINE i == CHOOSE j \in SlotOf(t) : TRUE
    <2>1. i \in Slots /\ slot[i].task = t /\ ~Free(i)
      <3>1. SlotOf(t) # {} /\ t # None
        BY <1>0, <1>1, Typed DEF WaitInv, SleepInv, SlotOf
      <3> QED BY <3>1 DEF SlotOf, Free
    <2>2. /\ slot' = Retired(i) /\ ready' = Append(ready, t)
          /\ task' = [task EXCEPT ![t].canceled = 1, ![t].state = "Queued"]
      BY <1>1 DEF Canceled
    <2> HIDE DEF i
    <2>3. /\ task' \in [Tasks -> TaskRec] /\ task'[t].state = "Queued" /\ task'[t].canceled = 1
          /\ \A u \in Tasks : task'[u].due = task[u].due
          /\ \A u \in Tasks : u # t => task'[u] = task[u]
      BY <1>0, <2>2, Typed DEF TaskRec
    <2>4. WaitInv'
      BY <1>0, <2>1, <2>2, <2>3, WaitEnds, Typed, ExecTyped DEF WaitInv
    <2>5. NeverEarly'
      BY <2>3 DEF ExecutorInv, NeverEarly
    <2> QED BY <2>3, <2>4, <2>5
  <1>2. CASE task[t].state # "Suspended"
    <2>1. task' = [task EXCEPT ![t].canceled = 1] /\ UNCHANGED <<slot, ready>>
      BY <1>2 DEF Canceled
    <2>2. /\ task' \in [Tasks -> TaskRec] /\ task'[t].canceled = 1
          /\ \A u \in Tasks : task'[u].due = task[u].due /\ task'[u].state = task[u].state
          /\ \A u \in Tasks : u # t => task'[u] = task[u]
      BY <1>0, <2>1, Typed DEF TaskRec
    <2>3. WaitInv'
      BY <1>0, <2>1, <2>2, WaitsStay, Typed, ExecTyped DEF WaitInv
    <2>4. NeverEarly'
      BY <2>2 DEF ExecutorInv, NeverEarly
    <2> QED BY <2>2, <2>3, <2>4
  <1> QED BY <1>1, <1>2

\* A step of the loop that touches neither tasks nor heap.
LEMMA LoopKeeps ==
    ASSUME ExecutorInv, UNCHANGED <<heap, slot, events, task, ready>>,
           now' \in 0 .. MaxTime, now <= now', exec' \in ExecRec, exec'.cur = exec.cur,
           exec.cur # None => exec'.pc = exec.pc
    PROVE  WaitInv' /\ NeverEarly'
  <1>0. WaitInv /\ TypeOK
    BY DEF ExecutorInv, WaitInv
  <1>1. WaitInv'
    BY <1>0, WaitsStay, Typed DEF WaitInv
  <1>2. NeverEarly'
    BY <1>0, Typed DEF ExecutorInv, NeverEarly
  <1> QED BY <1>1, <1>2

\* A poll that ends by next_wait_timeout ends by the deadline of every sleeper.
LEMMA TimeoutInTime ==
    ASSUME WaitInv, NEW t \in Tasks, task[t].state = "Suspended", task[t].due > 0
    PROVE  LET until == now + NextWaitTimeout(PollCap)
           IN  until \in Nat /\ (until <= task[t].due \/ until <= now)
  <1>0. TypeOK /\ PollCap \in Nat
    BY ExecutorAssumption DEF WaitInv, ExecutorAssumption
  <1>1. PICK i \in Slots : Entry(i, task[t].due) \in Entered(heap)
    BY DEF WaitInv, SleepInv
  <1>2. PICK k \in 1 .. Len(heap) : heap[k] = Entry(i, task[t].due)
    BY <1>1 DEF Entered
  <1>3. /\ heap \in Seq(Entries) /\ heap # <<>> /\ heap[1].at <= heap[k].at
        /\ heap[k].at = task[t].due /\ heap[1].at \in Nat /\ now \in Nat /\ task[t].due \in Nat
    BY <1>0, <1>2, Typed, TopIsEarliest, Deadlines DEF WaitInv, Entry
  <1> QED BY <1>0, <1>3 DEF NextWaitTimeout

\* It is a time in any case.
LEMMA TimeoutIsNat == ASSUME TypeOK PROVE now + NextWaitTimeout(PollCap) \in Nat
  <1>1. PollCap \in Nat /\ now \in Nat /\ heap \in Seq(Entries)
    BY ExecutorAssumption, Typed DEF ExecutorAssumption
  <1>2. heap # <<>> => heap[1].at \in Nat
    BY <1>1, Deadlines
  <1> QED BY <1>1, <1>2 DEF NextWaitTimeout

\* A poll under way stays in time when no task goes to sleep.
LEMMA PollStays ==
    ASSUME ExecutorInv, now' \in Nat, now <= now', exec'.pc = exec.pc,
           exec'.until = exec.until \/ exec'.until = now',
           \A t \in Tasks : task'[t].due = task[t].due
                            /\ (task'[t].state = "Suspended" => task[t].state = "Suspended")
    PROVE  NeverOversleeps'
  <1>1. TypeOK /\ now \in Nat /\ exec.until \in Nat
    BY Typed, ExecTyped DEF ExecutorInv, WaitInv
  <1> QED BY <1>1 DEF ExecutorInv, NeverOversleeps, Polling

\* The invariant holds at the start, with any entries of cancelled sleeps left.
LEMMA InitInv == Init => ExecutorInv
  <1> SUFFICES ASSUME Init PROVE ExecutorInv
    OBVIOUS
  <1>1. PICK ats \in [1 .. Leftovers -> 1 .. MaxTime] : heap = LeftHeap[ats]
    BY DEF Init
  <1>2. /\ MaxTime \in Nat /\ MaxWaits \in Nat /\ Leftovers \in Nat /\ None \notin Tasks
        /\ IsFiniteSet(Tasks)
    BY ExecutorAssumption DEF ExecutorAssumption
  <1>3. ats \in Seq(Nat)
    BY <1>2
  <1>4. heap \in OldHeaps
    BY <1>1, <1>3, LeftHeapIsOld
  <1>5. heap \in Seq(Entries) /\ Heaped(heap) /\ \A e \in Entered(heap) : e.gen = 0
    BY <1>4 DEF OldHeaps, Entered
  <1>6. Cardinality(Tasks) \in Nat
    BY <1>2, FS_CardinalityType
  <1>7. ready \in Seq(Tasks) /\ \A j, k \in 1 .. Len(ready) : ready[j] = ready[k] => j = k
    <2>1. ready \in [1 .. Cardinality(Tasks) -> Tasks]
          /\ \A j, k \in DOMAIN ready : ready[j] = ready[k] => j = k
      BY DEF Init
    <2> QED BY <1>6, <2>1
  <1>8. TypeOK
    BY <1>2, <1>5, <1>7 DEF Init, TypeOK, Points
  <1>9. \A i \in Slots : Free(i) /\ slot[i].gen = 1
    BY DEF Init, Free
  <1>10. AgesInv
    BY <1>5, <1>8, <1>9, Typed DEF AgesInv, Aged, Init
  <1>11. SlotsInv
    BY <1>9 DEF SlotsInv
  <1>12. NamesInv
    BY <1>8, <1>9, Typed DEF NamesInv, Names
  <1>13. \A t \in Tasks : task[t].state = "Queued" /\ task[t].due = 0
    BY DEF Init
  <1>14. SleepInv
    BY <1>13 DEF SleepInv
  <1>15. QueueInv
    <2>1. \A k \in 1 .. Len(ready) : ready[k] \in Tasks
      BY <1>7
    <2> QED BY <2>1, <1>7, <1>13 DEF QueueInv, Init
  <1>16. exec.seen <= now /\ NeverEarly /\ NeverOversleeps
    BY <1>13 DEF Init, NeverEarly, NeverOversleeps, Polling
  <1> QED BY <1>5, <1>8, <1>10, <1>11, <1>12, <1>14, <1>15, <1>16 DEF ExecutorInv, WaitInv

\* The lowest of a set of slots is one of them.
LEMMA LowestIn ==
    ASSUME NEW S, S \subseteq Slots, S # {}
    PROVE  Lowest(S) \in S
  <1>1. S \subseteq Nat
    BY ExecutorAssumption DEF Slots, ExecutorAssumption
  <1>2. \E i \in S : \A j \in S : i <= j
    BY <1>1, LeastNatural
  <1> QED BY <1>2 DEF Lowest

\* A task goes to sleep: the next wait of a free slot, which no entry and no
\* event of an earlier wait can name.
LEMMA SuspendKeeps ==
    ASSUME ExecutorInv, NEW t \in Tasks, NEW due \in 0 .. MaxTime, Suspends(t, due),
           events' = events, heap' \in Seq(Entries), Heaped(heap'),
           due > 0 => [id |-> NewToken.id, gen |-> NewToken.gen, at |-> due] \in Entered(heap'),
           \A e \in Entered(heap) : e \in Entered(heap'),
           \A e \in Entered(heap') :
               e \in Entered(heap)
               \/ e = [id |-> NewToken.id, gen |-> NewToken.gen, at |-> due]
    PROVE  ExecutorInv'
  <1>i. PICK i : i = Lowest({j \in Slots : Free(j)})
    OBVIOUS
  <1>n. PICK new : new = [id |-> NewToken.id, gen |-> NewToken.gen, at |-> due]
    OBVIOUS
  <1>0. WaitInv /\ TypeOK
    BY DEF ExecutorInv, WaitInv
  <1>1. i \in Slots /\ Free(i)
    <2>1. {j \in Slots : Free(j)} # {}
      BY DEF Suspends
    <2> QED BY <2>1, <1>i, LowestIn
  <1>2. new = [id |-> i, gen |-> slot[i].gen, at |-> due]
    BY <1>i, <1>n DEF NewToken
  <1>3. /\ slot' = [slot EXCEPT ![i].task = t]
        /\ task' = [task EXCEPT ![t].state = "Suspended", ![t].due = due, ![t].waits = @ + 1]
        /\ exec' = [exec EXCEPT !.cur = None]
        /\ UNCHANGED <<now, ready>>
        /\ exec.cur = t /\ task[t].waits < MaxWaits
    BY <1>i DEF Suspends, Running
  <1>4. /\ slot' \in [Slots -> SlotRec] /\ slot'[i].gen = slot[i].gen /\ slot'[i].task = t
        /\ \A j \in Slots : j # i => slot'[j] = slot[j]
    BY <1>0, <1>1, <1>3, Typed DEF SlotRec
  <1>5. /\ task' \in [Tasks -> TaskRec]
        /\ task'[t].state = "Suspended" /\ task'[t].due = due
        /\ \A u \in Tasks : u # t => task'[u] = task[u]
    <2>1. task[t] \in TaskRec /\ task[t].waits + 1 \in 0 .. MaxWaits
      <3>1. task[t] \in TaskRec /\ MaxWaits \in Nat
        BY <1>0, Typed
      <3> QED BY <3>1, <1>3 DEF TaskRec
    <2> QED BY <2>1, <1>0, <1>3, Typed DEF TaskRec
  <1>6. exec' \in ExecRec /\ exec'.cur = None /\ exec'.pc = exec.pc /\ exec'.seen = exec.seen
    BY <1>0, <1>3, ExecTyped DEF ExecRec
  <1>7. exec.pc \in Drains /\ task[t].state = "Running" /\ t # None
    BY <1>0, <1>3, Typed DEF WaitInv, QueueInv
  <1>8. TypeOK'
    <2>1. now' \in 0 .. MaxTime /\ ready' \in Seq(Tasks) /\ events' \subseteq [id : Slots, gen : Nat]
      BY <1>0, <1>3 DEF TypeOK
    <2> QED BY <2>1, <1>4, <1>5, <1>6 DEF TypeOK, SlotRec, TaskRec, ExecRec
  <1>9. \A j \in Slots : slot[j].task # t
    BY <1>0, <1>7 DEF WaitInv, SlotsInv, Free
  <1>10. ASSUME NEW e, e.id \in Slots, Aged(e)
         PROVE  /\ Aged(e)'
                /\ Names(e)' => Names(e) /\ e.id # i /\ slot'[e.id] = slot[e.id]
    <2>1. slot[e.id].gen \in Nat
      BY <1>0, <1>10, Typed
    <2>2. CASE e.id = i
      BY <2>1, <2>2, <1>1, <1>4, <1>7, <1>10 DEF Aged, Free, Names
    <2>3. CASE e.id # i
      BY <2>3, <1>4, <1>10 DEF Aged, Free, Names
    <2> QED BY <2>2, <2>3
  <1>11. Aged(new)' /\ new.id = i
    <2>1. slot[i].gen \in Nat
      BY <1>0, <1>1, Typed
    <2> QED BY <2>1, <1>2, <1>4, <1>7 DEF Aged, Free
  <1>12. AgesInv'
    <2>1. ASSUME NEW e \in Entered(heap') PROVE Aged(e)'
      <3>1. CASE e \in Entered(heap)
        BY <3>1, <1>0, <1>10, Typed DEF WaitInv, AgesInv
      <3>2. CASE e = new
        BY <3>2, <1>11
      <3> QED BY <3>1, <3>2, <1>n
    <2>2. ASSUME NEW e \in events PROVE Aged(e)'
      BY <1>0, <1>10, Typed DEF WaitInv, AgesInv
    <2> QED BY <2>1, <2>2 DEF AgesInv
  <1>13. SlotsInv'
    <2>1. ASSUME NEW j \in Slots, ~Free(j)'
          PROVE  task'[slot'[j].task].state = "Suspended"
      <3>1. CASE j = i
        BY <3>1, <1>4, <1>5
      <3>2. CASE j # i
        <4>1. slot'[j] = slot[j] /\ ~Free(j)
          BY <3>2, <2>1, <1>4 DEF Free
        <4>2. slot[j].task \in Tasks /\ slot[j].task # t /\ task[slot[j].task].state = "Suspended"
          BY <4>1, <1>0, <1>9, Typed DEF WaitInv, SlotsInv
        <4> QED BY <4>1, <4>2, <1>5
      <3> QED BY <3>1, <3>2
    <2>2. ASSUME NEW j \in Slots, NEW k \in Slots, ~Free(j)', slot'[j].task = slot'[k].task
          PROVE  j = k
      BY <2>2, <1>0, <1>4, <1>9 DEF WaitInv, SlotsInv, Free
    <2> QED BY <2>1, <2>2 DEF SlotsInv
  <1>14. SleepInv'
    <2> SUFFICES ASSUME NEW u \in Tasks, task'[u].state = "Suspended"
                 PROVE  \E j \in Slots :
                          /\ slot'[j].task = u
                          /\ task'[u].due > 0 => Entry(j, task[u].due)' \in Entered(heap')
      BY DEF SleepInv
    <2>1. CASE u = t
      <3>1. Entry(i, task[t].due)' = new
        BY <1>2, <1>4, <1>5 DEF Entry
      <3> QED BY <2>1, <3>1, <1>1, <1>4, <1>5, <1>n
    <2>2. CASE u # t
      <3>1. task[u].state = "Suspended" /\ task'[u] = task[u] /\ u # None
        BY <2>2, <1>0, <1>5, Typed
      <3>2. PICK j \in Slots :
               slot[j].task = u /\ (task[u].due > 0 => Entry(j, task[u].due) \in Entered(heap))
        BY <3>1, <1>0 DEF WaitInv, SleepInv
      <3>3. j # i /\ slot'[j] = slot[j]
        BY <3>1, <3>2, <1>1, <1>4 DEF Free
      <3>4. Entry(j, task[u].due)' = Entry(j, task[u].due)
        BY <3>1, <3>3 DEF Entry
      <3> QED BY <3>1, <3>2, <3>3, <3>4
    <2> QED BY <2>1, <2>2
  <1>15. NamesInv'
    <2>1. ASSUME NEW e, e.id \in Slots, Aged(e), Names(e)'
          PROVE  /\ Names(e) /\ slot'[e.id] = slot[e.id] /\ slot[e.id].task \in Tasks
                 /\ task'[slot[e.id].task] = task[slot[e.id].task]
      <3>1. Names(e) /\ e.id # i /\ slot'[e.id] = slot[e.id]
        BY <2>1, <1>10
      <3>2. slot[e.id].task \in Tasks /\ slot[e.id].task # t
        BY <2>1, <3>1, <1>0, <1>9, Typed DEF Names
      <3> QED BY <3>1, <3>2, <1>5
    <2>2. ASSUME NEW e \in Entered(heap'), Names(e)'
          PROVE  task'[slot'[e.id].task].due = e.at
      <3>1. CASE e \in Entered(heap)
        <4>1. e.id \in Slots /\ Aged(e)
          BY <3>1, <1>0, Typed DEF WaitInv, AgesInv
        <4> QED BY <2>1, <2>2, <3>1, <4>1, <1>0 DEF WaitInv, NamesInv
      <3>2. CASE e = new
        BY <3>2, <1>2, <1>4, <1>5
      <3> QED BY <3>1, <3>2, <1>n
    <2>3. ASSUME NEW e \in events', Names(e)'
          PROVE  task'[slot'[e.id].task].due = 0
      <3>1. e \in events /\ e.id \in Slots /\ Aged(e)
        BY <1>0, Typed DEF WaitInv, AgesInv
      <3> QED BY <2>1, <2>3, <3>1, <1>0 DEF WaitInv, NamesInv
    <2> QED BY <2>2, <2>3 DEF NamesInv
  <1>16. QueueInv'
    <2>1. ready \in Seq(Tasks)
      BY <1>0 DEF TypeOK
    <2>2. \A k \in 1 .. Len(ready) : ready[k] \in Tasks /\ ready[k] # t
      BY <2>1, <1>0, <1>7 DEF WaitInv, QueueInv
    <2> QED BY <2>1, <2>2, <1>0, <1>3, <1>5, <1>6 DEF WaitInv, QueueInv
  <1>17. WaitInv'
    BY <1>8, <1>12, <1>13, <1>14, <1>15, <1>16 DEF WaitInv
  <1>18. NeverEarly'
    BY <1>3, <1>5 DEF ExecutorInv, NeverEarly
  <1>19. NeverOversleeps'
    BY <1>6, <1>7 DEF NeverOversleeps, Polling, Drains
  <1>20. exec'.seen <= now'
    BY <1>3, <1>6 DEF ExecutorInv
  <1> QED BY <1>17, <1>18, <1>19, <1>20 DEF ExecutorInv

\* The reactor refuses a wait: a free slot passes a generation by, and the task
\* goes on.
LEMMA RefusedKeeps ==
    ASSUME ExecutorInv, NEW t \in Tasks, WaitRefused(t)
    PROVE  ExecutorInv'
  <1>i. PICK i : i = NewToken.id
    OBVIOUS
  <1>0. WaitInv /\ TypeOK
    BY DEF ExecutorInv, WaitInv
  <1>1. i \in Slots /\ Free(i)
    <2>1. {j \in Slots : Free(j)} # {}
      BY DEF WaitRefused
    <2> QED BY <2>1, <1>i, LowestIn DEF NewToken
  <1>2. /\ slot' = Retired(i) /\ task' = [task EXCEPT ![t].waits = @ + 1]
        /\ UNCHANGED <<now, heap, events, ready, exec>>
        /\ task[t].waits < MaxWaits
    BY <1>i DEF WaitRefused
  <1>3. /\ slot' \in [Slots -> SlotRec] /\ slot'[i].gen = slot[i].gen + 1
        /\ slot'[i].task = None /\ slot[i].task = None
        /\ \A j \in Slots : j # i => slot'[j] = slot[j]
    BY <1>0, <1>1, <1>2, Typed DEF Retired, SlotRec, Free
  <1>4. /\ task' \in [Tasks -> TaskRec]
        /\ \A u \in Tasks : /\ task'[u].state = task[u].state /\ task'[u].due = task[u].due
                             /\ task'[u].canceled = task[u].canceled
    <2>1. task[t] \in TaskRec /\ task[t].waits + 1 \in 0 .. MaxWaits
      <3>1. task[t] \in TaskRec /\ MaxWaits \in Nat
        BY <1>0, Typed
      <3> QED BY <3>1, <1>2 DEF TaskRec
    <2> QED BY <2>1, <1>0, <1>2, Typed DEF TaskRec
  <1>5. TypeOK'
    BY <1>0, <1>2, <1>3, <1>4 DEF TypeOK, SlotRec, TaskRec
  <1>6. \A j \in Slots : slot'[j].task = slot[j].task /\ (Free(j)' <=> Free(j))
    BY <1>3 DEF Free
  <1>7. ASSUME NEW e, e.id \in Slots, e.gen \in Nat, Aged(e)
        PROVE  Aged(e)' /\ (Names(e)' => Names(e))
    <2>1. slot[e.id].gen \in Nat
      BY <1>0, <1>7, Typed
    <2>2. CASE e.id = i
      BY <2>1, <2>2, <1>1, <1>3, <1>6, <1>7 DEF Aged, Free, Names
    <2>3. CASE e.id # i
      BY <2>3, <1>3, <1>7 DEF Aged, Free, Names
    <2> QED BY <2>2, <2>3
  <1>8. /\ \A e \in Entered(heap) : Aged(e)' /\ (Names(e)' => Names(e)) /\ e.id \in Slots
        /\ \A e \in events : Aged(e)' /\ (Names(e)' => Names(e)) /\ e.id \in Slots
    BY <1>0, <1>7, Typed DEF WaitInv, AgesInv
  <1>9. AgesInv'
    BY <1>2, <1>8 DEF AgesInv
  <1>10. SlotsInv'
    <2>1. \A j \in Slots : ~Free(j) => slot[j].task \in Tasks
      BY <1>0, Typed
    <2> QED BY <2>1, <1>0, <1>4, <1>6 DEF WaitInv, SlotsInv
  <1>11. SleepInv'
    <2> SUFFICES ASSUME NEW u \in Tasks, task'[u].state = "Suspended"
                 PROVE  \E j \in Slots :
                          /\ slot'[j].task = u
                          /\ task'[u].due > 0 => Entry(j, task[u].due)' \in Entered(heap')
      BY DEF SleepInv
    <2>1. PICK j \in Slots :
             slot[j].task = u /\ (task[u].due > 0 => Entry(j, task[u].due) \in Entered(heap))
      BY <1>0, <1>4 DEF WaitInv, SleepInv
    <2>2. j # i /\ slot'[j] = slot[j]
      BY <2>1, <1>0, <1>3, Typed
    <2>3. Entry(j, task[u].due)' = Entry(j, task[u].due)
      BY <2>2, <1>4 DEF Entry
    <2> QED BY <2>1, <2>2, <2>3, <1>2, <1>4
  <1>12. NamesInv'
    <2>1. ASSUME NEW e, e.id \in Slots, Names(e)
          PROVE  task'[slot'[e.id].task].due = task[slot[e.id].task].due
      <3>1. slot[e.id].task \in Tasks
        BY <2>1, <1>0, Typed DEF Names
      <3> QED BY <2>1, <3>1, <1>4, <1>6
    <2> QED BY <2>1, <1>0, <1>2, <1>8 DEF WaitInv, NamesInv
  <1>13. QueueInv'
    <2>1. \A k \in 1 .. Len(ready) : ready[k] \in Tasks
      BY <1>0 DEF TypeOK
    <2>2. exec.cur # None => exec.cur \in Tasks
      BY <1>0 DEF TypeOK
    <2> QED BY <2>1, <2>2, <1>0, <1>2, <1>4 DEF WaitInv, QueueInv
  <1>14. WaitInv'
    BY <1>0, <1>2, <1>5, <1>9, <1>10, <1>11, <1>12, <1>13 DEF WaitInv
  <1>15. NeverEarly' /\ NeverOversleeps' /\ exec'.seen <= now'
    BY <1>2, <1>4 DEF ExecutorInv, NeverEarly, NeverOversleeps, Polling
  <1> QED BY <1>14, <1>15 DEF ExecutorInv

\* Every step keeps the invariant.
LEMMA StepInv == ExecutorInv /\ [Next]_vars => ExecutorInv'
  <1> SUFFICES ASSUME ExecutorInv, [Next]_vars PROVE ExecutorInv'
    OBVIOUS
  <1>a. /\ WaitInv /\ TypeOK /\ exec.seen <= now /\ now \in Nat /\ MaxTime \in Nat
        /\ now \in 0 .. MaxTime /\ exec \in ExecRec /\ exec.until \in Nat /\ exec.seen \in Nat
        /\ exec.cur \in Tasks \cup {None} /\ heap \in Seq(Entries) /\ Heaped(heap)
        /\ ready \in Seq(Tasks) /\ None \notin Tasks
    BY Typed, ExecTyped DEF ExecutorInv, WaitInv
  <1>b. exec.pc \in {"timers", "timers2", "poll", "host", "returned"} => exec.cur = None
    BY <1>a DEF WaitInv, QueueInv, Drains
  <1>c. \A e \in Entered(heap) : e \in Entries /\ e.id \in Slots /\ e.at \in Nat
    BY <1>a, Typed
  <1>1. CASE Resume
    <2>1. /\ exec.cur = None /\ exec.pc \in Drains
          /\ ready # <<>> /\ ready' = Tail(ready)
          /\ exec' = [exec EXCEPT !.cur = Head(ready), !.work = 1]
          /\ task' = [task EXCEPT ![Head(ready)].state = "Running"]
          /\ UNCHANGED <<now, heap, slot, events>>
      BY <1>1 DEF Resume
    <2>t. PICK t : t = Head(ready)
      OBVIOUS
    <2>2. t \in Tasks /\ t = ready[1] /\ task[t].state = "Queued" /\ 1 \in 1 .. Len(ready)
      <3>1. 1 \in 1 .. Len(ready) /\ t = ready[1] /\ ready[1] \in Tasks
        BY <1>a, <2>1, <2>t
      <3> QED BY <1>a, <3>1 DEF WaitInv, QueueInv
    <2>3. /\ task' \in [Tasks -> TaskRec] /\ task'[t].state = "Running"
          /\ \A u \in Tasks : u # t => task'[u] = task[u]
          /\ \A u \in Tasks : task'[u].due = task[u].due
      <3>1. task \in [Tasks -> TaskRec] /\ task' = [task EXCEPT ![t].state = "Running"]
        BY <1>a, <2>1, <2>t, Typed
      <3>2. PICK r : r = [task[t] EXCEPT !.state = "Running"]
        OBVIOUS
      <3>3. r \in TaskRec /\ r.state = "Running" /\ r.due = task[t].due
        BY <2>2, <3>1, <3>2 DEF TaskRec
      <3>4. task' = [task EXCEPT ![t] = r]
        BY <2>2, <3>1, <3>2
      <3> QED BY <2>2, <3>1, <3>3, <3>4
    <2>4. exec' \in ExecRec /\ exec'.cur = t /\ exec'.pc = exec.pc /\ exec'.seen = exec.seen
      BY <1>a, <2>1, <2>2, <2>t DEF ExecRec
    <2>5. TypeOK'
      <3>1. ready' \in Seq(Tasks)
        BY <1>a, <2>1
      <3>2. now' = now /\ heap' = heap /\ slot' = slot /\ events' = events
        BY <2>1
      <3> QED BY <1>a, <2>3, <2>4, <3>1, <3>2 DEF TypeOK, TaskRec, ExecRec
    <2>6. \A e : (Aged(e)' <=> Aged(e)) /\ (Names(e)' <=> Names(e))
      BY <2>1 DEF Aged, Names, Free
    <2>7. \A i \in Slots : ~Free(i) => slot[i].task \in Tasks /\ slot[i].task # t
      BY <1>a, <2>2, Typed DEF WaitInv, SlotsInv
    <2>8. AgesInv' /\ SlotsInv'
      <3>1. AgesInv'
        BY <1>a, <2>1, <2>6 DEF WaitInv, AgesInv
      <3>2. SlotsInv'
        BY <1>a, <2>1, <2>3, <2>7 DEF WaitInv, SlotsInv, Free
      <3> QED BY <3>1, <3>2
    <2>9. NamesInv'
      <3>1. \A e \in Entered(heap) : Names(e) => task'[slot[e.id].task].due = e.at
        BY <1>a, <1>c, <2>3, <2>7 DEF WaitInv, NamesInv, Names
      <3>2. \A e \in events : Names(e) => task'[slot[e.id].task].due = 0
        BY <1>a, <2>3, <2>7, Typed DEF WaitInv, NamesInv, Names
      <3> QED BY <2>1, <2>6, <3>1, <3>2 DEF NamesInv
    <2>10. SleepInv'
      <3>1. \A u \in Tasks : task'[u].state = "Suspended" => task[u].state = "Suspended"
        BY <2>3
      <3>2. \A i \in Slots, u \in Tasks : Entry(i, task[u].due)' = Entry(i, task[u].due)
        BY <2>1, <2>3 DEF Entry
      <3> QED BY <1>a, <2>1, <2>3, <3>1, <3>2 DEF WaitInv, SleepInv
    <2>11. QueueInv'
      <3>1. /\ Len(ready') = Len(ready) - 1
            /\ \A k \in 1 .. Len(ready') : k + 1 \in 1 .. Len(ready) /\ ready'[k] = ready[k + 1]
        BY <1>a, <2>1
      <3>2. \A k \in 1 .. Len(ready') :
               /\ ready[k + 1] \in Tasks /\ ready[k + 1] # t
               /\ task[ready[k + 1]].state = "Queued"
        BY <1>a, <2>2, <3>1 DEF WaitInv, QueueInv
      <3>3. \A j, k \in 1 .. Len(ready') : ready'[j] = ready'[k] => j = k
        <4> TAKE j, k \in 1 .. Len(ready')
        <4>1. ready[j + 1] = ready[k + 1] => j + 1 = k + 1
          BY <1>a, <3>1 DEF WaitInv, QueueInv
        <4> QED BY <3>1, <4>1
      <3> QED BY <2>1, <2>3, <2>4, <3>1, <3>2, <3>3 DEF QueueInv
    <2>12. NeverEarly' /\ NeverOversleeps' /\ exec'.seen <= now'
      BY <1>a, <2>1, <2>3, <2>4
         DEF ExecutorInv, NeverEarly, NeverOversleeps, Polling, Drains
    <2> QED BY <2>1, <2>5, <2>8, <2>9, <2>10, <2>11, <2>12, <1>a DEF ExecutorInv, WaitInv
  <1>2. CASE Drained
    <2>1. /\ UNCHANGED <<now, heap, slot, events, task, ready>> /\ exec.cur = None
          /\ exec'.cur = None /\ exec' \in ExecRec /\ exec'.seen \in {exec.seen, now}
          /\ exec'.pc = "host" => exec'.until = now
                                    \/ exec'.until = now + NextWaitTimeout(PollCap)
          /\ exec'.pc # "poll"
      <3>1. /\ UNCHANGED <<now, heap, slot, events, task, ready>> /\ exec.cur = None
            /\ exec.pc \in Drains
        BY <1>2 DEF Drained
      <3>2. CASE exec.pc = "drain"
        <4>1. PICK work : work = IF exec.driver = "blocking" THEN 0 ELSE exec.work
          OBVIOUS
        <4>2. exec' = [exec EXCEPT !.pc = "returned"]
              \/ exec' = [exec EXCEPT !.pc = "timers", !.seen = now, !.work = work]
          BY <1>2, <3>2, <4>1 DEF Drained
        <4>3. work \in {0, 1}
          BY <1>a, <4>1 DEF ExecRec
        <4> QED BY <1>a, <3>1, <4>2, <4>3 DEF ExecRec, Points
      <3>3. CASE exec.pc = "drain2"
        <4>1. PICK wait : wait = now + (IF exec.work = 1 THEN 0 ELSE NextWaitTimeout(PollCap))
          OBVIOUS
        <4>2. exec' = [exec EXCEPT !.pc = "host", !.until = wait]
          BY <1>2, <3>3, <4>1 DEF Drained
        <4>3. wait \in Nat /\ (wait = now \/ wait = now + NextWaitTimeout(PollCap))
          BY <1>a, <4>1, TimeoutIsNat
        <4> QED BY <1>a, <3>1, <4>2, <4>3 DEF ExecRec, Points
      <3>4. CASE exec.pc = "drain3"
        <4>1. exec' = [exec EXCEPT !.pc = "drain", !.work = 0]
          BY <1>2, <3>4 DEF Drained
        <4> QED BY <1>a, <3>1, <4>1 DEF ExecRec, Points
      <3> QED BY <3>1, <3>2, <3>3, <3>4 DEF Drains
    <2>2. WaitInv' /\ NeverEarly'
      BY <1>a, <2>1, LoopKeeps
    <2>3. NeverOversleeps'
      BY <1>a, <2>1, TimeoutInTime DEF NeverOversleeps, Polling
    <2> QED BY <1>a, <2>1, <2>2, <2>3 DEF ExecutorInv
  <1>3. CASE ReleaseTimer
    <2>1. /\ exec.pc \in Timers /\ heap # <<>> /\ exec.seen >= heap[1].at
          /\ heap' = Pop(heap) /\ WakeBy(heap[1]) /\ UNCHANGED <<now, events>>
          /\ exec' = [exec EXCEPT !.work = IF Names(heap[1]) THEN 1 ELSE @]
      BY <1>3 DEF ReleaseTimer, Expired
    <2>2. /\ exec' \in ExecRec /\ exec'.cur = exec.cur /\ exec'.pc = exec.pc
          /\ exec'.seen = exec.seen
      BY <1>a, <2>1 DEF ExecRec
    <2>3. 1 \in 1 .. Len(heap) /\ heap[1] \in Entered(heap)
      BY <1>a, <2>1 DEF Entered
    <2>4. Names(heap[1]) => task[slot[heap[1].id].task].due <= now
      BY <1>a, <1>c, <2>1, <2>3 DEF WaitInv, NamesInv
    <2>5. /\ heap' \in Seq(Entries) /\ Heaped(heap')
          /\ \A x : x \in Entered(heap') <=> \E k \in 2 .. Len(heap) : x = heap[k]
      BY <1>a, <2>1, PopRemoves
    <2>6. \A x \in Entered(heap') : x \in Entered(heap)
      <3> TAKE x \in Entered(heap')
      <3>1. PICK k \in 2 .. Len(heap) : x = heap[k]
        BY <2>5
      <3>2. k \in 1 .. Len(heap)
        BY <1>a
      <3> QED BY <3>1, <3>2 DEF Entered
    <2>7. \A x \in Entered(heap) : x \in Entered(heap') \/ x = heap[1]
      <3> TAKE x \in Entered(heap)
      <3>1. PICK k \in 1 .. Len(heap) : x = heap[k]
        BY DEF Entered
      <3>2. k = 1 \/ k \in 2 .. Len(heap)
        BY <1>a
      <3> QED BY <3>1, <3>2, <2>5
    <2>8. /\ WaitInv' /\ NeverEarly'
          /\ \A t \in Tasks : task'[t].due = task[t].due
                               /\ (task'[t].state = "Suspended" => task[t].state = "Suspended")
      <3>1. PICK e : e = heap[1]
        OBVIOUS
      <3>2. /\ e.id \in Slots /\ WakeBy(e) /\ now' = now /\ events' \subseteq events
            /\ Names(e) => task[slot[e.id].task].due <= now
        BY <1>c, <2>1, <2>3, <2>4, <3>1
      <3>3. \A x \in Entered(heap) :
               Names(x) => x \in Entered(heap') \/ (x.id = e.id /\ Names(e))
        BY <2>7, <3>1 DEF Names, Free
      <3> QED BY <2>2, <2>5, <2>6, <3>2, <3>3, WakeKeeps
    <2>9. NeverOversleeps'
      BY <2>1, <2>2 DEF NeverOversleeps, Polling, Timers
    <2> QED BY <1>a, <2>1, <2>2, <2>8, <2>9 DEF ExecutorInv
  <1>4. CASE TimersDone
    <2>1. exec.pc \in Timers /\ exec.cur = None
      BY <1>4, <1>b DEF TimersDone, Timers
    <2>2. /\ UNCHANGED <<now, heap, slot, events, task, ready>>
          /\ exec'.cur = None /\ exec' \in ExecRec /\ exec'.seen = exec.seen
          /\ exec'.pc = "poll" => exec'.until = now
                                    \/ exec'.until = now + NextWaitTimeout(PollCap)
          /\ exec'.pc # "host"
      BY <1>4, <1>a, <2>1, TimeoutIsNat DEF TimersDone, Timers, ExecRec, Points
    <2>3. WaitInv' /\ NeverEarly'
      BY <1>a, <2>1, <2>2, LoopKeeps
    <2>4. NeverOversleeps'
      BY <1>a, <2>2, TimeoutInTime DEF NeverOversleeps, Polling
    <2> QED BY <1>a, <2>2, <2>3, <2>4 DEF ExecutorInv
  <1>5. CASE HostReturns \/ HostFails \/ PollReturns
    <2>1. /\ UNCHANGED <<now, heap, slot, events, task, ready>> /\ exec.cur = None
          /\ exec'.cur = None /\ exec' \in ExecRec /\ exec'.seen \in {exec.seen, now}
          /\ exec'.pc \notin {"host", "poll"}
      BY <1>5, <1>a, <1>b DEF HostReturns, HostFails, PollReturns, Goto, ExecRec, Points
    <2>2. WaitInv' /\ NeverEarly'
      BY <1>a, <2>1, LoopKeeps
    <2>3. NeverOversleeps'
      BY <2>1 DEF NeverOversleeps, Polling
    <2> QED BY <1>a, <2>1, <2>2, <2>3 DEF ExecutorInv
  <1>6. ASSUME NEW e \in events, PollEvent(e)
        PROVE  ExecutorInv'
    <2>1. /\ exec.pc = "poll" /\ events' \subseteq events /\ WakeBy(e)
          /\ UNCHANGED <<now, heap>>
          /\ exec' \in ExecRec /\ exec'.cur = exec.cur /\ exec'.pc = exec.pc
          /\ exec'.seen = exec.seen /\ exec'.until = now
      BY <1>6, <1>a DEF PollEvent, ExecRec
    <2>2. e.id \in Slots /\ (Names(e) => task[slot[e.id].task].due <= now)
      BY <1>a, Typed DEF WaitInv, NamesInv
    <2>3. /\ WaitInv' /\ NeverEarly'
          /\ \A t \in Tasks : task'[t].due = task[t].due
                               /\ (task'[t].state = "Suspended" => task[t].state = "Suspended")
      <3>1. now' = now /\ heap' = heap
        BY <2>1
      <3>2. heap' \in Seq(Entries) /\ Heaped(heap')
        BY <1>a, <3>1
      <3>3. /\ \A x \in Entered(heap') : x \in Entered(heap)
            /\ \A x \in Entered(heap) :
                 Names(x) => x \in Entered(heap') \/ (x.id = e.id /\ Names(e))
        BY <3>1 DEF Entered
      <3> QED BY <2>1, <2>2, <3>1, <3>2, <3>3, WakeKeeps
    <2>4. NeverOversleeps'
      BY <1>a, <2>1, <2>3, PollStays
    <2> QED BY <1>a, <2>1, <2>3, <2>4 DEF ExecutorInv
  <1>7. ASSUME NEW t \in Tasks, Finish(t)
        PROVE  ExecutorInv'
    <2>1. /\ exec.cur = t /\ task' = [task EXCEPT ![t].state = "Done"]
          /\ exec' = [exec EXCEPT !.cur = None]
          /\ UNCHANGED <<now, heap, slot, events, ready>>
      BY <1>7 DEF Finish, Running
    <2>2. task[t].state = "Running" /\ exec.pc \in Drains
      BY <1>a, <2>1 DEF WaitInv, QueueInv
    <2>3. /\ task' \in [Tasks -> TaskRec] /\ task'[t].state = "Done"
          /\ \A u \in Tasks : u # t => task'[u] = task[u]
          /\ \A u \in Tasks : task'[u].due = task[u].due
      <3>1. task \in [Tasks -> TaskRec] /\ task' = [task EXCEPT ![t].state = "Done"]
        BY <1>a, <2>1, Typed
      <3> QED BY <3>1 DEF TaskRec
    <2>4. exec' \in ExecRec /\ exec'.cur = None /\ exec'.pc = exec.pc /\ exec'.seen = exec.seen
      BY <1>a, <2>1 DEF ExecRec
    <2>5. TypeOK'
      BY <1>a, <2>1, <2>3, <2>4 DEF TypeOK, TaskRec, ExecRec
    <2>6. \A e : (Aged(e)' <=> Aged(e)) /\ (Names(e)' <=> Names(e))
      BY <2>1 DEF Aged, Names, Free
    <2>7. \A i \in Slots : ~Free(i) => slot[i].task \in Tasks /\ slot[i].task # t
      BY <1>a, <2>2, Typed DEF WaitInv, SlotsInv
    <2>8. AgesInv' /\ SlotsInv'
      <3>1. AgesInv'
        BY <1>a, <2>1, <2>6 DEF WaitInv, AgesInv
      <3>2. SlotsInv'
        BY <1>a, <2>1, <2>3, <2>7 DEF WaitInv, SlotsInv, Free
      <3> QED BY <3>1, <3>2
    <2>9. NamesInv'
      <3>1. \A e \in Entered(heap) : Names(e) => task'[slot[e.id].task].due = e.at
        BY <1>a, <1>c, <2>3, <2>7 DEF WaitInv, NamesInv, Names
      <3>2. \A e \in events : Names(e) => task'[slot[e.id].task].due = 0
        BY <1>a, <2>3, <2>7, Typed DEF WaitInv, NamesInv, Names
      <3> QED BY <2>1, <2>6, <3>1, <3>2 DEF NamesInv
    <2>10. SleepInv'
      <3>1. \A u \in Tasks : task'[u].state = "Suspended" => task[u].state = "Suspended"
        BY <2>3
      <3>2. \A i \in Slots, u \in Tasks : Entry(i, task[u].due)' = Entry(i, task[u].due)
        BY <2>1, <2>3 DEF Entry
      <3> QED BY <1>a, <2>1, <2>3, <3>1, <3>2 DEF WaitInv, SleepInv
    <2>11. QueueInv'
      <3>1. \A k \in 1 .. Len(ready) : ready[k] \in Tasks /\ ready[k] # t
        BY <1>a, <2>2 DEF WaitInv, QueueInv
      <3> QED BY <1>a, <2>1, <2>3, <2>4, <3>1 DEF WaitInv, QueueInv
    <2>12. NeverEarly' /\ NeverOversleeps' /\ exec'.seen <= now'
      BY <1>a, <2>1, <2>2, <2>3, <2>4
         DEF ExecutorInv, NeverEarly, NeverOversleeps, Polling, Drains
    <2> QED BY <2>1, <2>5, <2>8, <2>9, <2>10, <2>11, <2>12, <1>a DEF ExecutorInv, WaitInv
  <1>8. CASE Tick
    <2>1. /\ UNCHANGED <<heap, slot, events, task, ready, exec>> /\ now' = now + 1
          /\ now' \in 0 .. MaxTime /\ now <= now' /\ now' \in Nat
      BY <1>8, <1>a DEF Tick
    <2>2. WaitInv' /\ NeverEarly'
      BY <1>a, <2>1, LoopKeeps
    <2>3. NeverOversleeps'
      BY <1>a, <2>1, PollStays
    <2> QED BY <1>a, <2>1, <2>2, <2>3 DEF ExecutorInv
  <1>9. ASSUME NEW t \in Tasks, WaitReady(t)
        PROVE  ExecutorInv'
    <2>1. Suspends(t, 0) /\ UNCHANGED <<heap, events>> /\ 0 \in 0 .. MaxTime
      BY <1>9, <1>a DEF WaitReady
    <2>2. heap' = heap /\ events' = events
      BY <2>1
    <2>3. heap' \in Seq(Entries) /\ Heaped(heap')
      BY <1>a, <2>2
    <2>4. /\ \A e \in Entered(heap) : e \in Entered(heap')
          /\ \A e \in Entered(heap') : e \in Entered(heap)
      BY <2>2
    <2>5. ~(0 > 0)
      OBVIOUS
    <2> QED BY <2>1, <2>2, <2>3, <2>4, <2>5, SuspendKeeps
  <1>10. ASSUME NEW t \in Tasks, NEW ms \in Durations, Sleep(t, ms)
         PROVE  ExecutorInv'
    <2>1. /\ Suspends(t, now + ms) /\ events' = events /\ now + ms \in 0 .. MaxTime
          /\ heap' = Push(heap, [id |-> NewToken.id, gen |-> NewToken.gen, at |-> now + ms])
      BY <1>10, <1>a, ExecutorAssumption DEF Sleep, ExecutorAssumption
    <2>2. [id |-> NewToken.id, gen |-> NewToken.gen, at |-> now + ms] \in Entries
      <3>1. {j \in Slots : Free(j)} # {} /\ {j \in Slots : Free(j)} \subseteq Slots
        BY <2>1 DEF Suspends
      <3>2. NewToken.id \in Slots /\ NewToken.gen \in Nat
        BY <3>1, <1>a, LowestIn, Typed DEF NewToken
      <3> QED BY <3>2, <2>1, <1>a DEF Entries
    <2>3. /\ heap' \in Seq(Entries) /\ Heaped(heap')
          /\ \A x : x \in Entered(heap') <=>
               x \in Entered(heap)
               \/ x = [id |-> NewToken.id, gen |-> NewToken.gen, at |-> now + ms]
      BY <2>1, <2>2, <1>a, PushAdds
    <2> QED BY <2>1, <2>3, SuspendKeeps
  <1>11. ASSUME NEW t \in Tasks, CancelFromThread(t) \/ \E u \in Tasks : Cancel(u, t)
         PROVE  ExecutorInv'
    <2>1. Canceled(t) /\ UNCHANGED <<now, heap, events, exec>>
      BY <1>11 DEF CancelFromThread, Cancel
    <2>2. /\ WaitInv' /\ NeverEarly'
          /\ \A u \in Tasks : task'[u].due = task[u].due
                               /\ (task'[u].state = "Suspended" => task[u].state = "Suspended")
      BY <2>1, CanceledKeeps
    <2>3. NeverOversleeps'
      BY <1>a, <2>1, <2>2, PollStays
    <2> QED BY <1>a, <2>1, <2>2, <2>3 DEF ExecutorInv
  <1>12. ASSUME NEW i \in Slots, BecomesReady(i)
         PROVE  ExecutorInv'
    <2>1. UNCHANGED <<now, heap, slot, task, ready, exec>>
      BY <1>12 DEF BecomesReady
    <2>2. PICK t \in Tasks : slot[i].task = t /\ task[t].due = 0
      BY <1>12 DEF BecomesReady
    <2>e. PICK e : e = [id |-> i, gen |-> slot[i].gen]
      OBVIOUS
    <2>3. events' = events \cup {e} /\ e.id = i /\ e.gen = slot[i].gen
      BY <1>12, <2>e DEF BecomesReady
    <2>4. slot[i].gen \in Nat /\ ~Free(i) /\ e \in [id : Slots, gen : Nat]
      BY <1>a, <2>2, <2>e, Typed DEF Free
    <2>5. \A x : (Aged(x)' <=> Aged(x)) /\ (Names(x)' <=> Names(x))
      BY <2>1 DEF Aged, Names, Free
    <2>6. Aged(e) /\ task[slot[e.id].task].due = 0
      BY <2>2, <2>3, <2>4 DEF Aged
    <2>7. TypeOK'
      BY <1>a, <2>1, <2>3, <2>4 DEF TypeOK
    <2>8. AgesInv' /\ NamesInv'
      BY <1>a, <2>1, <2>3, <2>5, <2>6 DEF WaitInv, AgesInv, NamesInv
    <2>9. SlotsInv' /\ SleepInv' /\ QueueInv' /\ Heaped(heap)' /\ NeverEarly' /\ NeverOversleeps'
      BY <1>a, <2>1 DEF ExecutorInv, WaitInv, SlotsInv, SleepInv, QueueInv, NeverEarly,
                        NeverOversleeps, Free, Entry, Polling
    <2> QED BY <1>a, <2>1, <2>7, <2>8, <2>9 DEF ExecutorInv, WaitInv
  <1>13. CASE UNCHANGED vars
    <2>1. UNCHANGED <<now, heap, slot, events, task, ready, exec>>
      BY <1>13 DEF vars
    <2>2. now' \in Nat /\ now <= now' /\ exec'.seen <= now'
      BY <1>a, <2>1
    <2>3. WaitInv' /\ NeverEarly'
      BY <1>a, <2>1, <2>2, LoopKeeps
    <2>4. NeverOversleeps'
      BY <2>1, <2>2, PollStays
    <2> QED BY <2>2, <2>3, <2>4 DEF ExecutorInv
  <1>14. ASSUME NEW t \in Tasks, WaitRefused(t)
         PROVE  ExecutorInv'
    BY <1>14, RefusedKeeps
  <1>15. ASSUME NEW t \in Tasks, NEW e \in events, Unregister(t, e)
         PROVE  ExecutorInv'
    <2>1. UNCHANGED <<now, heap, slot, task, ready, exec>> /\ events' \subseteq events
      BY <1>15 DEF Unregister
    <2>2. \A x : (Aged(x)' <=> Aged(x)) /\ (Names(x)' <=> Names(x))
      BY <2>1 DEF Aged, Names, Free
    <2>3. TypeOK'
      BY <1>a, <2>1 DEF TypeOK
    <2>4. AgesInv' /\ NamesInv'
      BY <1>a, <2>1, <2>2 DEF WaitInv, AgesInv, NamesInv
    <2>5. SlotsInv' /\ SleepInv' /\ QueueInv' /\ Heaped(heap)' /\ NeverEarly' /\ NeverOversleeps'
      BY <1>a, <2>1 DEF ExecutorInv, WaitInv, SlotsInv, SleepInv, QueueInv, NeverEarly,
                        NeverOversleeps, Free, Entry, Polling
    <2> QED BY <1>a, <2>1, <2>3, <2>4, <2>5 DEF ExecutorInv, WaitInv
  <1> QED
    BY <1>1, <1>2, <1>3, <1>4, <1>5, <1>6, <1>7, <1>8, <1>9, <1>10, <1>11, <1>12, <1>13,
       <1>14, <1>15
       DEF Next, Loop

-----------------------------------------------------------------------------
(* The theorems.                                                           *)

\* The waits, the heap and the ready queue agree with each other at every step.
THEOREM ExecutorInvHolds == Spec => []ExecutorInv
  <1>1. Init => ExecutorInv
    BY InitInv
  <1>2. ExecutorInv /\ [Next]_vars => ExecutorInv'
    BY StepInv
  <1> QED BY <1>1, <1>2, PTL DEF Spec

\* Every variable has its type, for heaps of every size.
THEOREM ExecutorTypeCorrect == Spec => []TypeOK
  <1>1. ExecutorInv => TypeOK
    BY DEF ExecutorInv, WaitInv
  <1> QED BY <1>1, ExecutorInvHolds, PTL

\* A sleeper that is not cancelled is never woken before its deadline, neither by
\* an entry of an earlier wait of its slot nor by a late event
\* (release_expired_timers, toka_wait_registry_try_wake).
THEOREM SleepersNeverEarly == Spec => []NeverEarly
  <1>1. ExecutorInv => NeverEarly
    BY DEF ExecutorInv
  <1> QED BY <1>1, ExecutorInvHolds, PTL

\* No poll runs past the deadline of a sleeper, whatever was pushed and popped
\* before: the top of the timer heap is its earliest entry (TimerHeap,
\* next_wait_timeout).
THEOREM PollsNeverOversleep == Spec => []NeverOversleeps
  <1>1. ExecutorInv => NeverOversleeps
    BY DEF ExecutorInv
  <1> QED BY <1>1, ExecutorInvHolds, PTL
=============================================================================
