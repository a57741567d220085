----------------------------- MODULE PALProofs -----------------------------
(***************************************************************************)
(* What the borrow checker promises for programs of every length, over any *)
(* set of variables and paths, on executions that run a loop body at most  *)
(* once.  The theorems are about programs that do not borrow again what an *)
(* entry of the same scope names (Reborrows = 0) and whose loops with a    *)
(* writable alias are over collections that no entry names yet             *)
(* (AliasedFors = 0); for the others the promise is broken.                *)
(***************************************************************************)
EXTENDS PAL, TLAPS

Frames == [kind : {"block", "if", "for"}, base : PALStates, first : PALStates,
           arm : {1, 2}, runs : {1, 2}, jumped : {0, 1}, added : {0, 1},
           source : Paths, mode : Modes]

\* The loop of frame j lent p to itself.
Loops(j, p) == flow[j].kind = "for" /\ flow[j].added = 1 /\ flow[j].source = p

\* It did so exclusively.
Exclusive(j, p) == Loops(j, p) /\ flow[j].mode = "Mut"

\* Level k has an entry of p as long as frame j is open.
Lent(j, k, p) == \/ flow[j].base.ledger[k][p] # "Free"
                 \/ k = j /\ Loops(j, p)

\* An entry for the loan.
Strong(e, mode) == e = "Mut" \/ (e = "Shared" /\ mode = "Shared")

\* s is a checker state of n scopes.
Checker(s, n) == s \in PALStates /\ Len(s.ledger) = n /\ Len(s.carriers) = n

\* It is one that the analysis has or comes back to under the frames 1 .. n - 1.
Snapshot(s, n) ==
    /\ Checker(s, n)
    /\ \A j \in 1 .. n - 1 : \A k \in 1 .. j, p \in Paths :
         Lent(j, k, p) => s.ledger[k][p] # "Free"
    /\ \A j \in 1 .. n - 1, p \in Paths : Exclusive(j, p) => s.ledger[j][p] = "Mut"
    /\ \A k \in 1 .. n, v \in Values :
         s.carriers[k][v] # {} => v \in Declared(k)

\* The markers of a checker state of n scopes: each has its entry in the
\* innermost scope, unless nothing was declared there yet that could hold it.
Marked(s, n) ==
    \A p \in s.transient : s.ledger[n][p] # "Free" \/ Declared(n) \cap Refs = {}

FrameInv(j) ==
    /\ Snapshot(flow[j].base, j) /\ Marked(flow[j].base, j)
    /\ Snapshot(flow[j].first, j)
    /\ flow[j].arm = 2 => flow[j].kind = "if" /\ flow[j].first.transient = {}
    /\ flow[j].kind = "block" => flow[j].runs = 1
    /\ \A p \in Paths : Loops(j, p) =>
         \A k \in 1 .. j : flow[j].base.ledger[k][p] = "Free"
    /\ flow[j].kind = "for" => \E k \in 1 .. j : Lent(j, k, flow[j].source)
    /\ flow[j].kind = "for" /\ flow[j].mode = "Mut" => flow[j].added = 1

Shape ==
    /\ scopes \in Seq(Seq(Roots \cup Holders)) /\ Depth >= 1
    /\ flow \in Seq(Frames) /\ Len(flow) = Depth - 1
    /\ stmt \in {"none", "open"} /\ exec \in {"on", "gone"} /\ ops \in 0 .. MaxOps
    /\ dead \subseteq Roots
    /\ loans \subseteq [holder : Holders \cup {Temp}, path : Paths, mode : Modes]

\* A name is declared in one scope.
OneScope == \A j, k \in 1 .. Depth : j # k => Declared(j) \cap Declared(k) = {}

Markers ==
    /\ Marked(pal, Depth)
    /\ stmt = "none" =>
         pal.transient \subseteq IF Len(flow) = 0 THEN {}
                                 ELSE flow[Len(flow)].base.transient

\* No end of a statement, an arm or a loop that the execution, at level n, has
\* before it erases the entry of p at level k.
Firm(n, k, p) ==
    /\ k = Depth => p \notin pal.transient
    /\ k <= Len(flow) => p \notin flow[k].base.transient
    /\ \A j \in k .. n - 1 : ~Loops(j, p)

\* The loan l is on record in the checker state s of n scopes.
OnRecord(s, n, l) ==
    \/ /\ l.holder = Temp /\ n = Depth /\ stmt = "open"
       /\ Strong(s.ledger[n][l.path], l.mode)
    \/ /\ l.holder \in Refs
       /\ \E m \in 1 .. n :
            /\ l.holder \in Declared(m)
            /\ \E k \in 1 .. m : l.path.root \in Declared(k)
            /\ \E k \in 1 .. m :
                 Strong(s.ledger[k][l.path], l.mode) /\ Firm(n, k, l.path)
    \/ /\ l.holder \in Values /\ l.mode = "Shared"
       /\ \E m \in 1 .. n :
            l.holder \in Declared(m) /\ l.path \in s.carriers[m][l.holder]

\* The execution is at level n: it runs in every arm around, and not in the
\* arm of frame n that is being analysed.
RunsIn(i) == flow[i].arm = flow[i].runs
At(n) == (\A i \in 1 .. n - 1 : RunsIn(i)) /\ (n <= Len(flow) => ~RunsIn(n))

\* The checker state from which the analysis will go on along the execution.
Point(n) == IF n = Depth THEN pal
            ELSE IF flow[n].arm = 1 THEN flow[n].base ELSE flow[n].first

LoanInv ==
    exec = "on" => \A n \in 1 .. Depth : At(n) =>
        /\ \A l \in loans : OnRecord(Point(n), n, l)
        /\ n <= Len(flow) /\ flow[n].arm = 2 => flow[n].jumped = 0

Sound == clash \subseteq {"flagged"}

PALInv ==
    /\ Shape
    /\ OneScope
    /\ Snapshot(pal, Depth)
    /\ \A j \in 1 .. Len(flow) : FrameInv(j)
    /\ Markers
    /\ LoanInv
    /\ Sound

-----------------------------------------------------------------------------
(* What the operations of the checker do to its maps.                      *)

Ledgers == Seq([Paths -> PathStates])
CarrierMaps == Seq([Values -> SUBSET Paths])
PathSets == SUBSET Paths
RootSets == SUBSET Roots

\* The maps of a checker state have their types.
LEMMA CheckerTypes ==
    ASSUME NEW n \in Nat, NEW s, Checker(s, n)
    PROVE  /\ Levels(s) = 1 .. n
           /\ s.ledger \in Seq([Paths -> PathStates])
           /\ s.carriers \in Seq([Values -> SUBSET Paths])
           /\ \A k \in 1 .. n : s.ledger[k] \in [Paths -> PathStates]
           /\ \A k \in 1 .. n : s.carriers[k] \in [Values -> SUBSET Paths]
           /\ s.transient \in SUBSET Paths /\ s.moved \in SUBSET Roots
  <1>1. /\ s.ledger \in Seq([Paths -> PathStates]) /\ Len(s.ledger) = n
        /\ s.carriers \in Seq([Values -> SUBSET Paths]) /\ Len(s.carriers) = n
        /\ s.transient \in SUBSET Paths /\ s.moved \in SUBSET Roots
    BY DEF Checker, PALStates
  <1>2. Levels(s) = 1 .. n
    BY <1>1 DEF Levels
  <1>3. \A k \in 1 .. n : s.ledger[k] \in [Paths -> PathStates]
    BY <1>1
  <1>4. \A k \in 1 .. n : s.carriers[k] \in [Values -> SUBSET Paths]
    BY <1>1
  <1> QED BY <1>1, <1>2, <1>3, <1>4

\* The checker state s with another ledger and other markers.
WithMarkers(s, a, c) == [s EXCEPT !.ledger = a, !.transient = c]

\* WithMarkers changes these fields and no other.
LEMMA WithMarkersIs ==
    ASSUME NEW s \in PALStates,
           NEW a \in Ledgers, NEW c \in PathSets
    PROVE  LET t == WithMarkers(s, a, c) IN
           /\ t \in PALStates
           /\ t.ledger = a /\ t.carriers = s.carriers
           /\ t.transient = c /\ t.moved = s.moved
  <1> DEFINE R == [ledger : Ledgers, carriers : CarrierMaps, transient : PathSets,
                   moved : RootSets]
             t == WithMarkers(s, a, c)
  <1>1. PALStates = R
    BY DEF PALStates, Ledgers, CarrierMaps, PathSets, RootSets
  <1>2. /\ t \in R
        /\ t.ledger = a /\ t.carriers = s.carriers
        /\ t.transient = c /\ t.moved = s.moved
    BY <1>1 DEF WithMarkers
  <1> HIDE DEF R
  <1> QED BY <1>1, <1>2

\* The checker state s with another ledger and other moved flags.
WithMoved(s, a, d) == [s EXCEPT !.ledger = a, !.moved = d]

\* WithMoved changes these fields and no other.
LEMMA WithMovedIs ==
    ASSUME NEW s \in PALStates,
           NEW a \in Ledgers, NEW d \in RootSets
    PROVE  LET t == WithMoved(s, a, d) IN
           /\ t \in PALStates
           /\ t.ledger = a /\ t.carriers = s.carriers
           /\ t.transient = s.transient /\ t.moved = d
  <1> DEFINE R == [ledger : Ledgers, carriers : CarrierMaps, transient : PathSets,
                   moved : RootSets]
             t == WithMoved(s, a, d)
  <1>1. PALStates = R
    BY DEF PALStates, Ledgers, CarrierMaps, PathSets, RootSets
  <1>2. /\ t \in R
        /\ t.ledger = a /\ t.carriers = s.carriers
        /\ t.transient = s.transient /\ t.moved = d
    BY <1>1 DEF WithMoved
  <1> HIDE DEF R
  <1> QED BY <1>1, <1>2

\* The checker state s with other maps.
WithMaps(s, a, b) == [s EXCEPT !.ledger = a, !.carriers = b]

\* WithMaps changes these fields and no other.
LEMMA WithMapsIs ==
    ASSUME NEW s \in PALStates,
           NEW a \in Ledgers, NEW b \in CarrierMaps
    PROVE  LET t == WithMaps(s, a, b) IN
           /\ t \in PALStates
           /\ t.ledger = a /\ t.carriers = b
           /\ t.transient = s.transient /\ t.moved = s.moved
  <1> DEFINE R == [ledger : Ledgers, carriers : CarrierMaps, transient : PathSets,
                   moved : RootSets]
             t == WithMaps(s, a, b)
  <1>1. PALStates = R
    BY DEF PALStates, Ledgers, CarrierMaps, PathSets, RootSets
  <1>2. /\ t \in R
        /\ t.ledger = a /\ t.carriers = b
        /\ t.transient = s.transient /\ t.moved = s.moved
    BY <1>1 DEF WithMaps
  <1> HIDE DEF R
  <1> QED BY <1>1, <1>2

\* The checker state s with other carriers.
WithCarriers(s, b) == [s EXCEPT !.carriers = b]

\* WithCarriers changes these fields and no other.
LEMMA WithCarriersIs ==
    ASSUME NEW s \in PALStates,
           NEW b \in CarrierMaps
    PROVE  LET t == WithCarriers(s, b) IN
           /\ t \in PALStates
           /\ t.ledger = s.ledger /\ t.carriers = b
           /\ t.transient = s.transient /\ t.moved = s.moved
  <1> DEFINE R == [ledger : Ledgers, carriers : CarrierMaps, transient : PathSets,
                   moved : RootSets]
             t == WithCarriers(s, b)
  <1>1. PALStates = R
    BY DEF PALStates, Ledgers, CarrierMaps, PathSets, RootSets
  <1>2. /\ t \in R
        /\ t.ledger = s.ledger /\ t.carriers = b
        /\ t.transient = s.transient /\ t.moved = s.moved
    BY <1>1 DEF WithCarriers
  <1> HIDE DEF R
  <1> QED BY <1>1, <1>2

\* recordBorrow writes one entry of the innermost scope and its marker.
LEMMA RecordedIs ==
    ASSUME NEW n \in Nat \ {0}, NEW s, Checker(s, n),
           NEW p \in Paths, NEW mode \in Modes
    PROVE  LET r == Recorded(s, p, mode) IN
           /\ Checker(r, n)
           /\ r.ledger[n][p] = mode
           /\ \A k \in 1 .. n, q \in Paths :
                k # n \/ q # p => r.ledger[k][q] = s.ledger[k][q]
           /\ r.carriers = s.carriers
           /\ r.transient = s.transient \cup {p}
           /\ r.moved = s.moved
  <1> DEFINE top == [s.ledger[n] EXCEPT ![p] = mode]
             led == [s.ledger EXCEPT ![n] = top]
             tr == s.transient \cup {p}
             r == Recorded(s, p, mode)
  <1>1. /\ s.ledger \in Seq([Paths -> PathStates]) /\ Len(s.ledger) = n
        /\ s.ledger[n] \in [Paths -> PathStates]
        /\ s.transient \in SUBSET Paths
    BY CheckerTypes DEF Checker
  <1>2. r = WithMarkers(s, led, tr)
    BY <1>1 DEF Recorded, Checker, PALStates, WithMarkers
  <1>3. top \in [Paths -> PathStates] /\ top[p] = mode
        /\ \A q \in Paths : q # p => top[q] = s.ledger[n][q]
    BY <1>1 DEF PathStates, Modes
  <1> HIDE DEF top
  <1>4. /\ led \in Seq([Paths -> PathStates]) /\ Len(led) = n /\ led[n] = top
        /\ \A k \in 1 .. n : k # n => led[k] = s.ledger[k]
    BY <1>1, <1>3
  <1> HIDE DEF led
  <1>5. /\ r \in PALStates /\ r.ledger = led /\ r.carriers = s.carriers
        /\ r.transient = tr /\ r.moved = s.moved
    <2>1. s \in PALStates /\ tr \in PathSets /\ led \in Ledgers
      BY <1>1, <1>4 DEF Checker, PathSets, Ledgers
    <2> HIDE DEF tr, r
    <2> QED BY <1>2, <2>1, WithMarkersIs
  <1> HIDE DEF r
  <1>6. Checker(r, n)
    BY <1>4, <1>5 DEF Checker
  <1>7. r.ledger[n][p] = mode
    BY <1>3, <1>4, <1>5
  <1>8. \A k \in 1 .. n, q \in Paths :
          k # n \/ q # p => r.ledger[k][q] = s.ledger[k][q]
    BY <1>3, <1>4, <1>5
  <1> QED BY <1>5, <1>6, <1>7, <1>8 DEF r

\* commitTransient copies the entry of the innermost scope to the binding's
\* level, and takes the marker away.
LEMMA CommittedIs ==
    ASSUME NEW n \in Nat \ {0}, NEW s, Checker(s, n),
           NEW p \in Paths, NEW level \in 1 .. n, s.ledger[n][p] # "Free"
    PROVE  LET r == Committed(s, p, level) IN
           /\ Checker(r, n)
           /\ r.ledger[level][p] = IF s.ledger[level][p] = "Free" \/ s.ledger[n][p] = "Mut"
                                     THEN s.ledger[n][p] ELSE s.ledger[level][p]
           /\ \A k \in 1 .. n, q \in Paths :
                k # level \/ q # p => r.ledger[k][q] = s.ledger[k][q]
           /\ r.carriers = s.carriers
           /\ r.transient = s.transient \ {p}
           /\ r.moved = s.moved
  <1> DEFINE at == {k \in level .. Len(s.ledger) : s.ledger[k][p] # "Free"}
             from == CHOOSE k \in at : \A j \in at : j <= k
             keep == IF at = {} THEN s.ledger[level][p]
                     ELSE IF s.ledger[level][p] = "Free" \/ s.ledger[from][p] = "Mut"
                            THEN s.ledger[from][p]
                     ELSE s.ledger[level][p]
             kept == IF s.ledger[level][p] = "Free" \/ s.ledger[n][p] = "Mut"
                       THEN s.ledger[n][p] ELSE s.ledger[level][p]
             top == [s.ledger[level] EXCEPT ![p] = keep]
             led == [s.ledger EXCEPT ![level] = top]
             tr == s.transient \ {p}
             r == Committed(s, p, level)
  <1>1. /\ s.ledger \in Seq([Paths -> PathStates]) /\ Len(s.ledger) = n
        /\ \A k \in 1 .. n : s.ledger[k] \in [Paths -> PathStates]
        /\ s.transient \in SUBSET Paths
    BY CheckerTypes DEF Checker
  <1>2. n \in at /\ \A j \in at : j <= n
    BY <1>1
  <1>3. from = n
    <2>1. from \in at /\ \A j \in at : j <= from
      BY <1>2
    <2>2. from \in Nat /\ n \in Nat /\ at \subseteq Nat
      BY <1>1, <2>1
    <2> QED BY <1>2, <2>1, <2>2
  <1>4. keep = kept /\ keep \in PathStates
    <2>1. at # {} /\ s.ledger[from] = s.ledger[n]
      BY <1>2, <1>3
    <2>2. s.ledger[n][p] \in PathStates /\ s.ledger[level][p] \in PathStates
      BY <1>1
    <2> HIDE DEF at, from
    <2> QED BY <2>1, <2>2
  <1>5. r = WithMarkers(s, led, tr)
    BY <1>1 DEF Committed, Checker, PALStates, WithMarkers
  <1> HIDE DEF at, from, keep
  <1>6. top \in [Paths -> PathStates] /\ top[p] = kept
        /\ \A q \in Paths : q # p => top[q] = s.ledger[level][q]
    BY <1>1, <1>4
  <1> HIDE DEF top
  <1>7. /\ led \in Seq([Paths -> PathStates]) /\ Len(led) = n /\ led[level] = top
        /\ \A k \in 1 .. n : k # level => led[k] = s.ledger[k]
    BY <1>1, <1>6
  <1> HIDE DEF led
  <1>8. /\ r \in PALStates /\ r.ledger = led /\ r.carriers = s.carriers
        /\ r.transient = tr /\ r.moved = s.moved
    <2>1. s \in PALStates /\ tr \in PathSets /\ led \in Ledgers
      BY <1>1, <1>7 DEF Checker, PathSets, Ledgers
    <2> HIDE DEF tr, r
    <2> QED BY <1>5, <2>1, WithMarkersIs
  <1> HIDE DEF r, kept
  <1>9. Checker(r, n)
    BY <1>7, <1>8 DEF Checker
  <1>10. r.ledger[level][p] = kept
    BY <1>6, <1>7, <1>8
  <1>11. \A k \in 1 .. n, q \in Paths :
          k # level \/ q # p => r.ledger[k][q] = s.ledger[k][q]
    BY <1>6, <1>7, <1>8
  <1> QED BY <1>8, <1>9, <1>10, <1>11 DEF r, kept

\* clearTransient erases the marked entries of the innermost scope.
LEMMA ClearedIs ==
    ASSUME NEW n \in Nat \ {0}, NEW s, Checker(s, n)
    PROVE  LET r == Cleared(s) IN
           /\ Checker(r, n)
           /\ \A k \in 1 .. n, q \in Paths :
                r.ledger[k][q] = IF k = n /\ q \in s.transient THEN "Free"
                                 ELSE s.ledger[k][q]
           /\ r.carriers = s.carriers
           /\ r.transient = {}
           /\ r.moved = s.moved
  <1> DEFINE top == [q \in Paths |-> IF q \in s.transient THEN "Free" ELSE s.ledger[n][q]]
             led == [s.ledger EXCEPT ![n] = top]
             tr == {}
             r == Cleared(s)
  <1>1. /\ s.ledger \in Seq([Paths -> PathStates]) /\ Len(s.ledger) = n
        /\ \A k \in 1 .. n : s.ledger[k] \in [Paths -> PathStates]
        /\ s.transient \in SUBSET Paths
    BY CheckerTypes DEF Checker
  <1>2. r = WithMarkers(s, led, tr)
    BY <1>1 DEF Cleared, Checker, PALStates, WithMarkers
  <1>3. top \in [Paths -> PathStates]
        /\ \A q \in Paths : top[q] = IF q \in s.transient THEN "Free" ELSE s.ledger[n][q]
    BY <1>1 DEF PathStates
  <1> HIDE DEF top
  <1>4. /\ led \in Seq([Paths -> PathStates]) /\ Len(led) = n /\ led[n] = top
        /\ \A k \in 1 .. n : k # n => led[k] = s.ledger[k]
    BY <1>1, <1>3
  <1> HIDE DEF led
  <1>5. /\ r \in PALStates /\ r.ledger = led /\ r.carriers = s.carriers
        /\ r.transient = tr /\ r.moved = s.moved
    <2>1. s \in PALStates /\ tr \in PathSets /\ led \in Ledgers
      BY <1>1, <1>4 DEF Checker, PathSets, Ledgers
    <2> HIDE DEF tr, r
    <2> QED BY <1>2, <2>1, WithMarkersIs
  <1> HIDE DEF r
  <1>6. Checker(r, n)
    BY <1>4, <1>5 DEF Checker
  <1>7. \A k \in 1 .. n, q \in Paths :
          r.ledger[k][q] = IF k = n /\ q \in s.transient THEN "Free" ELSE s.ledger[k][q]
    BY <1>3, <1>4, <1>5
  <1> QED BY <1>5, <1>6, <1>7 DEF r

\* releaseBorrow erases the entries of one path.
LEMMA ReleasedBorrowIs ==
    ASSUME NEW n \in Nat \ {0}, NEW s, Checker(s, n), NEW p \in Paths
    PROVE  LET r == ReleasedBorrow(s, p) IN
           /\ Checker(r, n)
           /\ \A k \in 1 .. n, q \in Paths :
                r.ledger[k][q] = IF q = p THEN "Free" ELSE s.ledger[k][q]
           /\ r.carriers = s.carriers
           /\ r.transient = s.transient \ {p}
           /\ r.moved = s.moved
  <1> DEFINE led == [k \in Levels(s) |-> [s.ledger[k] EXCEPT ![p] = "Free"]]
             tr == s.transient \ {p}
             r == ReleasedBorrow(s, p)
  <1>1. /\ s.ledger \in Seq([Paths -> PathStates]) /\ Len(s.ledger) = n
        /\ \A k \in 1 .. n : s.ledger[k] \in [Paths -> PathStates]
        /\ s.transient \in SUBSET Paths /\ Levels(s) = 1 .. n
    BY CheckerTypes DEF Checker
  <1>2. r = WithMarkers(s, led, tr)
    BY <1>1 DEF ReleasedBorrow, Checker, PALStates, WithMarkers
  <1>3. /\ led \in [1 .. n -> [Paths -> PathStates]]
        /\ \A k \in 1 .. n, q \in Paths :
             led[k][q] = IF q = p THEN "Free" ELSE s.ledger[k][q]
    BY <1>1 DEF PathStates
  <1> HIDE DEF led
  <1>4. led \in Seq([Paths -> PathStates]) /\ Len(led) = n
    BY <1>3
  <1>5. /\ r \in PALStates /\ r.ledger = led /\ r.carriers = s.carriers
        /\ r.transient = tr /\ r.moved = s.moved
    <2>1. s \in PALStates /\ tr \in PathSets /\ led \in Ledgers
      BY <1>1, <1>4 DEF Checker, PathSets, Ledgers
    <2> HIDE DEF tr, r
    <2> QED BY <1>2, <2>1, WithMarkersIs
  <1> HIDE DEF r
  <1>6. Checker(r, n)
    BY <1>4, <1>5 DEF Checker
  <1> QED BY <1>3, <1>5, <1>6 DEF r

\* releaseCarrierBorrows empties what v carries.
LEMMA ReleasedCarrierIs ==
    ASSUME NEW n \in Nat \ {0}, NEW s, Checker(s, n), NEW v \in Values
    PROVE  LET r == ReleasedCarrier(s, v) IN
           /\ Checker(r, n)
           /\ r.ledger = s.ledger
           /\ \A k \in 1 .. n, w \in Values :
                r.carriers[k][w] = IF w = v THEN {} ELSE s.carriers[k][w]
           /\ r.transient = s.transient
           /\ r.moved = s.moved
  <1> DEFINE car == [k \in Levels(s) |-> [s.carriers[k] EXCEPT ![v] = {}]]
             r == ReleasedCarrier(s, v)
  <1>1. /\ s.carriers \in Seq([Values -> SUBSET Paths]) /\ Len(s.carriers) = n
        /\ \A k \in 1 .. n : s.carriers[k] \in [Values -> SUBSET Paths]
        /\ Levels(s) = 1 .. n
    BY CheckerTypes DEF Checker
  <1>2. r = WithCarriers(s, car)
    BY <1>1 DEF ReleasedCarrier, Checker, PALStates, WithCarriers
  <1>3. /\ car \in [1 .. n -> [Values -> SUBSET Paths]]
        /\ \A k \in 1 .. n, w \in Values :
             car[k][w] = IF w = v THEN {} ELSE s.carriers[k][w]
    BY <1>1
  <1> HIDE DEF car
  <1>4. car \in Seq([Values -> SUBSET Paths]) /\ Len(car) = n
    BY <1>3
  <1>5. /\ r \in PALStates /\ r.ledger = s.ledger /\ r.carriers = car
        /\ r.transient = s.transient /\ r.moved = s.moved
    <2>1. s \in PALStates /\ car \in CarrierMaps
      BY <1>4 DEF Checker, CarrierMaps
    <2> HIDE DEF r
    <2> QED BY <1>2, <2>1, WithCarriersIs
  <1> HIDE DEF r
  <1>6. Checker(r, n)
    BY <1>4, <1>5 DEF Checker
  <1> QED BY <1>3, <1>5, <1>6 DEF r

\* One carrier of one level gets other sources.
SetCarrier(s, v, sources, level) == [s EXCEPT !.carriers[level][v] = sources]

\* It changes nothing else.
LEMMA SetCarrierIs ==
    ASSUME NEW n \in Nat \ {0}, NEW s, Checker(s, n), NEW v \in Values,
           NEW sources \in PathSets, NEW level \in 1 .. n
    PROVE  LET r == SetCarrier(s, v, sources, level) IN
           /\ Checker(r, n)
           /\ r.ledger = s.ledger
           /\ \A k \in 1 .. n, w \in Values :
                r.carriers[k][w] = IF w = v /\ k = level THEN sources ELSE s.carriers[k][w]
           /\ r.transient = s.transient
           /\ r.moved = s.moved
  <1> DEFINE top == [s.carriers[level] EXCEPT ![v] = sources]
             car == [s.carriers EXCEPT ![level] = top]
             r == SetCarrier(s, v, sources, level)
  <1>1. /\ s.carriers \in Seq([Values -> SUBSET Paths]) /\ Len(s.carriers) = n
        /\ \A k \in 1 .. n : s.carriers[k] \in [Values -> SUBSET Paths]
    BY CheckerTypes DEF Checker
  <1>2. r = WithCarriers(s, car)
    BY <1>1 DEF SetCarrier, Checker, PALStates, WithCarriers
  <1>3. /\ top \in [Values -> SUBSET Paths]
        /\ \A w \in Values : top[w] = IF w = v THEN sources ELSE s.carriers[level][w]
    BY <1>1 DEF PathSets
  <1> HIDE DEF top
  <1>4. /\ car \in Seq([Values -> SUBSET Paths]) /\ Len(car) = n /\ car[level] = top
        /\ \A k \in 1 .. n : k # level => car[k] = s.carriers[k]
    BY <1>1, <1>3
  <1> HIDE DEF car
  <1>5. /\ r \in PALStates /\ r.ledger = s.ledger /\ r.carriers = car
        /\ r.transient = s.transient /\ r.moved = s.moved
    <2>1. s \in PALStates /\ car \in CarrierMaps
      BY <1>4 DEF Checker, CarrierMaps
    <2> HIDE DEF r
    <2> QED BY <1>2, <2>1, WithCarriersIs
  <1> HIDE DEF r
  <1>6. Checker(r, n)
    BY <1>4, <1>5 DEF Checker
  <1>7. \A k \in 1 .. n, w \in Values :
          r.carriers[k][w] = IF w = v /\ k = level THEN sources ELSE s.carriers[k][w]
    BY <1>3, <1>4, <1>5
  <1> QED BY <1>5, <1>6, <1>7 DEF r

\* replaceCarrierBorrows leaves v exactly the new sources, at its own level.
LEMMA ReplacedCarrierIs ==
    ASSUME NEW n \in Nat \ {0}, NEW s, Checker(s, n), NEW v \in Values,
           NEW sources \in PathSets, NEW level \in 1 .. n
    PROVE  LET r == ReplacedCarrier(s, v, sources, level) IN
           /\ Checker(r, n)
           /\ r.ledger = s.ledger
           /\ \A k \in 1 .. n, w \in Values :
                r.carriers[k][w] = IF w = v THEN (IF k = level THEN sources ELSE {})
                                   ELSE s.carriers[k][w]
           /\ r.transient = s.transient
           /\ r.moved = s.moved
  <1> DEFINE e == ReleasedCarrier(s, v)
             r == ReplacedCarrier(s, v, sources, level)
  <1>1. /\ Checker(e, n) /\ e.ledger = s.ledger
        /\ \A k \in 1 .. n, w \in Values :
             e.carriers[k][w] = IF w = v THEN {} ELSE s.carriers[k][w]
        /\ e.transient = s.transient /\ e.moved = s.moved
    BY ReleasedCarrierIs
  <1>2. r = SetCarrier(e, v, sources, level)
    BY DEF ReplacedCarrier, SetCarrier
  <1> HIDE DEF e
  <1>3. /\ Checker(r, n) /\ r.ledger = e.ledger
        /\ \A k \in 1 .. n, w \in Values :
             r.carriers[k][w] = IF w = v /\ k = level THEN sources ELSE e.carriers[k][w]
        /\ r.transient = e.transient /\ r.moved = e.moved
    <2> HIDE DEF r
    <2> QED BY <1>1, <1>2, SetCarrierIs
  <1> HIDE DEF r
  <1> QED BY <1>1, <1>3 DEF r

\* accumulateCarrierBorrows adds to what v carries, at its own level.
LEMMA AccumulatedCarrierIs ==
    ASSUME NEW n \in Nat \ {0}, NEW s, Checker(s, n), NEW v \in Values,
           NEW sources \in PathSets, NEW level \in 1 .. n,
           \A k \in 1 .. n : s.carriers[k][v] # {} => k = level
    PROVE  LET r == AccumulatedCarrier(s, v, sources, level) IN
           /\ Checker(r, n)
           /\ r.ledger = s.ledger
           /\ sources \subseteq r.carriers[level][v]
           /\ \A k \in 1 .. n, w \in Values :
                /\ s.carriers[k][w] \subseteq r.carriers[k][w]
                /\ k # level \/ w # v => r.carriers[k][w] = s.carriers[k][w]
           /\ r.transient = s.transient
           /\ r.moved = s.moved
  <1> DEFINE has == {k \in Levels(s) : s.carriers[k][v] # {}}
             at == IF has = {} THEN level ELSE CHOOSE k \in has : \A j \in has : k <= j
             new == s.carriers[level][v] \cup sources
             r == AccumulatedCarrier(s, v, sources, level)
  <1>1. /\ \A k \in 1 .. n : s.carriers[k] \in [Values -> SUBSET Paths]
        /\ Levels(s) = 1 .. n
    BY CheckerTypes
  <1>2. at = level
    <2>1. has \subseteq {level}
      BY <1>1
    <2>2. CASE has = {}
      BY <2>2
    <2>3. CASE has # {}
      <3>1. has = {level}
        BY <2>1, <2>3
      <3>2. level <= level
        OBVIOUS
      <3> HIDE DEF has
      <3> QED BY <3>1, <3>2
    <2> QED BY <2>2, <2>3
  <1>3. r = SetCarrier(s, v, new, level)
    BY <1>2 DEF AccumulatedCarrier, SetCarrier
  <1>4. new \in PathSets
    BY <1>1 DEF PathSets
  <1>5. s.carriers[level][v] \subseteq new /\ sources \subseteq new
    OBVIOUS
  <1> HIDE DEF new
  <1>6. /\ Checker(r, n) /\ r.ledger = s.ledger
        /\ \A k \in 1 .. n, w \in Values :
             r.carriers[k][w] = IF w = v /\ k = level THEN new ELSE s.carriers[k][w]
        /\ r.transient = s.transient /\ r.moved = s.moved
    <2> HIDE DEF r
    <2>1. PICK t : t = SetCarrier(s, v, new, level)
      OBVIOUS
    <2>2. /\ Checker(t, n) /\ t.ledger = s.ledger
          /\ \A k \in 1 .. n, w \in Values :
               t.carriers[k][w] = IF w = v /\ k = level THEN new ELSE s.carriers[k][w]
          /\ t.transient = s.transient /\ t.moved = s.moved
      BY <1>4, <2>1, SetCarrierIs, SMTT(20)
    <2> QED BY <1>3, <2>1, <2>2
  <1> HIDE DEF r
  <1> QED BY <1>5, <1>6 DEF r

\* Two paths that can name the same storage are not apart for the checker.
LEMMA AliasesOverlap ==
    ASSUME NEW p \in Paths, NEW q \in Paths, Aliases(p, q)
    PROVE  Overlap(p, q)
  <1>1. Len(p.proj) \in Nat /\ Len(q.proj) \in Nat
    BY PALAssumption
  <1>2. p.root = q.root
    BY DEF Aliases
  <1>3. PICK c \in Places(p), d \in Places(q) :
          \A i \in 1 .. Shorter(p.proj, q.proj) : c[i] = d[i]
    BY DEF Aliases
  <1>4. SUFFICES ASSUME NEW i \in 1 .. Shorter(p.proj, q.proj),
                        p.proj[i] # q.proj[i],
                        p.proj[i].kind = q.proj[i].kind,
                        p.proj[i].kind # "dynamic"
                 PROVE  FALSE
    BY <1>2 DEF Overlap
  <1>5. i \in 1 .. Len(p.proj) /\ i \in 1 .. Len(q.proj)
    BY <1>1 DEF Shorter
  <1>6. c[i] = p.proj[i] /\ d[i] = q.proj[i]
    BY <1>3, <1>4, <1>5 DEF Places
  <1> QED BY <1>3, <1>4, <1>6

\* A path meets the variable it starts from.
LEMMA OverlapWhole ==
    ASSUME NEW p \in Paths, NEW x, p.root = x
    PROVE  Overlap(p, Whole(x))
  <1>1. Len(p.proj) \in Nat
    BY PALAssumption
  <1>2. Whole(x).root = x /\ Whole(x).proj = <<>>
    BY DEF Whole
  <1>3. Shorter(p.proj, <<>>) = 0
    BY <1>1 DEF Shorter
  <1> QED BY <1>2, <1>3 DEF Overlap

\* markMoved, after verifyInvalidation, finds no entry to erase.
LEMMA MarkedMovedIs ==
    ASSUME NEW n \in Nat \ {0}, NEW s, Checker(s, n), NEW x \in Roots,
           VerifyInvalidation(s, Whole(x))
    PROVE  LET r == MarkedMoved(s, x) IN
           /\ Checker(r, n)
           /\ \A k \in 1 .. n, q \in Paths : r.ledger[k][q] = s.ledger[k][q]
           /\ r.carriers = s.carriers
           /\ r.transient = s.transient
           /\ r.moved = s.moved \cup {x}
  <1> DEFINE led == [k \in Levels(s) |->
                      [p \in Paths |-> IF IsPrefixPath(Whole(x), p) THEN "Free"
                                       ELSE s.ledger[k][p]]]
             mv == s.moved \cup {x}
             r == MarkedMoved(s, x)
  <1>1. /\ s.ledger \in Seq([Paths -> PathStates]) /\ Len(s.ledger) = n
        /\ \A k \in 1 .. n : s.ledger[k] \in [Paths -> PathStates]
        /\ s.moved \in SUBSET Roots /\ Levels(s) = 1 .. n
    BY CheckerTypes DEF Checker
  <1>2. r = WithMoved(s, led, mv)
    BY <1>1 DEF MarkedMoved, Checker, PALStates, WithMoved
  <1>3. \A k \in 1 .. n, q \in Paths : IsPrefixPath(Whole(x), q) => s.ledger[k][q] = "Free"
    <2> SUFFICES ASSUME NEW k \in 1 .. n, NEW q \in Paths, IsPrefixPath(Whole(x), q),
                        s.ledger[k][q] # "Free"
                 PROVE  FALSE
      OBVIOUS
    <2>1. q.root = x
      BY DEF IsPrefixPath, Whole
    <2>2. Overlap(q, Whole(x))
      BY <2>1, OverlapWhole
    <2> QED BY <1>1, <2>2 DEF VerifyInvalidation
  <1>4. /\ led \in [1 .. n -> [Paths -> PathStates]]
        /\ \A k \in 1 .. n, q \in Paths : led[k][q] = s.ledger[k][q]
    BY <1>1, <1>3 DEF PathStates
  <1> HIDE DEF led
  <1>5. led \in Seq([Paths -> PathStates]) /\ Len(led) = n
    BY <1>4
  <1>6. /\ r \in PALStates /\ r.ledger = led /\ r.carriers = s.carriers
        /\ r.transient = s.transient /\ r.moved = mv
    <2>1. s \in PALStates /\ mv \in RootSets /\ led \in Ledgers
      BY <1>1, <1>5 DEF Checker, RootSets, Ledgers
    <2> HIDE DEF mv, r
    <2> QED BY <1>2, <2>1, WithMovedIs
  <1> HIDE DEF r
  <1>7. Checker(r, n)
    BY <1>5, <1>6 DEF Checker
  <1> QED BY <1>4, <1>6, <1>7 DEF r

\* pushScope adds an empty level.
LEMMA PushedIs ==
    ASSUME NEW n \in Nat \ {0}, NEW s, Checker(s, n)
    PROVE  LET r == Pushed(s) IN
           /\ Checker(r, n + 1)
           /\ \A k \in 1 .. n : r.ledger[k] = s.ledger[k] /\ r.carriers[k] = s.carriers[k]
           /\ r.ledger[n + 1] = NoLedger /\ r.carriers[n + 1] = NoCarriers
           /\ r.transient = s.transient
           /\ r.moved = s.moved
  <1> DEFINE led == Append(s.ledger, NoLedger)
             car == Append(s.carriers, NoCarriers)
             r == Pushed(s)
  <1>1. /\ s.ledger \in Seq([Paths -> PathStates]) /\ Len(s.ledger) = n
        /\ s.carriers \in Seq([Values -> SUBSET Paths]) /\ Len(s.carriers) = n
    BY CheckerTypes DEF Checker
  <1>2. NoLedger \in [Paths -> PathStates] /\ NoCarriers \in [Values -> SUBSET Paths]
    BY DEF NoLedger, NoCarriers, PathStates
  <1>3. r = WithMaps(s, led, car)
    BY <1>1 DEF Pushed, Checker, PALStates, WithMaps
  <1>4. /\ led \in Seq([Paths -> PathStates]) /\ Len(led) = n + 1
        /\ led[n + 1] = NoLedger /\ \A k \in 1 .. n : led[k] = s.ledger[k]
    BY <1>1, <1>2
  <1>5. /\ car \in Seq([Values -> SUBSET Paths]) /\ Len(car) = n + 1
        /\ car[n + 1] = NoCarriers /\ \A k \in 1 .. n : car[k] = s.carriers[k]
    BY <1>1, <1>2
  <1> HIDE DEF led, car
  <1>6. /\ r \in PALStates /\ r.ledger = led /\ r.carriers = car
        /\ r.transient = s.transient /\ r.moved = s.moved
    <2>1. s \in PALStates /\ led \in Ledgers /\ car \in CarrierMaps
      BY <1>4, <1>5 DEF Checker, CarrierMaps, Ledgers
    <2> HIDE DEF r
    <2> QED BY <1>3, <2>1, WithMapsIs
  <1> HIDE DEF r
  <1>7. Checker(r, n + 1)
    BY <1>4, <1>5, <1>6 DEF Checker
  <1> QED BY <1>4, <1>5, <1>6, <1>7 DEF r

\* popScope takes the last level away.
LEMMA PoppedIs ==
    ASSUME NEW n \in Nat \ {0}, NEW s, Checker(s, n + 1)
    PROVE  LET r == Popped(s) IN
           /\ Checker(r, n)
           /\ \A k \in 1 .. n : r.ledger[k] = s.ledger[k] /\ r.carriers[k] = s.carriers[k]
           /\ r.transient = s.transient
           /\ r.moved = s.moved
  <1> DEFINE led == SubSeq(s.ledger, 1, n)
             car == SubSeq(s.carriers, 1, n)
             r == Popped(s)
  <1>1. /\ s.ledger \in Seq([Paths -> PathStates]) /\ Len(s.ledger) = n + 1
        /\ s.carriers \in Seq([Values -> SUBSET Paths]) /\ Len(s.carriers) = n + 1
        /\ (n + 1) - 1 = n
    BY CheckerTypes DEF Checker
  <1>2. r = WithMaps(s, led, car)
    BY <1>1 DEF Popped, Checker, PALStates, WithMaps
  <1>3. /\ led \in Seq([Paths -> PathStates]) /\ Len(led) = n
        /\ \A k \in 1 .. n : led[k] = s.ledger[k]
    BY <1>1
  <1>4. /\ car \in Seq([Values -> SUBSET Paths]) /\ Len(car) = n
        /\ \A k \in 1 .. n : car[k] = s.carriers[k]
    BY <1>1
  <1> HIDE DEF led, car
  <1>5. /\ r \in PALStates /\ r.ledger = led /\ r.carriers = car
        /\ r.transient = s.transient /\ r.moved = s.moved
    <2>1. s \in PALStates /\ led \in Ledgers /\ car \in CarrierMaps
      BY <1>3, <1>4 DEF Checker, CarrierMaps, Ledgers
    <2> HIDE DEF r
    <2> QED BY <1>2, <2>1, WithMapsIs
  <1> HIDE DEF r
  <1>6. Checker(r, n)
    BY <1>3, <1>4, <1>5 DEF Checker
  <1> QED BY <1>3, <1>4, <1>5, <1>6 DEF r

\* mergeBranches keeps the entries and the carriers of both arms.
LEMMA MergedIs ==
    ASSUME NEW n \in Nat \ {0}, NEW a, Checker(a, n), NEW b, Checker(b, n)
    PROVE  LET r == Merged(a, b) IN
           /\ Checker(r, n)
           /\ \A k \in 1 .. n, q \in Paths :
                r.ledger[k][q] = Join(a.ledger[k][q], b.ledger[k][q])
           /\ \A k \in 1 .. n, v \in Values :
                r.carriers[k][v] = a.carriers[k][v] \cup b.carriers[k][v]
           /\ r.transient = a.transient \cup b.transient
           /\ r.moved = a.moved \cup b.moved
  <1> DEFINE led == [k \in Levels(a) |-> [p \in Paths |->
                        Join(a.ledger[k][p], b.ledger[k][p])]]
             car == [k \in Levels(a) |-> [v \in Values |->
                        a.carriers[k][v] \cup b.carriers[k][v]]]
             tr == a.transient \cup b.transient
             mv == a.moved \cup b.moved
             r == Merged(a, b)
  <1>1. /\ Levels(a) = 1 .. n
        /\ \A k \in 1 .. n : /\ a.ledger[k] \in [Paths -> PathStates]
                             /\ a.carriers[k] \in [Values -> SUBSET Paths]
        /\ a.transient \in SUBSET Paths /\ a.moved \in SUBSET Roots
    BY CheckerTypes
  <1>2. /\ \A k \in 1 .. n : /\ b.ledger[k] \in [Paths -> PathStates]
                             /\ b.carriers[k] \in [Values -> SUBSET Paths]
        /\ b.transient \in SUBSET Paths /\ b.moved \in SUBSET Roots
    BY CheckerTypes
  <1>3. r = [ledger |-> led, carriers |-> car, transient |-> tr, moved |-> mv]
    BY DEF Merged
  <1>4. /\ led \in [1 .. n -> [Paths -> PathStates]]
        /\ \A k \in 1 .. n, q \in Paths : led[k][q] = Join(a.ledger[k][q], b.ledger[k][q])
    BY <1>1 DEF PathStates, Join
  <1>5. /\ car \in [1 .. n -> [Values -> SUBSET Paths]]
        /\ \A k \in 1 .. n, v \in Values :
             car[k][v] = a.carriers[k][v] \cup b.carriers[k][v]
    BY <1>1, <1>2
  <1>6. tr \in SUBSET Paths /\ mv \in SUBSET Roots
    BY <1>1, <1>2
  <1> HIDE DEF led, car
  <1>7. /\ led \in Seq([Paths -> PathStates]) /\ Len(led) = n
        /\ car \in Seq([Values -> SUBSET Paths]) /\ Len(car) = n
    <2>1. led \in Seq([Paths -> PathStates]) /\ Len(led) = n
      BY <1>4
    <2>2. car \in Seq([Values -> SUBSET Paths]) /\ Len(car) = n
      BY <1>5
    <2> QED BY <2>1, <2>2
  <1> HIDE DEF tr, mv
  <1>8. /\ r \in PALStates /\ r.ledger = led /\ r.carriers = car
        /\ r.transient = tr /\ r.moved = mv
    BY <1>3, <1>6, <1>7 DEF PALStates
  <1> HIDE DEF r
  <1>9. Checker(r, n)
    BY <1>7, <1>8 DEF Checker
  <1> QED BY <1>4, <1>5, <1>8, <1>9 DEF r, tr, mv

-----------------------------------------------------------------------------
(* Scopes, frames and what the invariant says of them.                     *)

\* The sizes and types that every step needs.
LEMMA Sizes ==
    ASSUME PALInv
    PROVE  /\ Depth \in Nat \ {0} /\ Len(flow) \in Nat /\ Len(flow) = Depth - 1
           /\ Checker(pal, Depth) /\ Levels(pal) = 1 .. Depth
           /\ \A j \in 1 .. Len(flow) :
                /\ flow[j] \in Frames
                /\ Checker(flow[j].base, j) /\ Checker(flow[j].first, j)
  <1>1. /\ scopes \in Seq(Seq(Roots \cup Holders)) /\ Depth >= 1
        /\ flow \in Seq(Frames) /\ Len(flow) = Depth - 1
    BY DEF PALInv, Shape
  <1>2. Depth \in Nat \ {0} /\ Len(flow) \in Nat
    BY <1>1 DEF Depth
  <1>3. Checker(pal, Depth)
    BY DEF PALInv, Snapshot
  <1>4. Levels(pal) = 1 .. Depth
    BY <1>2, <1>3, CheckerTypes
  <1>5. \A j \in 1 .. Len(flow) : flow[j] \in Frames
    BY <1>1
  <1>6. \A j \in 1 .. Len(flow) : Checker(flow[j].base, j) /\ Checker(flow[j].first, j)
    BY DEF PALInv, FrameInv, Snapshot
  <1> QED BY <1>1, <1>2, <1>3, <1>4, <1>5, <1>6

\* The level of a name is the one scope that declares it.
LEMMA LevelOfIs ==
    ASSUME OneScope, NEW m \in 1 .. Depth, NEW x, x \in Declared(m)
    PROVE  LevelOf(x) = m
  <1>1. \A k \in 1 .. Depth : x \in Declared(k) => k = m
    BY DEF OneScope
  <1> QED BY <1>1 DEF LevelOf

\* A visible name is declared at its level.
LEMMA VisibleLevel ==
    ASSUME NEW x, x \in Visible
    PROVE  LevelOf(x) \in 1 .. Depth /\ x \in Declared(LevelOf(x))
  <1>1. PICK k \in 1 .. Depth : x \in Declared(k)
    BY DEF Visible
  <1> QED BY <1>1 DEF LevelOf

\* The statement leaves the scopes as they are, or declares a new name in the
\* innermost one.
Declares == \/ scopes' = scopes
            \/ \E x \in Roots \cup Holders : x \notin Visible /\ scopes' = WithDeclared(x)

\* What that does to the declared names.
LEMMA DeclaresIs ==
    ASSUME PALInv, Declares
    PROVE  /\ scopes' \in Seq(Seq(Roots \cup Holders)) /\ Depth' = Depth
           /\ \A k \in 1 .. Depth : Declared(k) \subseteq Declared(k)'
           /\ \A k \in 1 .. Depth - 1 : Declared(k)' = Declared(k)
           /\ OneScope'
  <1>1. scopes \in Seq(Seq(Roots \cup Holders)) /\ Depth \in Nat \ {0} /\ Depth = Len(scopes)
    BY Sizes DEF PALInv, Shape, Depth
  <1>2. CASE scopes' = scopes
    <2>1. Depth' = Depth /\ \A k : Declared(k)' = Declared(k)
      BY <1>2 DEF Depth, Declared
    <2>2. OneScope'
      BY <2>1 DEF PALInv, OneScope
    <2> QED BY <1>1, <1>2, <2>1, <2>2
  <1>3. ASSUME NEW x \in Roots \cup Holders, x \notin Visible, scopes' = WithDeclared(x)
        PROVE  /\ scopes' \in Seq(Seq(Roots \cup Holders)) /\ Depth' = Depth
               /\ \A k \in 1 .. Depth : Declared(k) \subseteq Declared(k)'
               /\ \A k \in 1 .. Depth - 1 : Declared(k)' = Declared(k)
               /\ OneScope'
    <2> DEFINE top == Append(scopes[Depth], x)
    <2>1. scopes[Depth] \in Seq(Roots \cup Holders)
      BY <1>1
    <2>2. scopes' = [scopes EXCEPT ![Depth] = top]
      BY <1>3 DEF WithDeclared
    <2>3. /\ top \in Seq(Roots \cup Holders) /\ Len(top) = Len(scopes[Depth]) + 1
          /\ top[Len(scopes[Depth]) + 1] = x
          /\ \A i \in 1 .. Len(scopes[Depth]) : top[i] = scopes[Depth][i]
      BY <1>3, <2>1
    <2> HIDE DEF top
    <2>4. /\ scopes' \in Seq(Seq(Roots \cup Holders)) /\ Len(scopes') = Len(scopes)
          /\ scopes'[Depth] = top
          /\ \A k \in 1 .. Depth : k # Depth => scopes'[k] = scopes[k]
      BY <1>1, <2>2, <2>3
    <2>5. Depth' = Depth
      BY <2>4 DEF Depth
    <2>6. \A k \in 1 .. Depth : k # Depth => Declared(k)' = Declared(k)
      BY <2>4 DEF Declared
    <2>7. Declared(Depth) = {scopes[Depth][i] : i \in 1 .. Len(scopes[Depth])}
      BY DEF Declared
    <2>8. \A k : k = Depth => Declared(k)' = {top[i] : i \in 1 .. Len(top)}
      BY <2>4 DEF Declared
    <2>9. {top[i] : i \in 1 .. Len(top)} = Declared(Depth) \cup {x}
      <3>1. Len(scopes[Depth]) \in Nat
        BY <2>1
      <3> QED BY <2>3, <2>7, <3>1
    <2>10. \A k \in 1 .. Depth : x \notin Declared(k)
      BY <1>3 DEF Visible
    <2>11. \A k \in 1 .. Depth : k = Depth => Declared(k)' = Declared(k) \cup {x}
      BY <2>8, <2>9
    <2>12. \A k \in 1 .. Depth : Declared(k) \subseteq Declared(k)'
      BY <2>6, <2>11
    <2>13. \A k \in 1 .. Depth - 1 : Declared(k)' = Declared(k)
      BY <1>1, <2>6
    <2>14. OneScope'
      <3>1. SUFFICES ASSUME NEW j \in 1 .. Depth, NEW k \in 1 .. Depth, j # k
                     PROVE  Declared(j)' \cap Declared(k)' = {}
        BY <2>5 DEF OneScope
      <3>2. Declared(j) \cap Declared(k) = {}
        BY <3>1 DEF PALInv, OneScope
      <3>3. CASE j # Depth /\ k # Depth
        BY <2>6, <3>2, <3>3
      <3>4. CASE j = Depth
        BY <2>6, <2>10, <2>11, <3>1, <3>2, <3>4
      <3>5. CASE k = Depth
        BY <2>6, <2>10, <2>11, <3>1, <3>2, <3>5
      <3> QED BY <3>3, <3>4, <3>5
    <2> QED BY <2>4, <2>5, <2>12, <2>13, <2>14
  <1> QED BY <1>2, <1>3 DEF Declares

-----------------------------------------------------------------------------
(* Steps of a statement: the open frames stay.                             *)

\* The analysis is at a point of the execution when it is at the last level.
LEMMA LiveAt ==
    ASSUME PALInv, exec = "on"
    PROVE  Live <=> At(Depth)
  <1>1. Depth \in Nat \ {0} /\ Len(flow) = Depth - 1
    BY Sizes
  <1> QED BY <1>1 DEF Live, At, RunsIn

\* Where the execution passes, every loan is in the checker's maps.
LEMMA LiveRecord ==
    ASSUME PALInv, Live
    PROVE  \A l \in loans : OnRecord(pal, Depth, l)
  <1>1. Depth \in Nat \ {0} /\ exec = "on"
    BY Sizes DEF Live
  <1>2. At(Depth) /\ Depth \in 1 .. Depth
    BY <1>1, LiveAt
  <1>3. Point(Depth) = pal
    BY DEF Point
  <1> QED BY <1>1, <1>2, <1>3 DEF PALInv, LoanInv

\* A checker state stays in order while its frames and scopes do.
LEMMA SnapshotStays ==
    ASSUME NEW j \in Nat, NEW s, Snapshot(s, j),
           \A i \in 1 .. j - 1 : \A k \in 1 .. i, p \in Paths :
              Lent(i, k, p)' => Lent(i, k, p),
           \A i \in 1 .. j - 1, p \in Paths : Exclusive(i, p)' => Exclusive(i, p),
           \A k \in 1 .. j : Declared(k)' = Declared(k)
    PROVE  Snapshot(s, j)'
  BY DEF Snapshot, Checker

\* A loan stays on record while its scopes stay and its entry stays firm.
LEMMA RecordStays ==
    ASSUME NEW n \in Nat, NEW s, NEW l, OnRecord(s, n, l), n # Depth,
           \A k \in 1 .. n : Declared(k)' = Declared(k),
           \A k \in 1 .. n : Firm(n, k, l.path) => Firm(n, k, l.path)'
    PROVE  OnRecord(s, n, l)'
  <1>1. CASE /\ l.holder \in Refs
             /\ \E m \in 1 .. n :
                  /\ l.holder \in Declared(m)
                  /\ \E k \in 1 .. m : l.path.root \in Declared(k)
                  /\ \E k \in 1 .. m :
                       Strong(s.ledger[k][l.path], l.mode) /\ Firm(n, k, l.path)
    <2>1. PICK m \in 1 .. n :
            /\ l.holder \in Declared(m)
            /\ \E k \in 1 .. m : l.path.root \in Declared(k)
            /\ \E k \in 1 .. m :
                 Strong(s.ledger[k][l.path], l.mode) /\ Firm(n, k, l.path)
      BY <1>1
    <2>2. \A k \in 1 .. m : k \in 1 .. n
      BY <2>1
    <2>3. \E k \in 1 .. m : l.path.root \in Declared(k)'
      BY <2>1, <2>2
    <2>4. \E k \in 1 .. m : Strong(s.ledger[k][l.path], l.mode) /\ Firm(n, k, l.path)'
      BY <2>1, <2>2
    <2> QED BY <1>1, <2>1, <2>3, <2>4 DEF OnRecord, Strong
  <1>2. CASE /\ l.holder \in Values /\ l.mode = "Shared"
             /\ \E m \in 1 .. n :
                  l.holder \in Declared(m) /\ l.path \in s.carriers[m][l.holder]
    BY <1>2 DEF OnRecord
  <1> QED BY <1>1, <1>2 DEF OnRecord

\* A statement keeps the invariant when it keeps the entries of outer scopes,
\* carriers and markers are in order after it, and what the execution holds then
\* is on record.
LEMMA StatementStep ==
    ASSUME PALInv, exec = "on", exec' = exec, flow' = flow, dead' = dead, Declares,
           stmt' \in {"none", "open"}, ops' \in 0 .. MaxOps,
           Checker(pal', Depth),
           \A k \in 1 .. Depth - 1, p \in Paths :
              /\ pal.ledger[k][p] # "Free" => pal'.ledger[k][p] # "Free"
              /\ pal.ledger[k][p] = "Mut" => pal'.ledger[k][p] = "Mut",
           \A k \in 1 .. Depth, v \in Values :
              pal'.carriers[k][v] # {} => v \in Declared(k)',
           Markers',
           loans' \subseteq [holder : Holders \cup {Temp}, path : Paths, mode : Modes],
           Live => \A l \in loans' : OnRecord(pal, Depth, l)',
           ~Live => loans' = loans,
           Sound'
    PROVE  PALInv'
  <1>1. /\ Depth \in Nat \ {0} /\ Len(flow) \in Nat /\ Len(flow) = Depth - 1
        /\ \A j \in 1 .. Len(flow) : Checker(flow[j].base, j) /\ Checker(flow[j].first, j)
    BY Sizes
  <1>2. /\ scopes' \in Seq(Seq(Roots \cup Holders)) /\ Depth' = Depth
        /\ \A k \in 1 .. Depth - 1 : Declared(k)' = Declared(k)
        /\ OneScope'
    BY DeclaresIs
  <1>3. Shape'
    BY <1>1, <1>2 DEF PALInv, Shape
  <1>4. \A j, k, p : /\ Lent(j, k, p)' = Lent(j, k, p) /\ Loops(j, p)' = Loops(j, p)
                     /\ Exclusive(j, p)' = Exclusive(j, p)
    BY DEF Lent, Loops, Exclusive
  <1>5. Snapshot(pal, Depth)'
    <2>1. \A j \in 1 .. Depth - 1 : \A k \in 1 .. j, p \in Paths :
            Lent(j, k, p)' => pal'.ledger[k][p] # "Free"
      <3> SUFFICES ASSUME NEW j \in 1 .. Depth - 1, NEW k \in 1 .. j, NEW p \in Paths,
                          Lent(j, k, p)
                   PROVE  pal'.ledger[k][p] # "Free"
        BY <1>4
      <3>1. pal.ledger[k][p] # "Free"
        BY DEF PALInv, Snapshot
      <3>2. k \in 1 .. Depth - 1
        BY <1>1
      <3> QED BY <3>1, <3>2
    <2>2. \A j \in 1 .. Depth - 1, p \in Paths : Exclusive(j, p)' => pal'.ledger[j][p] = "Mut"
      BY <1>4 DEF PALInv, Snapshot
    <2> QED BY <1>2, <2>1, <2>2 DEF Snapshot, Checker
  <1>6. ASSUME NEW j \in 1 .. Len(flow) PROVE FrameInv(j)'
    <2>1. FrameInv(j) /\ j \in 1 .. Depth - 1
      BY <1>1 DEF PALInv
    <2>3. Snapshot(flow[j].base, j)' /\ Snapshot(flow[j].first, j)'
      <3>1. Snapshot(flow[j].base, j) /\ Snapshot(flow[j].first, j)
        BY <2>1 DEF FrameInv
      <3>2. \A k \in 1 .. j : Declared(k)' = Declared(k)
        BY <1>1, <1>2
      <3> QED BY <1>4, <3>1, <3>2, SnapshotStays
    <2>4. Marked(flow[j].base, j)'
      BY <1>2, <2>1 DEF FrameInv, Marked
    <2> QED BY <1>4, <2>1, <2>3, <2>4 DEF FrameInv
  <1>7. LoanInv'
    <2> SUFFICES ASSUME NEW n \in 1 .. Depth, At(n)'
                 PROVE  /\ \A l \in loans' : OnRecord(Point(n), n, l)'
                        /\ n <= Len(flow) /\ flow[n].arm = 2 => flow[n].jumped = 0
      BY <1>2 DEF LoanInv
    <2>1. At(n)
      BY DEF At, RunsIn
    <2>2. CASE n = Depth
      <3>1. Live
        BY <2>1, <2>2, LiveAt
      <3>2. Point(n)' = pal' /\ ~(n <= Len(flow))
        BY <1>1, <1>2, <2>2 DEF Point
      <3>3. ASSUME NEW l \in loans' PROVE OnRecord(Point(n), n, l)'
        <4>1. OnRecord(pal, Depth, l)'
          BY <3>1, <3>3
        <4> QED BY <1>2, <2>2, <3>2, <4>1
      <3> QED BY <3>2, <3>3
    <2>3. CASE n # Depth
      <3>1. n \in 1 .. Depth - 1 /\ n \in 1 .. Len(flow)
        BY <1>1, <2>3
      <3>2. ~Live
        BY <2>1, <3>1 DEF Live, At, RunsIn
      <3>3. Point(n)' = Point(n)
        BY <1>2, <2>3 DEF Point
      <3>4. /\ \A l \in loans : OnRecord(Point(n), n, l)
            /\ n <= Len(flow) /\ flow[n].arm = 2 => flow[n].jumped = 0
        BY <2>1 DEF PALInv, LoanInv
      <3>5. ASSUME NEW l \in loans PROVE OnRecord(Point(n), n, l)'
        <4>1. OnRecord(Point(n), n, l)
          BY <3>4
        <4>2. \A k \in 1 .. n : Declared(k)' = Declared(k)
          BY <1>1, <1>2, <3>1
        <4>3. \A k \in 1 .. n : Firm(n, k, l.path) => Firm(n, k, l.path)'
          BY <1>1, <1>2, <1>4, <3>1 DEF Firm
        <4> QED BY <2>3, <3>1, <3>3, <4>1, <4>2, <4>3, RecordStays
      <3> QED BY <3>2, <3>4, <3>5
    <2> QED BY <2>2, <2>3
  <1> QED BY <1>2, <1>3, <1>5, <1>6, <1>7 DEF PALInv

-----------------------------------------------------------------------------
(* What an accepted operation cannot meet.                                 *)

\* A reference really held has its entry, or is among the carried ones.
LEMMA HeldEntry ==
    ASSUME PALInv, Live, NEW l \in Held
    PROVE  /\ l.path \in Paths /\ l.mode \in Modes
           /\ \/ l.holder \in Values /\ l.mode = "Shared" /\ l.path \in Carried(pal)
              \/ /\ l.holder \notin Values
                 /\ \E k \in Levels(pal) : Strong(pal.ledger[k][l.path], l.mode)
  <1>1. /\ Depth \in Nat \ {0} /\ Len(flow) \in Nat /\ Len(flow) = Depth - 1
        /\ Levels(pal) = 1 .. Depth
    BY Sizes
  <1>2. CASE l \in loans
    <2>1. l.path \in Paths /\ l.mode \in Modes
      BY <1>2 DEF PALInv, Shape
    <2>2. OnRecord(pal, Depth, l)
      BY <1>2, LiveRecord
    <2>3. CASE l.holder = Temp /\ Strong(pal.ledger[Depth][l.path], l.mode)
      BY <1>1, <2>1, <2>3, PALAssumption
    <2>4. CASE /\ l.holder \in Refs
               /\ \E m \in 1 .. Depth : \E k \in 1 .. m :
                    Strong(pal.ledger[k][l.path], l.mode)
      <3>1. PICK m \in 1 .. Depth : \E k \in 1 .. m : Strong(pal.ledger[k][l.path], l.mode)
        BY <2>4
      <3>2. \A k \in 1 .. m : k \in 1 .. Depth
        BY <1>1
      <3> QED BY <1>1, <2>1, <2>4, <3>1, <3>2, PALAssumption
    <2>5. CASE /\ l.holder \in Values /\ l.mode = "Shared"
               /\ \E m \in 1 .. Depth : l.path \in pal.carriers[m][l.holder]
      <3>1. l.path \in Carried(pal)
        BY <1>1, <2>5 DEF Carried
      <3> QED BY <2>1, <2>5, <3>1
    <2> QED BY <2>2, <2>3, <2>4, <2>5 DEF OnRecord
  <1>3. CASE l \notin loans
    <2>1. PICK j \in 1 .. Len(flow) :
            /\ flow[j].kind = "for"
            /\ l = [holder |-> Temp, path |-> flow[j].source, mode |-> flow[j].mode]
      BY <1>3 DEF Held
    <2>2. flow[j] \in Frames /\ FrameInv(j)
      BY Sizes DEF PALInv
    <2>3. flow[j].source \in Paths /\ flow[j].mode \in Modes /\ j \in 1 .. Depth - 1
      BY <1>1, <2>2 DEF Frames
    <2>4. /\ l.holder = Temp /\ l.path = flow[j].source /\ l.mode = flow[j].mode
          /\ l.holder \notin Values
      BY <2>1, PALAssumption
    <2>5. CASE flow[j].mode = "Mut"
      <3>1. Exclusive(j, flow[j].source) /\ j \in 1 .. Depth
        BY <1>1, <2>1, <2>2, <2>3, <2>5 DEF FrameInv, Exclusive, Loops
      <3>2. pal.ledger[j][l.path] = "Mut"
        BY <2>3, <2>4, <3>1 DEF PALInv, Snapshot
      <3> QED BY <1>1, <2>3, <2>4, <3>1, <3>2 DEF Strong
    <2>6. CASE flow[j].mode = "Shared"
      <3>1. PICK k \in 1 .. j : Lent(j, k, flow[j].source)
        BY <2>1, <2>2 DEF FrameInv
      <3>2. k \in 1 .. Depth
        BY <1>1
      <3>3. pal.ledger[k][flow[j].source] # "Free"
        BY <2>3, <3>1 DEF PALInv, Snapshot
      <3>4. pal.ledger[k] \in [Paths -> PathStates]
        BY <1>1, <3>2, Sizes, CheckerTypes
      <3>5. Strong(pal.ledger[k][l.path], l.mode)
        BY <2>3, <2>4, <2>6, <3>3, <3>4 DEF Strong, PathStates
      <3> QED BY <1>1, <2>3, <2>4, <3>2, <3>5
    <2> QED BY <2>3, <2>5, <2>6 DEF Modes
  <1> QED BY <1>2, <1>3

\* verifyAccess keeps clear of what is lent exclusively.
LEMMA AccessMisses ==
    ASSUME PALInv, Live, NEW p \in Paths, VerifyAccess(pal, p)
    PROVE  HitsOf(p, "Shared") = {}
  <1> SUFFICES ASSUME NEW l \in Held, Aliases(l.path, p), l.mode = "Mut" PROVE FALSE
    BY DEF HitsOf, Hits
  <1>1. l.path \in Paths /\ \E k \in Levels(pal) : Strong(pal.ledger[k][l.path], l.mode)
    BY HeldEntry
  <1>2. \E k \in Levels(pal) : pal.ledger[k][l.path] = "Mut"
    BY <1>1 DEF Strong
  <1>3. Overlap(l.path, p)
    BY <1>1, AliasesOverlap
  <1> QED BY <1>1, <1>2, <1>3 DEF VerifyAccess

\* verifyInvalidation keeps clear of everything lent.
LEMMA InvalidationMisses ==
    ASSUME PALInv, Live, NEW p \in Paths, VerifyInvalidation(pal, p)
    PROVE  Hits(p) = {}
  <1> SUFFICES ASSUME NEW l \in Held, Aliases(l.path, p) PROVE FALSE
    BY DEF Hits
  <1>1. l.path \in Paths
    BY HeldEntry
  <1>2. Overlap(l.path, p)
    BY <1>1, AliasesOverlap
  <1>3. CASE l.path \in Carried(pal)
    BY <1>2, <1>3 DEF VerifyInvalidation
  <1>4. CASE \E k \in Levels(pal) : Strong(pal.ledger[k][l.path], l.mode)
    BY <1>1, <1>2, <1>4 DEF VerifyInvalidation, Strong
  <1> QED BY <1>3, <1>4, HeldEntry

\* A borrow that is recorded excludes no reference really held.
LEMMA BorrowMisses ==
    ASSUME PALInv, Live, NEW p \in Paths, NEW mode \in Modes, CanRecord(pal, p, mode)
    PROVE  HitsOf(p, mode) = {}
  <1>1. CASE mode = "Mut"
    <2>1. Hits(p) = {}
      BY <1>1, InvalidationMisses DEF CanRecord
    <2> QED BY <2>1 DEF HitsOf
  <1>2. CASE mode = "Shared"
    BY <1>2, AccessMisses DEF CanRecord
  <1> QED BY <1>1, <1>2 DEF Modes

\* verifyPayloadWrite keeps clear of exclusive loans, of what values carry and of
\* shared loans of parts of the path.
LEMMA WriteMisses ==
    ASSUME PALInv, Live, NEW p \in Paths, VerifyPayloadWrite(pal, p)
    PROVE  {l \in Hits(p) : \/ l.mode = "Mut"
                            \/ l.holder \in Values
                            \/ l.path # p /\ IsPrefixPath(p, l.path)} = {}
  <1> SUFFICES ASSUME NEW l \in Held, Aliases(l.path, p),
                      \/ l.mode = "Mut"
                      \/ l.holder \in Values
                      \/ l.path # p /\ IsPrefixPath(p, l.path)
               PROVE FALSE
    BY DEF Hits
  <1>1. l.path \in Paths
    BY HeldEntry
  <1>2. Overlap(l.path, p)
    BY <1>1, AliasesOverlap
  <1>3. CASE l.path \in Carried(pal)
    BY <1>2, <1>3 DEF VerifyPayloadWrite
  <1>4. CASE /\ l.holder \notin Values
             /\ \E k \in Levels(pal) : Strong(pal.ledger[k][l.path], l.mode)
    <2>1. PICK k \in Levels(pal) : Strong(pal.ledger[k][l.path], l.mode)
      BY <1>4
    <2>2. pal.ledger[k][l.path] # "Mut"
      BY <1>1, <1>2 DEF VerifyPayloadWrite, VerifyAccess
    <2>3. pal.ledger[k][l.path] = "Shared" /\ l.mode = "Shared"
      BY <2>1, <2>2 DEF Strong
    <2>4. l.path # p /\ IsPrefixPath(p, l.path)
      BY <1>4, <2>3
    <2> QED BY <1>1, <2>3, <2>4 DEF VerifyPayloadWrite
  <1> QED BY <1>3, <1>4, HeldEntry

\* A report of nothing leaves the clashes as they are.
LEMMA NothingToReport ==
    ASSUME Sound, NEW kind, NEW hits, Report(kind, hits), Live => hits = {}
    PROVE  Sound'
  BY DEF Report, Sound
-----------------------------------------------------------------------------
(* The statements.                                                         *)

\* A loan stays on record over a statement that keeps its entry.
LEMMA RecordKept ==
    ASSUME PALInv, Declares, flow' = flow, NEW l, OnRecord(pal, Depth, l),
           l.holder = Temp =>
              /\ stmt' = "open"
              /\ Strong(pal.ledger[Depth][l.path], l.mode)
                   => Strong(pal'.ledger[Depth][l.path], l.mode),
           l.holder \in Refs => \A k \in 1 .. Depth :
              /\ Strong(pal.ledger[k][l.path], l.mode)
              /\ k = Depth => l.path \notin pal.transient
              => /\ Strong(pal'.ledger[k][l.path], l.mode)
                 /\ k = Depth => l.path \notin pal'.transient,
           l.holder \in Values => \A k \in 1 .. Depth :
              l.path \in pal.carriers[k][l.holder]
                => l.path \in pal'.carriers[k][l.holder]
    PROVE  OnRecord(pal, Depth, l)'
  <1>1. /\ Depth \in Nat \ {0} /\ Len(flow) \in Nat /\ Len(flow) = Depth - 1
        /\ Depth' = Depth
        /\ \A k \in 1 .. Depth : Declared(k) \subseteq Declared(k)'
    BY Sizes, DeclaresIs
  <1>2. CASE l.holder = Temp /\ Strong(pal.ledger[Depth][l.path], l.mode)
    BY <1>1, <1>2 DEF OnRecord, Strong
  <1>3. CASE /\ l.holder \in Refs
             /\ \E m \in 1 .. Depth :
                  /\ l.holder \in Declared(m)
                  /\ \E k \in 1 .. m : l.path.root \in Declared(k)
                  /\ \E k \in 1 .. m :
                       Strong(pal.ledger[k][l.path], l.mode) /\ Firm(Depth, k, l.path)
    <2>1. PICK m \in 1 .. Depth :
            /\ l.holder \in Declared(m)
            /\ \E k \in 1 .. m : l.path.root \in Declared(k)
            /\ \E k \in 1 .. m :
                 Strong(pal.ledger[k][l.path], l.mode) /\ Firm(Depth, k, l.path)
      BY <1>3
    <2>2. \A k \in 1 .. m : k \in 1 .. Depth
      BY <1>1, <2>1
    <2>3. l.holder \in Declared(m)' /\ \E k \in 1 .. m : l.path.root \in Declared(k)'
      BY <1>1, <2>1, <2>2
    <2>4. PICK k \in 1 .. m : Strong(pal.ledger[k][l.path], l.mode) /\ Firm(Depth, k, l.path)
      BY <2>1
    <2>5. /\ Strong(pal'.ledger[k][l.path], l.mode)
          /\ k = Depth => l.path \notin pal'.transient
      BY <1>3, <2>2, <2>4 DEF Firm
    <2>6. Firm(Depth, k, l.path)'
      BY <1>1, <2>4, <2>5 DEF Firm, Loops
    <2> QED BY <1>1, <1>3, <2>1, <2>3, <2>5, <2>6 DEF OnRecord, Strong
  <1>4. CASE /\ l.holder \in Values /\ l.mode = "Shared"
             /\ \E m \in 1 .. Depth :
                  l.holder \in Declared(m) /\ l.path \in pal.carriers[m][l.holder]
    BY <1>1, <1>4 DEF OnRecord
  <1> QED BY <1>2, <1>3, <1>4 DEF OnRecord

\* The carried sources stay with their holders when the carriers do not change.
LEMMA CarriersStay ==
    ASSUME PALInv, Declares, pal'.carriers = pal.carriers
    PROVE  \A k \in 1 .. Depth, v \in Values :
              pal'.carriers[k][v] # {} => v \in Declared(k)'
  <1>1. \A k \in 1 .. Depth, v \in Values : pal.carriers[k][v] # {} => v \in Declared(k)
    BY DEF PALInv, Snapshot
  <1> QED BY <1>1, DeclaresIs

\* A variable is declared.
LEMMA DeclareRootStep ==
    ASSUME PALInv, NEW x \in Roots, DeclareRoot(x) PROVE PALInv'
  <1>1. /\ exec = "on" /\ stmt = "none" /\ Declares /\ pal' = pal /\ stmt' = stmt
        /\ loans' = loans /\ clash' = clash /\ flow' = flow /\ dead' = dead /\ exec' = exec
        /\ scopes' = WithDeclared(x)
    BY DEF DeclareRoot, Stay, Declares
  <1>2. /\ Depth \in Nat \ {0} /\ Len(flow) = Depth - 1 /\ Depth' = Depth
        /\ Checker(pal', Depth)
    BY <1>1, Sizes, DeclaresIs
  <1>3. ops' \in 0 .. MaxOps /\ stmt' \in {"none", "open"}
        /\ loans' \subseteq [holder : Holders \cup {Temp}, path : Paths, mode : Modes]
    BY <1>1 DEF DeclareRoot, Stay, PALInv, Shape
  <1>4. Declared(Depth)' \subseteq Declared(Depth) \cup {x}
    <2>1. scopes \in Seq(Seq(Roots \cup Holders)) /\ Depth = Len(scopes)
      BY DEF PALInv, Shape, Depth
    <2>2. scopes[Depth] \in Seq(Roots \cup Holders)
      BY <1>2, <2>1
    <2>3. scopes'[Depth] = Append(scopes[Depth], x)
      BY <1>1, <1>2, <2>1 DEF WithDeclared
    <2>4. \A i \in 1 .. Len(scopes'[Depth]) :
            scopes'[Depth][i] = x \/ \E j \in 1 .. Len(scopes[Depth]) :
                                        scopes'[Depth][i] = scopes[Depth][j]
      BY <2>2, <2>3
    <2> QED BY <1>2, <2>4 DEF Declared
  <1>5. Markers'
    <2>1. x \notin Refs
      BY PALAssumption
    <2>2. Marked(pal, Depth)'
      BY <1>1, <1>2, <1>4, <2>1 DEF Marked, PALInv, Markers
    <2> QED BY <1>1, <2>2 DEF PALInv, Markers
  <1>6. ASSUME Live, NEW l \in loans' PROVE OnRecord(pal, Depth, l)'
    <2>1. OnRecord(pal, Depth, l)
      BY <1>1, <1>6, LiveRecord
    <2>2. l.holder # Temp
      BY <1>1, <2>1, PALAssumption DEF OnRecord
    <2> QED BY <1>1, <2>1, <2>2, RecordKept
  <1>7. \A k \in 1 .. Depth, v \in Values :
          pal'.carriers[k][v] # {} => v \in Declared(k)'
    BY <1>1, CarriersStay
  <1>8. Sound'
    BY <1>1 DEF PALInv, Sound
  <1> QED BY <1>1, <1>2, <1>3, <1>5, <1>6, <1>7, <1>8, StatementStep

\* A read or a write changes nothing the invariant is about.
LEMMA AccessStep ==
    ASSUME PALInv, NEW p \in Paths, Read(p) \/ Write(p) PROVE PALInv'
  <1>1. /\ exec = "on" /\ scopes' = scopes /\ pal' = pal /\ stmt' = stmt
        /\ loans' = loans /\ flow' = flow /\ dead' = dead /\ exec' = exec /\ ops' = ops
    BY DEF Read, Write, Stay
  <1>2. Sound'
    <2>1. CASE Read(p)
      BY <2>1, AccessMisses, NothingToReport DEF Read, PALInv
    <2>2. CASE Write(p)
      <3> DEFINE hits == {l \in Hits(p) : \/ l.mode = "Mut"
                                          \/ l.holder \in Values
                                          \/ l.path # p /\ IsPrefixPath(p, l.path)}
      <3>1. Report("access", hits) /\ VerifyPayloadWrite(pal, p)
        BY <2>2 DEF Write
      <3>2. Live => hits = {}
        BY <3>1, WriteMisses
      <3> HIDE DEF hits
      <3> QED BY <3>1, <3>2, NothingToReport DEF PALInv
    <2> QED BY <2>1, <2>2
  <1>3. Depth' = Depth /\ \A k : Declared(k)' = Declared(k)
    BY <1>1 DEF Depth, Declared
  <1>4. Markers'
    BY <1>1, <1>3 DEF PALInv, Markers, Marked
  <1>5. Declares
    BY <1>1 DEF Declares
  <1>6. /\ Depth \in Nat \ {0} /\ Checker(pal', Depth)
        /\ loans' \subseteq [holder : Holders \cup {Temp}, path : Paths, mode : Modes]
        /\ ops' \in 0 .. MaxOps /\ stmt' \in {"none", "open"}
    BY <1>1, Sizes DEF PALInv, Shape
  <1>7. ASSUME Live, NEW l \in loans' PROVE OnRecord(pal, Depth, l)'
    <2>1. OnRecord(pal, Depth, l)
      BY <1>1, <1>7, LiveRecord
    <2>2. l.holder = Temp => stmt' = "open"
      BY <1>1, <2>1, PALAssumption DEF OnRecord
    <2> QED BY <1>1, <1>5, <2>1, <2>2, RecordKept
  <1>8. \A k \in 1 .. Depth, v \in Values :
          pal'.carriers[k][v] # {} => v \in Declared(k)'
    BY <1>1, <1>5, CarriersStay
  <1> QED BY <1>1, <1>2, <1>4, <1>5, <1>6, <1>7, <1>8, StatementStep

\* An operation makes the program longer within its bound, or leaves its length.
LEMMA OpsStay ==
    ASSUME PALInv, Grow \/ Stay
    PROVE  exec = "on" /\ ops' \in 0 .. MaxOps
  BY PALAssumption DEF PALInv, Shape, Grow, Stay

\* recordBorrow weakens no entry.
LEMMA RecordedStrong ==
    ASSUME NEW n \in Nat \ {0}, NEW s, Checker(s, n), NEW p \in Paths, NEW mode \in Modes,
           CanRecord(s, p, mode),
           NEW k \in 1 .. n, NEW q \in Paths, NEW m, Strong(s.ledger[k][q], m)
    PROVE  Strong(Recorded(s, p, mode).ledger[k][q], m)
  <1> DEFINE r == Recorded(s, p, mode)
  <1>1. /\ r.ledger[n][p] = mode
        /\ \A i \in 1 .. n, x \in Paths :
             i # n \/ x # p => r.ledger[i][x] = s.ledger[i][x]
    BY RecordedIs
  <1> HIDE DEF r
  <1>2. CASE k # n \/ q # p
    BY <1>1, <1>2 DEF r
  <1>3. CASE k = n /\ q = p /\ mode = "Mut"
    BY <1>1, <1>3 DEF r, Strong
  <1>4. CASE k = n /\ q = p /\ mode = "Shared"
    <2>1. Overlap(p, p) /\ Levels(s) = 1 .. n
      BY CheckerTypes DEF Overlap
    <2>2. s.ledger[k][q] # "Mut"
      BY <1>4, <2>1 DEF CanRecord, VerifyAccess
    <2> QED BY <1>1, <1>4, <2>2 DEF r, Strong
  <1> QED BY <1>2, <1>3, <1>4 DEF Modes

\* The types of the loans after a statement.
LEMMA LoansTyped ==
    ASSUME PALInv, NEW hs, NEW h \in Holders \cup {Temp}, NEW sources \in PathSets,
           NEW mode \in Modes,
           SetLoans(Without(hs) \cup LoansOf(h, sources, mode))
    PROVE  loans' \subseteq [holder : Holders \cup {Temp}, path : Paths, mode : Modes]
  BY DEF PALInv, Shape, SetLoans, Without, LoansOf, PathSets

\* A borrow for the rest of the statement.
LEMMA BorrowStep ==
    ASSUME PALInv, Reborrows = 0, NEW p \in Paths, NEW mode \in Modes, Borrow(p, mode)
    PROVE  PALInv'
  <1>1. /\ scopes' = scopes /\ pal' = Recorded(pal, p, mode) /\ stmt' = "open"
        /\ flow' = flow /\ dead' = dead /\ exec' = exec
        /\ CanRecord(pal, p, mode) /\ Report("borrow", HitsOf(p, mode))
        /\ SetLoans(loans \cup LoansOf(Temp, {p}, mode))
        /\ p \in pal.transient \/ pal.ledger[Depth][p] = "Free"
    BY DEF Borrow
  <1>2. /\ Declares /\ Depth \in Nat \ {0} /\ Depth' = Depth
        /\ \A k : Declared(k)' = Declared(k)
        /\ Checker(pal, Depth) /\ exec = "on" /\ ops' \in 0 .. MaxOps
    BY <1>1, Sizes, OpsStay DEF Declares, Depth, Declared, Borrow
  <1>3. /\ Checker(pal', Depth)
        /\ pal'.ledger[Depth][p] = mode
        /\ \A k \in 1 .. Depth, q \in Paths :
             k # Depth \/ q # p => pal'.ledger[k][q] = pal.ledger[k][q]
        /\ pal'.carriers = pal.carriers
        /\ pal'.transient = pal.transient \cup {p}
    BY <1>1, <1>2, RecordedIs
  <1>4. Sound'
    BY <1>1, BorrowMisses, NothingToReport DEF PALInv
  <1>5. Markers'
    <2>1. Marked(pal, Depth)'
      <3>1. \A q \in pal.transient : pal.ledger[Depth][q] # "Free" \/ Declared(Depth) \cap Refs = {}
        BY DEF PALInv, Markers, Marked
      <3>2. pal.transient \in SUBSET Paths /\ mode # "Free"
        BY <1>2, CheckerTypes DEF Modes
      <3> QED BY <1>2, <1>3, <3>1, <3>2 DEF Marked
    <2> QED BY <1>1, <2>1 DEF Markers
  <1>6. \A k \in 1 .. Depth, v \in Values :
          pal'.carriers[k][v] # {} => v \in Declared(k)'
    BY <1>2, <1>3, CarriersStay
  <1>7. \A k \in 1 .. Depth - 1, q \in Paths :
          /\ pal.ledger[k][q] # "Free" => pal'.ledger[k][q] # "Free"
          /\ pal.ledger[k][q] = "Mut" => pal'.ledger[k][q] = "Mut"
    BY <1>2, <1>3
  <1>8. loans' \subseteq [holder : Holders \cup {Temp}, path : Paths, mode : Modes]
    BY <1>1 DEF PALInv, Shape, SetLoans, LoansOf
  <1>9. ASSUME Live, NEW l \in loans' PROVE OnRecord(pal, Depth, l)'
    <2>1. CASE l \in loans
      <3>1. OnRecord(pal, Depth, l) /\ l.path \in Paths
        BY <1>9, <2>1, LiveRecord DEF PALInv, Shape
      <3>2. \A k \in 1 .. Depth : Strong(pal.ledger[k][l.path], l.mode)
                                    => Strong(pal'.ledger[k][l.path], l.mode)
        BY <1>1, <1>2, <3>1, RecordedStrong
      <3>3. Strong(pal.ledger[Depth][l.path], l.mode) /\ l.path \notin pal.transient
              => l.path \notin pal'.transient
        BY <1>1, <1>3 DEF Strong
      <3> QED BY <1>1, <1>2, <1>3, <3>1, <3>2, <3>3, RecordKept
    <2>2. CASE l \notin loans
      <3>1. l = [holder |-> Temp, path |-> p, mode |-> mode]
        BY <1>1, <1>9, <2>2 DEF SetLoans, LoansOf
      <3> QED BY <1>1, <1>2, <1>3, <3>1 DEF OnRecord, Strong, Modes
    <2> QED BY <2>1, <2>2
  <1>10. ~Live => loans' = loans
    BY <1>1 DEF SetLoans
  <1> QED BY <1>1, <1>2, <1>3, <1>4, <1>5, <1>6, <1>7, <1>8, <1>9, <1>10, StatementStep

\* The end of a statement.
LEMMA EndStmtStep ==
    ASSUME PALInv, EndStmt PROVE PALInv'
  <1>1. /\ scopes' = scopes /\ pal' = Cleared(pal) /\ stmt' = "none"
        /\ flow' = flow /\ dead' = dead /\ exec' = exec /\ clash' = clash
        /\ SetLoans(Without({Temp}))
    BY DEF EndStmt
  <1>2. /\ Declares /\ Depth \in Nat \ {0} /\ Depth' = Depth
        /\ Checker(pal, Depth) /\ exec = "on" /\ ops' \in 0 .. MaxOps
    BY <1>1, Sizes, OpsStay DEF Declares, Depth, EndStmt
  <1>3. /\ Checker(pal', Depth)
        /\ \A k \in 1 .. Depth, q \in Paths :
             pal'.ledger[k][q] = IF k = Depth /\ q \in pal.transient THEN "Free"
                                 ELSE pal.ledger[k][q]
        /\ pal'.carriers = pal.carriers
        /\ pal'.transient = {}
    BY <1>1, <1>2, ClearedIs
  <1>4. Sound' /\ Markers'
    BY <1>1, <1>3 DEF PALInv, Sound, Markers, Marked
  <1>5. \A k \in 1 .. Depth, v \in Values :
          pal'.carriers[k][v] # {} => v \in Declared(k)'
    BY <1>2, <1>3, CarriersStay
  <1>6. \A k \in 1 .. Depth - 1, q \in Paths :
          /\ pal.ledger[k][q] # "Free" => pal'.ledger[k][q] # "Free"
          /\ pal.ledger[k][q] = "Mut" => pal'.ledger[k][q] = "Mut"
    BY <1>2, <1>3
  <1>7. loans' \subseteq [holder : Holders \cup {Temp}, path : Paths, mode : Modes]
    BY <1>1 DEF PALInv, Shape, SetLoans, Without
  <1>8. ASSUME Live, NEW l \in loans' PROVE OnRecord(pal, Depth, l)'
    <2>1. l \in loans /\ l.holder # Temp
      BY <1>1, <1>8 DEF SetLoans, Without
    <2>2. OnRecord(pal, Depth, l) /\ l.path \in Paths
      BY <1>8, <2>1, LiveRecord DEF PALInv, Shape
    <2> QED BY <1>1, <1>2, <1>3, <2>1, <2>2, RecordKept
  <1>9. ~Live => loans' = loans
    BY <1>1 DEF SetLoans
  <1> QED BY <1>1, <1>2, <1>3, <1>4, <1>5, <1>6, <1>7, <1>8, <1>9, StatementStep

\* recordBorrow, commitTransient and clearTransient, as a binding of a reference
\* at the given level does them: one entry there and one in the innermost scope.
LEMMA BoundIs ==
    ASSUME NEW n \in Nat \ {0}, NEW s, Checker(s, n), NEW p \in Paths,
           NEW mode \in Modes, NEW level \in 1 .. n,
           level = n \/ s.ledger[level][p] = "Free"
    PROVE  LET r == Cleared(Committed(Recorded(s, p, mode), p, level)) IN
           /\ Checker(r, n)
           /\ r.ledger[level][p] = mode
           /\ \A k \in 1 .. n, q \in Paths :
                k # level \/ q # p =>
                  r.ledger[k][q] = IF k = n /\ q = p THEN mode
                                   ELSE IF k = n /\ q \in s.transient THEN "Free"
                                   ELSE s.ledger[k][q]
           /\ r.carriers = s.carriers
           /\ r.transient = {}
  <1> DEFINE a == Recorded(s, p, mode)
             b == Committed(a, p, level)
             r == Cleared(b)
  <1>1. /\ Checker(a, n)
        /\ a.ledger[n][p] = mode
        /\ \A k \in 1 .. n, q \in Paths :
             k # n \/ q # p => a.ledger[k][q] = s.ledger[k][q]
        /\ a.carriers = s.carriers
        /\ a.transient = s.transient \cup {p}
    BY RecordedIs
  <1> HIDE DEF a
  <1>2. mode # "Free" /\ n \in 1 .. n
    BY DEF Modes
  <1>3. /\ Checker(b, n)
        /\ b.ledger[level][p] = IF a.ledger[level][p] = "Free" \/ a.ledger[n][p] = "Mut"
                                  THEN a.ledger[n][p] ELSE a.ledger[level][p]
        /\ \A k \in 1 .. n, q \in Paths :
             k # level \/ q # p => b.ledger[k][q] = a.ledger[k][q]
        /\ b.carriers = a.carriers
        /\ b.transient = a.transient \ {p}
    BY <1>1, <1>2, CommittedIs
  <1> HIDE DEF b
  <1>4. b.ledger[level][p] = mode
    BY <1>1, <1>3
  <1>5. /\ Checker(r, n)
        /\ \A k \in 1 .. n, q \in Paths :
             r.ledger[k][q] = IF k = n /\ q \in b.transient THEN "Free" ELSE b.ledger[k][q]
        /\ r.carriers = b.carriers
        /\ r.transient = {}
    BY <1>3, ClearedIs
  <1> HIDE DEF r
  <1>6. b.transient = s.transient \ {p}
    BY <1>1, <1>3
  <1>7. r.ledger[level][p] = mode
    BY <1>4, <1>5, <1>6
  <1>8. ASSUME NEW k \in 1 .. n, NEW q \in Paths, k # level \/ q # p
        PROVE  r.ledger[k][q] = IF k = n /\ q = p THEN mode
                                ELSE IF k = n /\ q \in s.transient THEN "Free"
                                ELSE s.ledger[k][q]
    <2>1. b.ledger[k][q] = a.ledger[k][q]
      BY <1>3, <1>8
    <2>2. a.ledger[k][q] = IF k = n /\ q = p THEN mode ELSE s.ledger[k][q]
      BY <1>1
    <2> QED BY <1>2, <1>5, <1>6, <2>1, <2>2
  <1> QED BY <1>1, <1>3, <1>5, <1>7, <1>8 DEF r, b, a

\* A reference is bound, in the scope that declares it.
LEMMA RefStep ==
    ASSUME PALInv, exec = "on", Declares, ops' \in 0 .. MaxOps,
           NEW r \in Refs, NEW p \in Paths, NEW mode \in Modes, NEW level \in 1 .. Depth,
           r \in Declared(level)', \E k \in 1 .. level : p.root \in Declared(k),
           level = Depth \/ pal.ledger[level][p] = "Free",
           level <= Len(flow) => p \notin flow[level].base.transient,
           \A j \in level .. Depth - 1 : ~Loops(j, p),
           CanRecord(pal, p, mode),
           pal' = Cleared(Committed(Recorded(pal, p, mode), p, level)),
           flow' = flow, stmt' = "none", dead' = dead, exec' = exec,
           Report("borrow", HitsOf(p, mode)),
           NEW gone, Temp \in gone,
           SetLoans(Without(gone) \cup LoansOf(r, {p}, mode))
    PROVE  PALInv'
  <1>1. /\ Depth \in Nat \ {0} /\ Depth' = Depth /\ Checker(pal, Depth)
        /\ Len(flow) = Depth - 1
        /\ \A k \in 1 .. Depth : Declared(k) \subseteq Declared(k)'
    BY Sizes, DeclaresIs
  <1>2. /\ Checker(pal', Depth)
        /\ pal'.ledger[level][p] = mode
        /\ \A k \in 1 .. Depth, q \in Paths :
             k # level \/ q # p =>
               pal'.ledger[k][q] = IF k = Depth /\ q = p THEN mode
                                   ELSE IF k = Depth /\ q \in pal.transient THEN "Free"
                                   ELSE pal.ledger[k][q]
        /\ pal'.carriers = pal.carriers
        /\ pal'.transient = {}
    BY <1>1, BoundIs
  <1>3. /\ Recorded(pal, p, mode).ledger[Depth][p] = mode
        /\ mode # "Free"
    <2>1. Recorded(pal, p, mode).ledger[Depth][p] = mode
      BY <1>1, RecordedIs
    <2> QED BY <2>1 DEF Modes
  <1>4. Sound'
    BY BorrowMisses, NothingToReport DEF PALInv
  <1>5. Markers'
    BY <1>2 DEF Markers, Marked
  <1>6. \A k \in 1 .. Depth, v \in Values :
          pal'.carriers[k][v] # {} => v \in Declared(k)'
    BY <1>2, CarriersStay
  <1>7. \A k \in 1 .. Depth - 1, q \in Paths :
          /\ pal.ledger[k][q] # "Free" => pal'.ledger[k][q] # "Free"
          /\ pal.ledger[k][q] = "Mut" => pal'.ledger[k][q] = "Mut"
    BY <1>1, <1>2, <1>3
  <1>8. loans' \subseteq [holder : Holders \cup {Temp}, path : Paths, mode : Modes]
    <2>1. r \in Holders \cup {Temp} /\ {p} \in PathSets
      BY DEF Holders, PathSets
    <2> QED BY <2>1, LoansTyped
  <1>9. ASSUME Live, NEW l \in loans' PROVE OnRecord(pal, Depth, l)'
    <2>1. CASE l \in loans /\ l.holder # Temp
      <3>1. OnRecord(pal, Depth, l) /\ l.path \in Paths
        BY <1>9, <2>1, LiveRecord DEF PALInv, Shape
      <3>2. ASSUME NEW k \in 1 .. Depth, Strong(pal.ledger[k][l.path], l.mode),
                   k = Depth => l.path \notin pal.transient
            PROVE  Strong(pal'.ledger[k][l.path], l.mode)
        <4>1. Strong(Recorded(pal, p, mode).ledger[k][l.path], l.mode)
          BY <1>1, <3>1, <3>2, RecordedStrong
        <4>2. CASE k = level /\ l.path = p
          <5>1. pal.ledger[k][p] # "Free"
            BY <3>2, <4>2 DEF Strong
          <5>2. k = Depth
            BY <4>2, <5>1
          <5> QED BY <1>2, <1>3, <4>1, <4>2, <5>2
        <4>3. CASE (k # level \/ l.path # p) /\ k = Depth /\ l.path = p
          BY <1>2, <1>3, <3>1, <4>1, <4>3
        <4>4. CASE l.path # p
          BY <1>2, <3>1, <3>2, <4>4
        <4>5. CASE k # level /\ k # Depth
          BY <1>2, <3>1, <3>2, <4>5
        <4> QED BY <4>2, <4>3, <4>4, <4>5
      <3> QED BY <1>2, <2>1, <3>1, <3>2, RecordKept
    <2>2. CASE l = [holder |-> r, path |-> p, mode |-> mode]
      <3>1. /\ l.holder = r /\ l.path = p /\ l.mode = mode
        BY <2>2
      <3>2. Strong(pal'.ledger[level][p], mode)
        BY <1>2 DEF Strong, Modes
      <3>3. Firm(Depth, level, p)'
        BY <1>1, <1>2 DEF Firm, Loops
      <3>4. \E k \in 1 .. level : p.root \in Declared(k)'
        BY <1>1
      <3>5. /\ r \in Declared(level)'
            /\ \E k \in 1 .. level : p.root \in Declared(k)'
            /\ \E k \in 1 .. level :
                 Strong(pal'.ledger[k][p], mode) /\ Firm(Depth, k, p)'
        BY <1>1, <3>2, <3>3, <3>4
      <3> QED BY <1>1, <3>1, <3>5 DEF OnRecord, Strong
    <2> QED BY <1>9, <2>1, <2>2 DEF SetLoans, Without, LoansOf
  <1>10. ~Live => loans' = loans
    BY DEF SetLoans
  <1> QED BY <1>1, <1>2, <1>4, <1>5, <1>6, <1>7, <1>8, <1>9, <1>10, StatementStep

\* A new name is declared in the innermost scope.
LEMMA NewDeclared ==
    ASSUME PALInv, NEW x \in Roots \cup Holders, x \notin Visible, scopes' = WithDeclared(x)
    PROVE  Declares /\ \A k : k = Depth => x \in Declared(k)'
  <1>1. Declares
    BY DEF Declares
  <1>2. /\ scopes \in Seq(Seq(Roots \cup Holders)) /\ Depth = Len(scopes)
        /\ Depth \in Nat \ {0} /\ Depth' = Depth
    BY <1>1, Sizes, DeclaresIs DEF PALInv, Shape, Depth
  <1>3. scopes[Depth] \in Seq(Roots \cup Holders)
    BY <1>2
  <1>4. scopes'[Depth] = Append(scopes[Depth], x)
    BY <1>2 DEF WithDeclared
  <1>5. Len(scopes'[Depth]) \in 1 .. Len(scopes'[Depth])
        /\ scopes'[Depth][Len(scopes'[Depth])] = x
    BY <1>3, <1>4
  <1>6. \A k : k = Depth => x \in Declared(k)'
    BY <1>5 DEF Declared
  <1> QED BY <1>1, <1>2, <1>6

\* A reference is declared and bound.
LEMMA LetRefStep ==
    ASSUME PALInv, NEW r \in Refs, NEW p \in Paths, NEW mode \in Modes, LetRef(r, p, mode)
    PROVE  PALInv'
  <1>1. /\ r \notin Visible /\ p.root \in Visible /\ scopes' = WithDeclared(r)
        /\ CanRecord(pal, p, mode)
        /\ pal' = Cleared(Committed(Recorded(pal, p, mode), p, Depth))
        /\ flow' = flow /\ stmt' = "none" /\ dead' = dead /\ exec' = exec
        /\ Report("borrow", HitsOf(p, mode))
        /\ SetLoans(Without({Temp}) \cup LoansOf(r, {p}, mode))
    BY DEF LetRef, Usable
  <1>2. exec = "on" /\ ops' \in 0 .. MaxOps
    BY OpsStay DEF LetRef
  <1>3. Declares /\ \A k : k = Depth => r \in Declared(k)'
    BY <1>1, NewDeclared DEF Holders
  <1>4. Depth \in Nat \ {0} /\ Len(flow) = Depth - 1
    BY Sizes
  <1>5. \E k \in 1 .. Depth : p.root \in Declared(k)
    BY <1>1, VisibleLevel
  <1> DEFINE gone == {Temp}
  <1>6. Temp \in gone /\ SetLoans(Without(gone) \cup LoansOf(r, {p}, mode))
    BY <1>1
  <1> HIDE DEF gone
  <1>7. PICK level \in 1 .. Depth : level = Depth
    BY <1>4
  <1>8. ~(level <= Len(flow)) /\ \A j \in level .. Depth - 1 : ~Loops(j, p)
    BY <1>4, <1>7
  <1>9. /\ r \in Declared(level)' /\ \E k \in 1 .. level : p.root \in Declared(k)
        /\ pal' = Cleared(Committed(Recorded(pal, p, mode), p, level))
    BY <1>1, <1>3, <1>5, <1>7
  <1> QED BY <1>1, <1>2, <1>3, <1>6, <1>7, <1>8, <1>9, RefStep

\* A declared reference is bound again, from the scope it is in or one inside.
LEMMA AssignRefStep ==
    ASSUME PALInv, Reborrows = 0,
           NEW r \in Refs, NEW p \in Paths, NEW mode \in Modes, AssignRef(r, p, mode)
    PROVE  PALInv'
  <1>0. PICK level : level = LevelOf(r)
    OBVIOUS
  <1>1. /\ r \in Visible /\ p.root \in Visible /\ scopes' = scopes
        /\ LevelOf(p.root) <= level
        /\ pal.ledger[level][p] = "Free"
        /\ \A i \in 1 .. Len(flow) : ~Loops(i, p)
        /\ CanRecord(pal, p, mode)
        /\ pal' = Cleared(Committed(Recorded(pal, p, mode), p, level))
        /\ flow' = flow /\ stmt' = "none" /\ dead' = dead /\ exec' = exec
        /\ Report("borrow", HitsOf(p, mode))
        /\ SetLoans(Without({Temp, r}) \cup LoansOf(r, {p}, mode))
    BY <1>0 DEF AssignRef, Outlives, Usable, Fresh, Loops
  <1>2. exec = "on" /\ ops' \in 0 .. MaxOps
    BY OpsStay DEF AssignRef
  <1>3. Declares /\ \A k : Declared(k)' = Declared(k)
    BY <1>1 DEF Declares, Declared
  <1>4. Depth \in Nat \ {0} /\ Len(flow) = Depth - 1
    BY Sizes
  <1>5. /\ level \in 1 .. Depth /\ r \in Declared(level)
        /\ LevelOf(p.root) \in 1 .. Depth /\ p.root \in Declared(LevelOf(p.root))
    BY <1>0, <1>1, VisibleLevel
  <1>6. \E k \in 1 .. level : p.root \in Declared(k)
    BY <1>1, <1>4, <1>5
  <1>7. ASSUME level <= Len(flow) PROVE p \notin flow[level].base.transient
    <2>1. level \in 1 .. Len(flow) /\ level \in 1 .. Depth - 1
      BY <1>4, <1>5, <1>7
    <2>2. Marked(flow[level].base, level)
      BY <2>1 DEF PALInv, FrameInv
    <2>3. flow[level].base.ledger[level][p] = "Free"
      BY <1>1, <2>1 DEF PALInv, Snapshot, Lent
    <2> QED BY <1>5, <2>2, <2>3 DEF Marked
  <1>8. \A j \in level .. Depth - 1 : ~Loops(j, p)
    BY <1>1, <1>4, <1>5
  <1> DEFINE gone == {Temp, r}
  <1>9. Temp \in gone /\ SetLoans(Without(gone) \cup LoansOf(r, {p}, mode))
    BY <1>1
  <1> HIDE DEF gone
  <1>10. r \in Declared(level)'
    BY <1>3, <1>5
  <1> QED BY <1>1, <1>2, <1>3, <1>5, <1>6, <1>7, <1>8, <1>9, <1>10, RefStep

\* What a value carries is set or added to, in the scope that declares it.
LEMMA CarrierStep ==
    ASSUME PALInv, exec = "on", Declares, ops' \in 0 .. MaxOps,
           NEW v \in Values, NEW sources \in PathSets, NEW level \in 1 .. Depth,
           v \in Declared(level)',
           NEW s, Checker(s, Depth), s.ledger = pal.ledger, s.transient = pal.transient,
           pal' = Cleared(s), sources \subseteq s.carriers[level][v],
           \A k \in 1 .. Depth, w \in Values : s.carriers[k][w] # {} => w \in Declared(k)',
           NEW gone, Temp \in gone,
           \A k \in 1 .. Depth, w \in Values \ gone : pal.carriers[k][w] \subseteq s.carriers[k][w],
           flow' = flow, stmt' = "none", dead' = dead, exec' = exec, Sound',
           SetLoans(Without(gone) \cup LoansOf(v, sources, "Shared"))
    PROVE  PALInv'
  <1>1. /\ Depth \in Nat \ {0} /\ Depth' = Depth /\ Checker(pal, Depth)
        /\ Len(flow) = Depth - 1
        /\ \A k \in 1 .. Depth : Declared(k) \subseteq Declared(k)'
    BY Sizes, DeclaresIs
  <1>2. /\ Checker(pal', Depth)
        /\ \A k \in 1 .. Depth, q \in Paths :
             pal'.ledger[k][q] = IF k = Depth /\ q \in pal.transient THEN "Free"
                                 ELSE pal.ledger[k][q]
        /\ pal'.carriers = s.carriers
        /\ pal'.transient = {}
    <2>1. PICK n \in Nat \ {0} : n = Depth
      BY <1>1
    <2>2. Checker(s, n)
      BY <2>1
    <2> QED BY <2>1, <2>2, ClearedIs
  <1>3. Markers'
    BY <1>2 DEF Markers, Marked
  <1>4. \A k \in 1 .. Depth, w \in Values :
          pal'.carriers[k][w] # {} => w \in Declared(k)'
    BY <1>2
  <1>5. \A k \in 1 .. Depth - 1, q \in Paths :
          /\ pal.ledger[k][q] # "Free" => pal'.ledger[k][q] # "Free"
          /\ pal.ledger[k][q] = "Mut" => pal'.ledger[k][q] = "Mut"
    BY <1>1, <1>2
  <1>6. loans' \subseteq [holder : Holders \cup {Temp}, path : Paths, mode : Modes]
    BY LoansTyped DEF Holders, Modes
  <1>7. ASSUME Live, NEW l \in loans' PROVE OnRecord(pal, Depth, l)'
    <2>1. CASE l \in loans /\ l.holder \notin gone
      <3>1. OnRecord(pal, Depth, l) /\ l.path \in Paths
        BY <1>7, <2>1, LiveRecord DEF PALInv, Shape
      <3>2. l.holder \in Values => \A k \in 1 .. Depth :
              l.path \in pal.carriers[k][l.holder] => l.path \in pal'.carriers[k][l.holder]
        BY <1>2, <2>1
      <3> QED BY <1>2, <2>1, <3>1, <3>2, RecordKept
    <2>2. CASE l \in LoansOf(v, sources, "Shared")
      <3>1. l.holder = v /\ l.path \in sources /\ l.mode = "Shared"
        BY <2>2 DEF LoansOf
      <3>2. l.path \in pal'.carriers[level][v]
        BY <1>2, <3>1
      <3> QED BY <1>1, <3>1, <3>2 DEF OnRecord
    <2> QED BY <1>7, <2>1, <2>2 DEF SetLoans, Without
  <1>8. ~Live => loans' = loans
    BY DEF SetLoans
  <1> QED BY <1>1, <1>2, <1>3, <1>4, <1>5, <1>6, <1>7, <1>8, StatementStep

\* A value is declared or assigned as a whole.
LEMMA BindValueStep ==
    ASSUME PALInv, NEW v \in Values, NEW sources \in PathSets, BindValue(v, sources)
    PROVE  PALInv'
  <1>a. PICK gone : gone = {Temp, v}
    OBVIOUS
  <1>0. PICK level : level = IF v \in Visible THEN LevelOf(v) ELSE Depth
    OBVIOUS
  <1> DEFINE s == ReplacedCarrier(pal, v, sources, level)
             hits == UNION {HitsOf(p, "Shared") : p \in sources}
  <1>1. /\ \A p \in sources : VerifyAccess(pal, p)
        /\ scopes' = IF v \in Visible THEN scopes ELSE WithDeclared(v)
        /\ pal' = Cleared(s)
        /\ flow' = flow /\ stmt' = "none" /\ dead' = dead /\ exec' = exec
        /\ Report("borrow", hits)
        /\ SetLoans(Without(gone) \cup LoansOf(v, sources, "Shared"))
    BY <1>0, <1>a DEF BindValue
  <1>2. exec = "on" /\ ops' \in 0 .. MaxOps
    BY OpsStay DEF BindValue
  <1>3. Depth \in Nat \ {0} /\ Checker(pal, Depth)
    BY Sizes
  <1>4. Declares /\ level \in 1 .. Depth /\ v \in Declared(level)'
    <2>1. CASE v \in Visible
      <3>1. Declares /\ \A k : Declared(k)' = Declared(k)
        BY <1>1, <2>1 DEF Declares, Declared
      <3>2. level \in 1 .. Depth /\ v \in Declared(level)
        BY <1>0, <2>1, VisibleLevel
      <3> QED BY <3>1, <3>2
    <2>2. CASE v \notin Visible
      BY <1>0, <1>1, <1>3, <2>2, NewDeclared DEF Holders
    <2> QED BY <2>1, <2>2
  <1>5. Live => hits = {}
    <2>1. sources \subseteq Paths
      BY DEF PathSets
    <2>2. ASSUME Live, NEW p \in sources PROVE HitsOf(p, "Shared") = {}
      BY <1>1, <2>1, <2>2, AccessMisses
    <2> QED BY <2>2
  <1> HIDE DEF hits
  <1>6. Sound'
    BY <1>1, <1>5, NothingToReport DEF PALInv
  <1>7. /\ Checker(s, Depth) /\ s.ledger = pal.ledger /\ s.transient = pal.transient
        /\ \A k \in 1 .. Depth, w \in Values :
             s.carriers[k][w] = IF w = v THEN (IF k = level THEN sources ELSE {})
                                ELSE pal.carriers[k][w]
    BY <1>3, <1>4, ReplacedCarrierIs
  <1> HIDE DEF s
  <1>8. \A k \in 1 .. Depth, w \in Values : s.carriers[k][w] # {} => w \in Declared(k)'
    <2>1. \A k \in 1 .. Depth, w \in Values : pal.carriers[k][w] # {} => w \in Declared(k)'
      BY <1>4, DeclaresIs DEF PALInv, Snapshot
    <2> QED BY <1>4, <1>7, <2>1
  <1>9. \A k \in 1 .. Depth, w \in Values \ gone : pal.carriers[k][w] \subseteq s.carriers[k][w]
    BY <1>7, <1>a
  <1>10. Temp \in gone /\ sources \subseteq s.carriers[level][v]
    BY <1>4, <1>7, <1>a
  <1>11. PICK t : t = s
    OBVIOUS
  <1>12. /\ Checker(t, Depth) /\ t.ledger = pal.ledger /\ t.transient = pal.transient
         /\ pal' = Cleared(t) /\ sources \subseteq t.carriers[level][v]
         /\ \A k \in 1 .. Depth, w \in Values : t.carriers[k][w] # {} => w \in Declared(k)'
         /\ \A k \in 1 .. Depth, w \in Values \ gone : pal.carriers[k][w] \subseteq t.carriers[k][w]
    BY <1>1, <1>7, <1>8, <1>9, <1>10, <1>11
  <1> QED BY <1>1, <1>2, <1>4, <1>6, <1>10, <1>12, CarrierStep

\* A value takes in one more borrow.
LEMMA AccumulateStep ==
    ASSUME PALInv, NEW v \in Values, NEW p \in Paths, Accumulate(v, p)
    PROVE  PALInv'
  <1>a. PICK gone : gone = {Temp}
    OBVIOUS
  <1>0. PICK level : level = LevelOf(v)
    OBVIOUS
  <1>b. PICK sources : sources = {p}
    OBVIOUS
  <1> DEFINE s == AccumulatedCarrier(pal, v, sources, level)
  <1>1. /\ VerifyAccess(pal, p) /\ v \in Visible /\ scopes' = scopes
        /\ pal' = Cleared(s)
        /\ flow' = flow /\ stmt' = "none" /\ dead' = dead /\ exec' = exec
        /\ Report("borrow", HitsOf(p, "Shared"))
        /\ SetLoans(Without(gone) \cup LoansOf(v, sources, "Shared"))
    BY <1>0, <1>b, <1>a DEF Accumulate
  <1>2. exec = "on" /\ ops' \in 0 .. MaxOps
    BY OpsStay DEF Accumulate
  <1>3. Depth \in Nat \ {0} /\ Checker(pal, Depth) /\ sources \in PathSets
    BY <1>b, Sizes DEF PathSets
  <1>4. Declares /\ level \in 1 .. Depth /\ v \in Declared(level)'
    <2>1. Declares /\ \A k : Declared(k)' = Declared(k)
      BY <1>1 DEF Declares, Declared
    <2> QED BY <1>0, <1>1, <2>1, VisibleLevel
  <1>5. Sound'
    BY <1>1, AccessMisses, NothingToReport DEF PALInv
  <1>6. \A k \in 1 .. Depth : pal.carriers[k][v] # {} => k = level
    BY <1>0, LevelOfIs DEF PALInv, Snapshot
  <1>7. /\ Checker(s, Depth) /\ s.ledger = pal.ledger /\ s.transient = pal.transient
        /\ sources \subseteq s.carriers[level][v]
        /\ \A k \in 1 .. Depth, w \in Values :
             /\ pal.carriers[k][w] \subseteq s.carriers[k][w]
             /\ k # level \/ w # v => s.carriers[k][w] = pal.carriers[k][w]
    BY <1>3, <1>4, <1>6, AccumulatedCarrierIs
  <1> HIDE DEF s
  <1>8. \A k \in 1 .. Depth, w \in Values : s.carriers[k][w] # {} => w \in Declared(k)'
    <2>1. \A k \in 1 .. Depth, w \in Values : pal.carriers[k][w] # {} => w \in Declared(k)'
      BY <1>4, DeclaresIs DEF PALInv, Snapshot
    <2> QED BY <1>4, <1>7, <2>1
  <1>9. \A k \in 1 .. Depth, w \in Values \ gone : pal.carriers[k][w] \subseteq s.carriers[k][w]
    BY <1>7, <1>a
  <1>10. Temp \in gone /\ sources \subseteq s.carriers[level][v]
    BY <1>4, <1>7, <1>a
  <1>11. PICK t : t = s
    OBVIOUS
  <1>12. /\ Checker(t, Depth) /\ t.ledger = pal.ledger /\ t.transient = pal.transient
         /\ pal' = Cleared(t) /\ sources \subseteq t.carriers[level][v]
         /\ \A k \in 1 .. Depth, w \in Values : t.carriers[k][w] # {} => w \in Declared(k)'
         /\ \A k \in 1 .. Depth, w \in Values \ gone : pal.carriers[k][w] \subseteq t.carriers[k][w]
    BY <1>1, <1>7, <1>8, <1>9, <1>10, <1>11
  <1> QED BY <1>1, <1>2, <1>3, <1>4, <1>5, <1>10, <1>12, CarrierStep

\* A value is handed on.
LEMMA CedeValueStep ==
    ASSUME PALInv, NEW v \in Values, CedeValue(v) PROVE PALInv'
  <1>1. /\ scopes' = scopes /\ pal' = ReleasedCarrier(pal, v) /\ stmt' = "open"
        /\ flow' = flow /\ dead' = dead /\ exec' = exec /\ clash' = clash
        /\ SetLoans(Without({v}))
    BY DEF CedeValue
  <1>2. /\ Declares /\ Depth \in Nat \ {0} /\ Depth' = Depth
        /\ \A k : Declared(k)' = Declared(k)
        /\ Checker(pal, Depth) /\ exec = "on" /\ ops' \in 0 .. MaxOps
    BY <1>1, Sizes, OpsStay DEF Declares, Depth, Declared, CedeValue
  <1>3. /\ Checker(pal', Depth) /\ pal'.ledger = pal.ledger
        /\ \A k \in 1 .. Depth, w \in Values :
             pal'.carriers[k][w] = IF w = v THEN {} ELSE pal.carriers[k][w]
        /\ pal'.transient = pal.transient
    <2>1. PICK n \in Nat \ {0} : n = Depth
      BY <1>2
    <2>2. Checker(pal, n) /\ pal' = ReleasedCarrier(pal, v)
      BY <1>1, <1>2, <2>1
    <2> QED BY <2>1, <2>2, ReleasedCarrierIs
  <1>4. Sound' /\ Markers'
    BY <1>1, <1>2, <1>3 DEF PALInv, Sound, Markers, Marked
  <1>5. \A k \in 1 .. Depth, w \in Values :
          pal'.carriers[k][w] # {} => w \in Declared(k)'
    BY <1>2, <1>3 DEF PALInv, Snapshot
  <1>6. \A k \in 1 .. Depth - 1, q \in Paths :
          /\ pal.ledger[k][q] # "Free" => pal'.ledger[k][q] # "Free"
          /\ pal.ledger[k][q] = "Mut" => pal'.ledger[k][q] = "Mut"
    BY <1>3
  <1>7. loans' \subseteq [holder : Holders \cup {Temp}, path : Paths, mode : Modes]
    BY <1>1 DEF PALInv, Shape, SetLoans, Without
  <1>8. ASSUME Live, NEW l \in loans' PROVE OnRecord(pal, Depth, l)'
    <2>1. l \in loans /\ l.holder # v
      BY <1>1, <1>8 DEF SetLoans, Without
    <2>2. OnRecord(pal, Depth, l)
      BY <1>8, <2>1, LiveRecord
    <2> QED BY <1>1, <1>2, <1>3, <2>1, <2>2, RecordKept
  <1>9. ~Live => loans' = loans
    BY <1>1 DEF SetLoans
  <1> QED BY <1>1, <1>2, <1>3, <1>4, <1>5, <1>6, <1>7, <1>8, <1>9, StatementStep

\* A variable is moved out.
LEMMA MoveStep ==
    ASSUME PALInv, NEW x \in Roots, Move(x) PROVE PALInv'
  <1>1. /\ scopes' = scopes /\ pal' = MarkedMoved(pal, x) /\ stmt' = "open"
        /\ flow' = flow /\ dead' = dead /\ exec' = exec /\ loans' = loans
        /\ VerifyInvalidation(pal, Whole(x)) /\ Report("move", Hits(Whole(x)))
    BY DEF Move
  <1>2. /\ Declares /\ Depth \in Nat \ {0} /\ Depth' = Depth
        /\ \A k : Declared(k)' = Declared(k)
        /\ Checker(pal, Depth) /\ exec = "on" /\ ops' \in 0 .. MaxOps
    BY <1>1, Sizes, OpsStay DEF Declares, Depth, Declared, Move
  <1>3. /\ Checker(pal', Depth)
        /\ \A k \in 1 .. Depth, q \in Paths : pal'.ledger[k][q] = pal.ledger[k][q]
        /\ pal'.carriers = pal.carriers
        /\ pal'.transient = pal.transient
    BY <1>1, <1>2, MarkedMovedIs
  <1>4. Whole(x) \in Paths
    BY PALAssumption DEF Whole
  <1>5. Sound'
    BY <1>1, <1>4, InvalidationMisses, NothingToReport DEF PALInv
  <1>6. Markers'
    <2>1. pal.transient \in SUBSET Paths
      BY <1>2, CheckerTypes
    <2> QED BY <1>1, <1>2, <1>3, <2>1 DEF PALInv, Markers, Marked
  <1>7. \A k \in 1 .. Depth, v \in Values :
          pal'.carriers[k][v] # {} => v \in Declared(k)'
    BY <1>2, <1>3, CarriersStay
  <1>8. \A k \in 1 .. Depth - 1, q \in Paths :
          /\ pal.ledger[k][q] # "Free" => pal'.ledger[k][q] # "Free"
          /\ pal.ledger[k][q] = "Mut" => pal'.ledger[k][q] = "Mut"
    BY <1>2, <1>3
  <1>9. loans' \subseteq [holder : Holders \cup {Temp}, path : Paths, mode : Modes]
    BY <1>1 DEF PALInv, Shape
  <1>10. ASSUME Live, NEW l \in loans' PROVE OnRecord(pal, Depth, l)'
    <2>1. OnRecord(pal, Depth, l) /\ l.path \in Paths
      BY <1>1, <1>10, LiveRecord DEF PALInv, Shape
    <2> QED BY <1>1, <1>2, <1>3, <2>1, RecordKept
  <1> QED BY <1>1, <1>2, <1>3, <1>5, <1>6, <1>7, <1>8, <1>9, <1>10, StatementStep

-----------------------------------------------------------------------------
(* Blocks, arms and loops.                                                 *)

\* A frame stays in order while the frames up to it and their scopes stay.
LEMMA FrameStays ==
    ASSUME PALInv, NEW j \in 1 .. Len(flow),
           \A i \in 1 .. j : flow'[i] = flow[i] /\ Declared(i)' = Declared(i)
    PROVE  FrameInv(j)'
  <1>1. FrameInv(j) /\ flow'[j] = flow[j] /\ Len(flow) \in Nat
    BY Sizes DEF PALInv
  <1>2. \A i \in 1 .. j : \A k, q : Lent(i, k, q)' = Lent(i, k, q)
    BY DEF Lent, Loops
  <1>3. /\ \A q : Loops(j, q)' = Loops(j, q)
        /\ \A i \in 1 .. j : \A q : Exclusive(i, q)' = Exclusive(i, q)
    BY <1>1 DEF Loops, Exclusive
  <1>4. Snapshot(flow[j].base, j)' /\ Snapshot(flow[j].first, j)'
    <2>1. \A i \in 1 .. j - 1 : \A k \in 1 .. i, q \in Paths : Lent(i, k, q)' => Lent(i, k, q)
      BY <1>2
    <2>4. \A i \in 1 .. j - 1, q \in Paths : Exclusive(i, q)' => Exclusive(i, q)
      BY <1>3
    <2>2. PICK s, t : s = flow[j].base /\ t = flow[j].first
      OBVIOUS
    <2>3. Snapshot(s, j)' /\ Snapshot(t, j)'
      BY <1>1, <2>1, <2>2, <2>4, SnapshotStays DEF FrameInv
    <2> QED BY <1>1, <2>2, <2>3
  <1>5. Marked(flow[j].base, j)'
    BY <1>1 DEF FrameInv, Marked
  <1>6. ASSUME NEW q \in Paths, Loops(j, q)'
        PROVE  \A k \in 1 .. j : flow'[j].base.ledger[k][q] = "Free"
    BY <1>1, <1>3, <1>6 DEF FrameInv
  <1>7. ASSUME flow'[j].kind = "for"
        PROVE  \E k \in 1 .. j : Lent(j, k, flow[j].source)'
    <2>1. PICK k \in 1 .. j : Lent(j, k, flow[j].source)
      BY <1>1, <1>7 DEF FrameInv
    <2>2. PICK q : q = flow[j].source
      OBVIOUS
    <2>3. Lent(j, k, q)'
      BY <1>2, <2>1, <2>2
    <2>4. Lent(j, k, flow[j].source)'
      BY <1>1, <2>2, <2>3
    <2> QED BY <2>4
  <1> QED BY <1>1, <1>4, <1>5, <1>6, <1>7 DEF FrameInv

\* The loans of an execution that left the analysed arms at an outer frame stay on
\* record while the frames up to that one and their scopes stay.
LEMMA OuterStays ==
    ASSUME PALInv, exec = "on", NEW i \in 1 .. Len(flow), i # Depth', At(i)',
           \A j \in 1 .. i : flow'[j] = flow[j] /\ Declared(j)' = Declared(j),
           i <= Len(flow'), \A k \in 1 .. i : k # Depth'
    PROVE  /\ ~Live
           /\ \A l \in loans : OnRecord(Point(i), i, l)'
           /\ flow'[i].arm = 2 => flow'[i].jumped = 0
  <1>1. i \in Nat /\ i # Depth /\ i \in 1 .. Depth
    BY Sizes
  <1>2. \A j \in 1 .. i : RunsIn(j)' = RunsIn(j) /\ \A q : Loops(j, q)' = Loops(j, q)
    BY DEF RunsIn, Loops
  <1>3. At(i) /\ ~RunsIn(i)
    BY <1>1, <1>2 DEF At
  <1>4. ~Live
    BY <1>1, <1>3 DEF Live, RunsIn
  <1>5. /\ \A l \in loans : OnRecord(Point(i), i, l)
        /\ flow[i].arm = 2 => flow[i].jumped = 0
    BY <1>1, <1>3 DEF PALInv, LoanInv
  <1>6. flow'[i] = flow[i]
    BY <1>1
  <1>7. Point(i)' = Point(i)
    BY <1>1, <1>6 DEF Point
  <1>8. ASSUME NEW l \in loans PROVE OnRecord(Point(i), i, l)'
    <2>1. PICK s : s = Point(i)
      OBVIOUS
    <2>2. \A k \in 1 .. i : Firm(i, k, l.path) => Firm(i, k, l.path)'
      <3>1. ASSUME NEW k \in 1 .. i, Firm(i, k, l.path) PROVE Firm(i, k, l.path)'
        <4>1. k <= Len(flow) /\ flow'[k] = flow[k]
          BY Sizes
        <4>2. \A j \in k .. i - 1 : j \in 1 .. i
          BY <1>1
        <4> QED BY <1>2, <3>1, <4>1, <4>2 DEF Firm
      <3> QED BY <3>1
    <2>3. OnRecord(s, i, l)'
      BY <1>1, <1>5, <2>1, <2>2, RecordStays
    <2> QED BY <1>7, <2>1, <2>3
  <1> QED BY <1>4, <1>5, <1>6, <1>8

\* The frames and scopes after a block is opened.
LEMMA Entered ==
    ASSUME PALInv, NEW frame \in Frames, Enter(frame)
    PROVE  /\ flow' \in Seq(Frames) /\ Len(flow') = Depth /\ Depth' = Depth + 1
           /\ flow'[Depth] = frame
           /\ \A j \in 1 .. Depth - 1 : flow'[j] = flow[j]
           /\ scopes' \in Seq(Seq(Roots \cup Holders))
           /\ \A k \in 1 .. Depth : Declared(k)' = Declared(k)
           /\ \A k : k = Depth + 1 => Declared(k)' = {}
           /\ OneScope'
  <1>1. /\ flow' = Append(flow, frame) /\ scopes' = Append(scopes, <<>>)
        /\ flow \in Seq(Frames) /\ Len(flow) = Depth - 1 /\ Depth \in Nat \ {0}
        /\ scopes \in Seq(Seq(Roots \cup Holders)) /\ Depth = Len(scopes)
    BY Sizes DEF Enter, PALInv, Shape, Depth
  <1>2. /\ flow' \in Seq(Frames) /\ Len(flow') = Depth /\ flow'[Depth] = frame
        /\ \A j \in 1 .. Depth - 1 : flow'[j] = flow[j]
    BY <1>1
  <1>3. /\ scopes' \in Seq(Seq(Roots \cup Holders)) /\ Len(scopes') = Depth + 1
        /\ scopes'[Depth + 1] = <<>>
        /\ \A k \in 1 .. Depth : scopes'[k] = scopes[k]
    <2> DEFINE names == Seq(Roots \cup Holders)
    <2>1. <<>> \in names
      OBVIOUS
    <2>2. scopes \in Seq(names)
      BY <1>1
    <2> HIDE DEF names
    <2>3. scopes' \in Seq(names) /\ Len(scopes') = Len(scopes) + 1
          /\ scopes'[Len(scopes) + 1] = <<>>
          /\ \A k \in 1 .. Len(scopes) : scopes'[k] = scopes[k]
      BY <1>1, <2>1, <2>2
    <2> QED BY <1>1, <2>3 DEF names
  <1>4. Depth' = Depth + 1
    BY <1>3 DEF Depth
  <1>5. \A k \in 1 .. Depth : Declared(k)' = Declared(k)
    BY <1>3 DEF Declared
  <1>6. \A k : k = Depth + 1 => Declared(k)' = {}
    BY <1>3 DEF Declared
  <1>7. OneScope'
    <2>1. SUFFICES ASSUME NEW j \in 1 .. Depth + 1, NEW k \in 1 .. Depth + 1, j # k
                   PROVE  Declared(j)' \cap Declared(k)' = {}
      BY <1>4 DEF OneScope
    <2>2. CASE j = Depth + 1 \/ k = Depth + 1
      BY <1>6, <2>2
    <2>3. CASE j # Depth + 1 /\ k # Depth + 1
      <3>1. j \in 1 .. Depth /\ k \in 1 .. Depth
        BY <1>1, <2>3
      <3> QED BY <1>5, <2>1, <3>1 DEF OneScope, PALInv
    <2> QED BY <2>2, <2>3
  <1> QED BY <1>2, <1>3, <1>4, <1>5, <1>6, <1>7

\* A block is opened.  The checker b of the frame differs from the one before by
\* at most an entry that the loop of the frame lends itself.
LEMMA EnterStep ==
    ASSUME PALInv, NEW frame \in Frames, Enter(frame),
           frame.base = pal, frame.first = pal, frame.arm = 1,
           frame.kind = "block" => frame.runs = 1,
           frame.kind = "for" /\ frame.added = 1 =>
              \A k \in 1 .. Depth : pal.ledger[k][frame.source] = "Free",
           frame.kind = "for" /\ frame.added = 0 =>
              \E k \in 1 .. Depth : pal.ledger[k][frame.source] # "Free",
           frame.kind = "for" /\ frame.mode = "Mut" => frame.added = 1,
           NEW b, Checker(b, Depth), pal' = Pushed(b),
           b.carriers = pal.carriers, b.transient \subseteq pal.transient,
           frame.kind = "for" /\ frame.added = 1 =>
              b.ledger[Depth][frame.source] = frame.mode,
           Sound',
           \A k \in 1 .. Depth, q \in Paths :
              pal.ledger[k][q] # "Free" => b.ledger[k][q] = pal.ledger[k][q]
    PROVE  PALInv'
  <1>1. /\ Depth \in Nat \ {0} /\ Len(flow) = Depth - 1 /\ Checker(pal, Depth)
        /\ \A j \in 1 .. Len(flow) : Checker(flow[j].base, j) /\ Checker(flow[j].first, j)
    BY Sizes
  <1>2. PICK n \in Nat \ {0} : n = Depth
    BY <1>1
  <1>3. /\ flow' \in Seq(Frames) /\ Len(flow') = n /\ Depth' = n + 1
        /\ flow'[n] = frame
        /\ \A j \in 1 .. n - 1 : flow'[j] = flow[j]
        /\ scopes' \in Seq(Seq(Roots \cup Holders))
        /\ \A k \in 1 .. n : Declared(k)' = Declared(k)
        /\ Declared(n + 1)' = {}
        /\ OneScope'
    BY <1>2, Entered
  <1>4. /\ stmt' = "none" /\ SetLoans(Without({Temp})) /\ dead' = dead
        /\ exec' = exec /\ exec = "on" /\ ops' \in 0 .. MaxOps
        /\ Live \/ frame.runs = 1
    BY OpsStay DEF Enter
  <1>5. /\ Checker(pal', n + 1)
        /\ \A k \in 1 .. n : pal'.ledger[k] = b.ledger[k] /\ pal'.carriers[k] = b.carriers[k]
        /\ pal'.carriers[n + 1] = NoCarriers
        /\ pal'.transient = b.transient
    BY <1>2, PushedIs
  <1>6. Shape'
    BY <1>3, <1>4, <1>2 DEF PALInv, Shape, SetLoans, Without
  <1>7. \A j \in 1 .. n - 1 : \A k, q :
          /\ Lent(j, k, q)' = Lent(j, k, q) /\ Loops(j, q)' = Loops(j, q)
          /\ Exclusive(j, q)' = Exclusive(j, q)
    BY <1>3 DEF Lent, Loops, Exclusive
  <1>8. \A q : Loops(n, q)' => frame.kind = "for" /\ frame.added = 1 /\ frame.source = q
    BY <1>3 DEF Loops
  <1>9. ASSUME NEW k \in 1 .. n, NEW q, Lent(n, k, q)'
        PROVE  pal.ledger[k][q] # "Free" \/ (k = n /\ Loops(n, q)')
    BY <1>3, <1>9 DEF Lent
  <1>10. Snapshot(pal, Depth)'
    <2>1. ASSUME NEW j \in 1 .. n, NEW k \in 1 .. j, NEW q \in Paths, Lent(j, k, q)'
          PROVE  pal'.ledger[k][q] # "Free"
      <3>1. k \in 1 .. n
        OBVIOUS
      <3>2. b.ledger[k][q] # "Free"
        <4>1. CASE j = n
          BY <1>2, <1>8, <1>9, <2>1, <4>1 DEF Frames, Modes
        <4>2. CASE j # n
          <5>1. j \in 1 .. n - 1 /\ j \in 1 .. Depth - 1
            BY <1>2, <4>2
          <5>2. pal.ledger[k][q] # "Free"
            BY <1>7, <2>1, <5>1 DEF PALInv, Snapshot
          <5> QED BY <1>2, <3>1, <5>2
        <4> QED BY <4>1, <4>2
      <3> QED BY <1>5, <3>1, <3>2
    <2>2. ASSUME NEW k \in 1 .. n + 1, NEW v \in Values, pal'.carriers[k][v] # {}
          PROVE  v \in Declared(k)'
      <3>1. CASE k = n + 1
        BY <1>5, <2>2, <3>1 DEF NoCarriers
      <3>2. CASE k # n + 1
        <4>1. k \in 1 .. n
          BY <3>2
        <4>2. pal.carriers[k][v] # {}
          BY <1>5, <2>2, <4>1
        <4> QED BY <1>2, <1>3, <4>1, <4>2 DEF PALInv, Snapshot
      <3> QED BY <3>1, <3>2
    <2>3. ASSUME NEW j \in 1 .. n, NEW q \in Paths, Exclusive(j, q)'
          PROVE  pal'.ledger[j][q] = "Mut"
      <3>1. CASE j = n
        BY <1>2, <1>3, <1>5, <1>8, <2>3, <3>1 DEF Exclusive
      <3>2. CASE j # n
        <4>1. j \in 1 .. n - 1 /\ j \in 1 .. Depth - 1
          BY <1>2, <3>2
        <4>2. pal.ledger[j][q] = "Mut"
          BY <1>7, <2>3, <4>1 DEF PALInv, Snapshot
        <4> QED BY <1>2, <1>5, <4>1, <4>2
      <3> QED BY <3>1, <3>2
    <2>4. Checker(pal, Depth)' /\ Depth' = n + 1 /\ n + 1 - 1 = n
      BY <1>3, <1>5 DEF Checker
    <2> QED BY <2>1, <2>2, <2>3, <2>4 DEF Snapshot
  <1>11. ASSUME NEW j \in 1 .. n PROVE FrameInv(j)'
    <2>1. CASE j # n
      <3>1. /\ j \in 1 .. Len(flow)
            /\ \A i \in 1 .. j : flow'[i] = flow[i] /\ Declared(i)' = Declared(i)
        BY <1>1, <1>2, <1>3, <2>1
      <3> QED BY <3>1, FrameStays
    <2>2. CASE j = n
      <3>1. PICK s : s = pal
        OBVIOUS
      <3>2. flow'[j].base = s /\ flow'[j].first = s /\ flow'[j] = frame
        BY <1>3, <2>2, <3>1
      <3>3. Snapshot(s, j)' /\ Marked(s, j)'
        <4>1. Snapshot(s, j) /\ Marked(s, j)
          BY <1>2, <2>2, <3>1 DEF PALInv, Markers
        <4>2. Snapshot(s, j)'
          <5>1. /\ \A i \in 1 .. j - 1 : \A k \in 1 .. i, q \in Paths :
                     Lent(i, k, q)' => Lent(i, k, q)
                /\ \A i \in 1 .. j - 1, q \in Paths : Exclusive(i, q)' => Exclusive(i, q)
            BY <1>7, <2>2
          <5> QED BY <1>3, <2>2, <4>1, <5>1, SnapshotStays
        <4> QED BY <1>3, <2>2, <4>1, <4>2 DEF Marked
      <3>4. \A q \in Paths : Loops(j, q)' =>
              \A k \in 1 .. j : flow'[j].base.ledger[k][q] = "Free"
        BY <1>2, <1>8, <2>2, <3>1, <3>2
      <3>5. flow'[j].kind = "for" => \E k \in 1 .. j : Lent(j, k, flow[j].source)'
        <4>1. frame.added \in {0, 1}
          BY DEF Frames
        <4>2. CASE frame.kind = "for" /\ frame.added = 1
          <5>1. Lent(j, j, flow[j].source)'
            BY <2>2, <3>2, <4>2 DEF Lent, Loops
          <5> QED BY <5>1
        <4>3. CASE frame.kind = "for" /\ frame.added = 0
          <5>1. PICK k \in 1 .. j : s.ledger[k][frame.source] # "Free"
            BY <1>2, <2>2, <3>1, <4>3
          <5>2. Lent(j, k, flow[j].source)'
            BY <3>2, <5>1 DEF Lent
          <5> QED BY <5>2
        <4> QED BY <3>2, <4>1, <4>2, <4>3
      <3>6. flow'[j].kind = "for" /\ flow'[j].mode = "Mut" => flow'[j].added = 1
        BY <3>2
      <3> QED BY <3>2, <3>3, <3>4, <3>5, <3>6 DEF FrameInv
    <2> QED BY <2>1, <2>2
  <1>12. Markers'
    <2>1. Marked(pal, Depth)'
      BY <1>3 DEF Marked
    <2>2. pal'.transient \subseteq flow'[n].base.transient
      BY <1>3, <1>5
    <2> QED BY <1>3, <2>1, <2>2 DEF Markers
  <1>13. ASSUME NEW l \in loans', NEW i \in {n, n + 1}, NEW t, Live,
                \A k \in 1 .. n : t.carriers[k] = pal.carriers[k],
                \A k \in 1 .. n, q \in Paths :
                   pal.ledger[k][q] # "Free" => t.ledger[k][q] = pal.ledger[k][q]
         PROVE  OnRecord(t, i, l)'
    <2>1. l \in loans /\ l.holder # Temp /\ l.path \in Paths
      BY <1>4, <1>13 DEF SetLoans, Without, PALInv, Shape
    <2>2. OnRecord(pal, n, l)
      BY <1>2, <1>13, <2>1, LiveRecord
    <2>3. CASE /\ l.holder \in Refs
               /\ \E m \in 1 .. n :
                    /\ l.holder \in Declared(m)
                    /\ \E k \in 1 .. m : l.path.root \in Declared(k)
                    /\ \E k \in 1 .. m :
                         Strong(pal.ledger[k][l.path], l.mode) /\ Firm(n, k, l.path)
      <3>1. PICK m \in 1 .. n :
              /\ l.holder \in Declared(m)
              /\ \E k \in 1 .. m : l.path.root \in Declared(k)
              /\ \E k \in 1 .. m :
                   Strong(pal.ledger[k][l.path], l.mode) /\ Firm(n, k, l.path)
        BY <2>3
      <3>2. \A k \in 1 .. m : k \in 1 .. n
        OBVIOUS
      <3>3. l.holder \in Declared(m)' /\ \E k \in 1 .. m : l.path.root \in Declared(k)'
        BY <1>3, <3>1, <3>2
      <3>4. PICK k \in 1 .. m : Strong(pal.ledger[k][l.path], l.mode) /\ Firm(n, k, l.path)
        BY <3>1
      <3>5. k \in 1 .. n /\ pal.ledger[k][l.path] # "Free"
        BY <3>2, <3>4 DEF Strong
      <3>6. Strong(t.ledger[k][l.path], l.mode)
        BY <1>13, <2>1, <3>4, <3>5
      <3>7. Firm(i, k, l.path)'
        <4>1. k <= Len(flow') => l.path \notin flow'[k].base.transient
          <5>1. CASE k = n
            BY <1>2, <1>3, <3>4, <5>1 DEF Firm
          <5>2. CASE k # n
            <6>1. k \in 1 .. n - 1 /\ k <= Len(flow)
              BY <1>1, <1>2, <3>5, <5>2
            <6> QED BY <1>3, <3>4, <6>1 DEF Firm
          <5> QED BY <5>1, <5>2
        <4>2. \A j \in k .. i - 1 : ~Loops(j, l.path)'
          <5>1. ASSUME NEW j \in k .. i - 1 PROVE ~Loops(j, l.path)'
            <6>1. CASE j = n
              BY <1>2, <1>8, <3>5, <6>1
            <6>2. CASE j # n
              <7>1. j \in k .. n - 1 /\ j \in 1 .. n - 1
                BY <3>5, <5>1, <6>2
              <7> QED BY <1>7, <3>4, <7>1 DEF Firm
            <6> QED BY <6>1, <6>2
          <5> QED BY <5>1
        <4>3. k # n + 1
          BY <3>5
        <4> QED BY <1>3, <4>1, <4>2, <4>3 DEF Firm
      <3>8. m \in 1 .. i
        BY <1>13
      <3> QED BY <2>3, <3>3, <3>6, <3>7, <3>8 DEF OnRecord, Strong
    <2>4. CASE /\ l.holder \in Values /\ l.mode = "Shared"
               /\ \E m \in 1 .. n :
                    l.holder \in Declared(m) /\ l.path \in pal.carriers[m][l.holder]
      <3>1. PICK m \in 1 .. n :
              l.holder \in Declared(m) /\ l.path \in pal.carriers[m][l.holder]
        BY <2>4
      <3>2. m \in 1 .. i /\ l.holder \in Declared(m)' /\ l.path \in t.carriers[m][l.holder]
        BY <1>3, <1>13, <3>1
      <3> QED BY <2>4, <3>2 DEF OnRecord
    <2> QED BY <2>1, <2>2, <2>3, <2>4 DEF OnRecord
  <1>14. LoanInv'
    <2> SUFFICES ASSUME NEW i \in 1 .. n + 1, At(i)'
                 PROVE  /\ \A l \in loans' : OnRecord(Point(i), i, l)'
                        /\ i <= n /\ flow'[i].arm = 2 => flow'[i].jumped = 0
      BY <1>3 DEF LoanInv
    <2>1. \A j \in 1 .. n - 1 : RunsIn(j)' = RunsIn(j)
      BY <1>3 DEF RunsIn
    <2>2. CASE i \in {n, n + 1}
      <3>1. \A j \in 1 .. n - 1 : RunsIn(j)
        BY <2>1, <2>2 DEF At
      <3>2. Live
        BY <1>1, <1>2, <1>4, <3>1 DEF Live, RunsIn
      <3>3. PICK t : t = IF i = n THEN pal ELSE pal'
        OBVIOUS
      <3>4. Point(i)' = t
        BY <1>3, <2>2, <3>3 DEF Point
      <3>5. /\ \A k \in 1 .. n : t.carriers[k] = pal.carriers[k]
            /\ \A k \in 1 .. n, q \in Paths :
                 pal.ledger[k][q] # "Free" => t.ledger[k][q] = pal.ledger[k][q]
        BY <1>2, <1>5, <2>2, <3>3
      <3>6. ASSUME NEW l \in loans' PROVE OnRecord(Point(i), i, l)'
        <4>1. OnRecord(t, i, l)'
          BY <1>13, <2>2, <3>2, <3>5
        <4> QED BY <3>4, <4>1
      <3>7. i <= n => flow'[i].arm # 2
        BY <1>3, <2>2
      <3> QED BY <3>6, <3>7
    <2>3. CASE i \notin {n, n + 1}
      <3>1. /\ i \in 1 .. Len(flow) /\ i # Depth' /\ i <= Len(flow')
            /\ \A k \in 1 .. i : k # Depth'
            /\ \A j \in 1 .. i : flow'[j] = flow[j] /\ Declared(j)' = Declared(j)
        BY <1>1, <1>2, <1>3, <2>3
      <3>2. /\ ~Live
            /\ \A l \in loans : OnRecord(Point(i), i, l)'
            /\ flow'[i].arm = 2 => flow'[i].jumped = 0
        BY <1>4, <3>1, OuterStays
      <3>3. loans' = loans
        BY <1>4, <3>2 DEF SetLoans
      <3> QED BY <3>2, <3>3
    <2> QED BY <2>2, <2>3
  <1> QED BY <1>3, <1>6, <1>10, <1>11, <1>12, <1>14 DEF PALInv

\* A block or an if is opened.
LEMMA OpenStep ==
    ASSUME PALInv, NEW kind \in {"block", "if"}, NEW run \in {1, 2},
           kind = "block" => run = 1, Enter(Frame(kind, run)), pal' = Pushed(pal),
           clash' = clash
    PROVE  PALInv'
  <1>1. Checker(pal, Depth) /\ pal \in PALStates
    BY Sizes DEF Checker
  <1>2. (CHOOSE p \in Paths : TRUE) \in Paths
    BY PALAssumption
  <1>3. PICK frame : frame = Frame(kind, run)
    OBVIOUS
  <1>4. /\ frame \in Frames /\ frame.base = pal /\ frame.first = pal /\ frame.arm = 1
        /\ frame.kind = kind /\ frame.runs = run
    BY <1>1, <1>2, <1>3 DEF Frame, Frames, Modes
  <1>5. Enter(frame)
    BY <1>3
  <1>6. PICK b : b = pal
    OBVIOUS
  <1>7. /\ Checker(b, Depth) /\ pal' = Pushed(b)
        /\ b.carriers = pal.carriers /\ b.transient \subseteq pal.transient
        /\ \A k \in 1 .. Depth, q \in Paths :
             pal.ledger[k][q] # "Free" => b.ledger[k][q] = pal.ledger[k][q]
    BY <1>1, <1>6
  <1>8. frame.kind # "for"
    BY <1>4
  <1>9. Sound'
    BY DEF PALInv, Sound
  <1> QED BY <1>4, <1>5, <1>7, <1>8, <1>9, EnterStep

\* A loop is entered.
LEMMA ForStep ==
    ASSUME PALInv, AliasedFors = 0, NEW p \in Paths, NEW mode \in Modes, NEW run \in {1, 2},
           For(p, mode, run)
    PROVE  PALInv'
  <1>1. /\ Checker(pal, Depth) /\ pal \in PALStates /\ Depth \in Nat \ {0}
        /\ Levels(pal) = 1 .. Depth
    BY Sizes DEF Checker
  <1>2. PICK added : added = IF GetState(pal, p) = "Free" THEN 1 ELSE 0
    OBVIOUS
  <1>3. PICK b : b = IF added = 1 THEN Committed(Recorded(pal, p, mode), p, Depth) ELSE pal
    OBVIOUS
  <1>4. PICK frame : frame = [Frame("for", run) EXCEPT !.source = p, !.added = added,
                                                       !.mode = mode]
    OBVIOUS
  <1>5. pal' = Pushed(b) /\ Enter(frame)
    BY <1>2, <1>3, <1>4 DEF For
  <1>6. /\ frame \in Frames /\ frame.base = pal /\ frame.first = pal /\ frame.arm = 1
        /\ frame.kind = "for" /\ frame.added = added /\ frame.source = p
        /\ frame.mode = mode
    <2>1. (CHOOSE q \in Paths : TRUE) \in Paths /\ added \in {0, 1}
      BY <1>2, PALAssumption
    <2> QED BY <1>1, <1>4, <2>1 DEF Frame, Frames, Modes
  <1>7. added = 1 => \A k \in 1 .. Depth : pal.ledger[k][p] = "Free"
    BY <1>1, <1>2 DEF GetState
  <1>8. added = 0 => \E k \in 1 .. Depth : pal.ledger[k][p] # "Free"
    BY <1>1, <1>2 DEF GetState
  <1>9. /\ Checker(b, Depth)
        /\ b.carriers = pal.carriers /\ b.transient \subseteq pal.transient
        /\ added = 1 => b.ledger[Depth][p] = mode
        /\ \A k \in 1 .. Depth, q \in Paths :
             pal.ledger[k][q] # "Free" => b.ledger[k][q] = pal.ledger[k][q]
    <2>1. CASE added = 1
      <3> DEFINE a == Recorded(pal, p, mode)
      <3>1. /\ Checker(a, Depth)
            /\ a.ledger[Depth][p] = mode
            /\ \A k \in 1 .. Depth, q \in Paths :
                 k # Depth \/ q # p => a.ledger[k][q] = pal.ledger[k][q]
            /\ a.carriers = pal.carriers
            /\ a.transient = pal.transient \cup {p}
        BY <1>1, RecordedIs
      <3>2. b = Committed(a, p, Depth)
        BY <1>3, <2>1
      <3> HIDE DEF a
      <3>3. Depth \in 1 .. Depth /\ a.ledger[Depth][p] # "Free"
        BY <1>1, <3>1 DEF Modes
      <3>4. /\ Checker(b, Depth)
            /\ b.ledger[Depth][p] = IF a.ledger[Depth][p] = "Free" \/ a.ledger[Depth][p] = "Mut"
                                      THEN a.ledger[Depth][p] ELSE a.ledger[Depth][p]
            /\ \A k \in 1 .. Depth, q \in Paths :
                 k # Depth \/ q # p => b.ledger[k][q] = a.ledger[k][q]
            /\ b.carriers = a.carriers
            /\ b.transient = a.transient \ {p}
        BY <1>1, <3>1, <3>2, <3>3, CommittedIs
      <3>5. b.ledger[Depth][p] = mode
        BY <3>1, <3>4
      <3>6. \A k \in 1 .. Depth, q \in Paths :
              pal.ledger[k][q] # "Free" => b.ledger[k][q] = pal.ledger[k][q]
        BY <1>7, <2>1, <3>1, <3>4
      <3>7. b.transient \subseteq pal.transient
        BY <3>1, <3>4
      <3> QED BY <3>1, <3>4, <3>5, <3>6, <3>7
    <2>2. CASE added # 1
      BY <1>1, <1>3, <2>2
    <2> QED BY <2>1, <2>2
  <1>10. /\ added = 1 => b.ledger[Depth][frame.source] = frame.mode
         /\ added = 1 => \A k \in 1 .. Depth : pal.ledger[k][frame.source] = "Free"
         /\ added = 0 => \E k \in 1 .. Depth : pal.ledger[k][frame.source] # "Free"
    BY <1>6, <1>7, <1>8, <1>9
  <1>11. mode = "Mut" => added = 1
    BY <1>2 DEF For
  <1>12. Sound'
    <2>1. Report("borrow", HitsOf(p, mode)) /\ VerifyAccess(pal, p)
          /\ (added = 1 => CanRecord(pal, p, mode))
      BY <1>2 DEF For
    <2>2. CanRecord(pal, p, mode)
      BY <1>11, <2>1 DEF CanRecord
    <2> QED BY <2>1, <2>2, BorrowMisses, NothingToReport DEF PALInv
  <1> QED BY <1>5, <1>6, <1>9, <1>10, <1>11, <1>12, EnterStep

\* The checker at the end of an arm: the innermost scope is gone, and what was
\* marked in the one around it.
LEMMA ArmEndIs ==
    ASSUME PALInv, flow # <<>>, NEW m, m = Len(flow)
    PROVE  /\ m \in Nat \ {0} /\ Depth = m + 1 /\ Top = flow[m]
           /\ Checker(ArmEnd, m) /\ Snapshot(ArmEnd, m)
           /\ \A k \in 1 .. m, q \in Paths :
                ArmEnd.ledger[k][q] = IF k = m /\ q \in pal.transient THEN "Free"
                                      ELSE pal.ledger[k][q]
           /\ \A k \in 1 .. m : ArmEnd.carriers[k] = pal.carriers[k]
           /\ ArmEnd.transient = {}
  <1>1. /\ Depth \in Nat \ {0} /\ Len(flow) = Depth - 1 /\ Checker(pal, Depth)
        /\ flow \in Seq(Frames)
    BY Sizes DEF PALInv, Shape
  <1>2. m \in Nat \ {0} /\ Depth = m + 1 /\ Top = flow[m] /\ Checker(pal, m + 1)
    BY <1>1 DEF Top
  <1> DEFINE s == Popped(pal)
  <1>3. /\ Checker(s, m) /\ s.transient = pal.transient
        /\ \A k \in 1 .. m : s.ledger[k] = pal.ledger[k] /\ s.carriers[k] = pal.carriers[k]
    BY <1>2, PoppedIs
  <1> HIDE DEF s
  <1>4. PICK a : a = ArmEnd
    OBVIOUS
  <1>5. a = Cleared(s)
    BY <1>4 DEF ArmEnd, s
  <1>6. /\ Checker(a, m)
        /\ \A k \in 1 .. m, q \in Paths :
             a.ledger[k][q] = IF k = m /\ q \in s.transient THEN "Free" ELSE s.ledger[k][q]
        /\ a.carriers = s.carriers
        /\ a.transient = {}
    BY <1>2, <1>3, <1>5, ClearedIs
  <1>7. /\ \A k \in 1 .. m, q \in Paths :
             a.ledger[k][q] = IF k = m /\ q \in pal.transient THEN "Free"
                              ELSE pal.ledger[k][q]
        /\ \A k \in 1 .. m : a.carriers[k] = pal.carriers[k]
    BY <1>3, <1>6
  <1>8. Snapshot(a, m)
    <2>1. ASSUME NEW j \in 1 .. m - 1, NEW k \in 1 .. j, NEW q \in Paths, Lent(j, k, q)
          PROVE  a.ledger[k][q] # "Free"
      <3>1. j \in 1 .. Depth - 1 /\ k \in 1 .. m /\ k # m
        BY <1>2, <2>1
      <3>2. pal.ledger[k][q] # "Free"
        BY <2>1, <3>1 DEF PALInv, Snapshot
      <3> QED BY <1>7, <3>1, <3>2
    <2>2. \A k \in 1 .. m, v \in Values : a.carriers[k][v] # {} => v \in Declared(k)
      <3>1. \A k \in 1 .. m : k \in 1 .. Depth
        BY <1>2
      <3> QED BY <1>7, <3>1 DEF PALInv, Snapshot
    <2>3. ASSUME NEW j \in 1 .. m - 1, NEW q \in Paths, Exclusive(j, q)
          PROVE  a.ledger[j][q] = "Mut"
      <3>1. j \in 1 .. Depth - 1 /\ j \in 1 .. m /\ j # m
        BY <1>2, <2>3
      <3>2. pal.ledger[j][q] = "Mut"
        BY <2>3, <3>1 DEF PALInv, Snapshot
      <3> QED BY <1>7, <3>1, <3>2
    <2> QED BY <1>6, <2>1, <2>2, <2>3 DEF Snapshot
  <1> QED BY <1>2, <1>4, <1>6, <1>7, <1>8

\* mergeBranches keeps a snapshot.
LEMMA MergedSnapshot ==
    ASSUME NEW m \in Nat \ {0}, NEW a, Snapshot(a, m), NEW b, Snapshot(b, m)
    PROVE  Snapshot(Merged(a, b), m)
  <1>1. Checker(a, m) /\ Checker(b, m)
    BY DEF Snapshot
  <1>2. PICK r : r = Merged(a, b)
    OBVIOUS
  <1>3. /\ Checker(r, m)
        /\ \A k \in 1 .. m, q \in Paths :
             r.ledger[k][q] = Join(a.ledger[k][q], b.ledger[k][q])
        /\ \A k \in 1 .. m, v \in Values :
             r.carriers[k][v] = a.carriers[k][v] \cup b.carriers[k][v]
    BY <1>1, <1>2, MergedIs
  <1>4. /\ \A k \in 1 .. m : a.ledger[k] \in [Paths -> PathStates]
        /\ \A k \in 1 .. m : a.carriers[k] \in [Values -> SUBSET Paths]
    BY <1>1, CheckerTypes
  <1>5. ASSUME NEW j \in 1 .. m - 1, NEW k \in 1 .. j, NEW q \in Paths, Lent(j, k, q)
        PROVE  r.ledger[k][q] # "Free"
    <2>1. k \in 1 .. m /\ a.ledger[k][q] # "Free" /\ a.ledger[k][q] \in PathStates
      BY <1>4, <1>5 DEF Snapshot
    <2> QED BY <1>3, <2>1 DEF Join, PathStates
  <1>6. ASSUME NEW k \in 1 .. m, NEW v \in Values, r.carriers[k][v] # {}
        PROVE  v \in Declared(k)
    <2>1. a.carriers[k][v] # {} \/ b.carriers[k][v] # {}
      BY <1>3, <1>6
    <2> QED BY <2>1 DEF Snapshot
  <1>7. ASSUME NEW j \in 1 .. m - 1, NEW q \in Paths, Exclusive(j, q)
        PROVE  r.ledger[j][q] = "Mut"
    <2>1. j \in 1 .. m /\ a.ledger[j][q] = "Mut"
      BY <1>7 DEF Snapshot
    <2> QED BY <1>3, <2>1 DEF Join
  <1>8. Snapshot(r, m)
    BY <1>3, <1>5, <1>6, <1>7 DEF Snapshot
  <1> QED BY <1>2, <1>8

\* mergeBranches weakens no entry of either branch.
LEMMA MergedGrows ==
    ASSUME NEW m \in Nat \ {0}, NEW a, Checker(a, m), NEW b, Checker(b, m),
           NEW k \in 1 .. m
    PROVE  /\ \A q \in Paths : \A mode : Strong(a.ledger[k][q], mode) \/ Strong(b.ledger[k][q], mode)
                                       => Strong(Merged(a, b).ledger[k][q], mode)
           /\ \A v \in Values : /\ a.carriers[k][v] \subseteq Merged(a, b).carriers[k][v]
                                /\ b.carriers[k][v] \subseteq Merged(a, b).carriers[k][v]
  <1>2. PICK r : r = Merged(a, b)
    OBVIOUS
  <1>3. /\ \A q \in Paths : r.ledger[k][q] = Join(a.ledger[k][q], b.ledger[k][q])
        /\ \A v \in Values : r.carriers[k][v] = a.carriers[k][v] \cup b.carriers[k][v]
    BY <1>2, MergedIs
  <1>4. \A q \in Paths : \A mode : Strong(a.ledger[k][q], mode) \/ Strong(b.ledger[k][q], mode)
                                 => Strong(r.ledger[k][q], mode)
    BY <1>3 DEF Join, Strong
  <1>5. \A v \in Values : /\ a.carriers[k][v] \subseteq r.carriers[k][v]
                          /\ b.carriers[k][v] \subseteq r.carriers[k][v]
    BY <1>3
  <1> QED BY <1>2, <1>4, <1>5

\* A loan on record in s is on record in t, if t has the entries and carriers of s.
LEMMA RecordGrows ==
    ASSUME NEW n \in Nat, n # Depth, NEW s, NEW t, NEW l, l.path \in Paths,
           OnRecord(s, n, l),
           l.holder \in Refs => \A k \in 1 .. n :
              Strong(s.ledger[k][l.path], l.mode) => Strong(t.ledger[k][l.path], l.mode),
           \A k \in 1 .. n, v \in Values : s.carriers[k][v] \subseteq t.carriers[k][v]
    PROVE  OnRecord(t, n, l)
  <1>1. CASE /\ l.holder \in Refs
             /\ \E m \in 1 .. n :
                  /\ l.holder \in Declared(m)
                  /\ \E k \in 1 .. m : l.path.root \in Declared(k)
                  /\ \E k \in 1 .. m :
                       Strong(s.ledger[k][l.path], l.mode) /\ Firm(n, k, l.path)
    <2>1. PICK m \in 1 .. n :
            /\ l.holder \in Declared(m)
            /\ \E k \in 1 .. m : l.path.root \in Declared(k)
            /\ \E k \in 1 .. m :
                 Strong(s.ledger[k][l.path], l.mode) /\ Firm(n, k, l.path)
      BY <1>1
    <2>2. \A k \in 1 .. m : k \in 1 .. n
      BY <2>1
    <2>3. \E k \in 1 .. m : Strong(t.ledger[k][l.path], l.mode) /\ Firm(n, k, l.path)
      BY <1>1, <2>1, <2>2
    <2> QED BY <1>1, <2>1, <2>3 DEF OnRecord
  <1>2. CASE /\ l.holder \in Values /\ l.mode = "Shared"
             /\ \E m \in 1 .. n :
                  l.holder \in Declared(m) /\ l.path \in s.carriers[m][l.holder]
    BY <1>2 DEF OnRecord
  <1> QED BY <1>1, <1>2 DEF OnRecord

\* A loan of an outer holder is on record when the arm ends, and its path is not
\* the one the loop of this arm lent itself.
LEMMA ArmRecord ==
    ASSUME PALInv, flow # <<>>, NEW m, m = Len(flow), Live, stmt = "none",
           NEW l \in loans, l.holder \notin Declared(Depth)
    PROVE  /\ OnRecord(ArmEnd, m, l)
           /\ l.holder \in Refs => ~Loops(m, l.path)
  <1>1. PICK a : a = ArmEnd
    OBVIOUS
  <1>2. /\ m \in Nat \ {0} /\ Depth = m + 1
        /\ \A k \in 1 .. m, q \in Paths :
             a.ledger[k][q] = IF k = m /\ q \in pal.transient THEN "Free"
                              ELSE pal.ledger[k][q]
        /\ \A k \in 1 .. m : a.carriers[k] = pal.carriers[k]
    BY <1>1, ArmEndIs
  <1>3. l.path \in Paths /\ OnRecord(pal, Depth, l)
    BY LiveRecord DEF PALInv, Shape
  <1>4. pal.transient \subseteq flow[m].base.transient
    BY <1>2 DEF PALInv, Markers
  <1>5. CASE /\ l.holder \in Refs
             /\ \E i \in 1 .. Depth :
                  /\ l.holder \in Declared(i)
                  /\ \E k \in 1 .. i : l.path.root \in Declared(k)
                  /\ \E k \in 1 .. i :
                       Strong(pal.ledger[k][l.path], l.mode) /\ Firm(Depth, k, l.path)
    <2>1. PICK i \in 1 .. Depth :
            /\ l.holder \in Declared(i)
            /\ \E k \in 1 .. i : l.path.root \in Declared(k)
            /\ \E k \in 1 .. i :
                 Strong(pal.ledger[k][l.path], l.mode) /\ Firm(Depth, k, l.path)
      BY <1>5
    <2>2. i \in 1 .. m
      BY <1>2, <2>1
    <2>3. PICK k \in 1 .. i : Strong(pal.ledger[k][l.path], l.mode) /\ Firm(Depth, k, l.path)
      BY <2>1
    <2>4. k \in 1 .. m
      BY <2>2, <2>3
    <2>5. k = m => l.path \notin pal.transient
      BY <1>4, <2>3, <2>4 DEF Firm
    <2>6. Strong(a.ledger[k][l.path], l.mode)
      BY <1>2, <1>3, <2>3, <2>4, <2>5
    <2>7. Firm(m, k, l.path)
      BY <1>2, <2>3, <2>4 DEF Firm
    <2>8. ~Loops(m, l.path)
      BY <1>2, <2>3, <2>4 DEF Firm
    <2> QED BY <1>1, <1>5, <2>1, <2>2, <2>6, <2>7, <2>8 DEF OnRecord
  <1>6. CASE /\ l.holder \in Values /\ l.mode = "Shared"
             /\ \E i \in 1 .. Depth :
                  l.holder \in Declared(i) /\ l.path \in pal.carriers[i][l.holder]
    <2>1. PICK i \in 1 .. Depth :
            l.holder \in Declared(i) /\ l.path \in pal.carriers[i][l.holder]
      BY <1>6
    <2>2. i \in 1 .. m
      BY <1>2, <2>1
    <2>3. l.path \in a.carriers[i][l.holder]
      BY <1>2, <2>1, <2>2
    <2>4. l.holder \notin Refs
      BY <1>6, PALAssumption
    <2> QED BY <1>1, <1>6, <2>1, <2>2, <2>3, <2>4 DEF OnRecord
  <1> QED BY <1>3, <1>5, <1>6 DEF OnRecord

\* checkCleanupScope lets no variable go that is moved in no arm and that a loan
\* outliving it needs.
LEMMA DropMisses ==
    ASSUME PALInv, NEW jump, LeaveScope(jump) PROVE Sound'
  <1> SUFFICES ASSUME Live, NEW d \in Leaving(jump), NEW l \in DropHits(d),
                      l.path.root \notin pal.moved
               PROVE  FALSE
    BY DEF LeaveScope, PALInv, Sound, DropKind
  <1>0. d \in 1 .. Depth
    BY Sizes DEF Leaving
  <1>1. /\ l \in loans /\ l.path.root \in Declared(d) /\ l.holder # Temp
        /\ \/ LevelOf(l.holder) < d
           \/ /\ LevelOf(l.holder) = d /\ l.holder \in DropReads
              /\ PlaceOf(l.holder, d) < PlaceOf(l.path.root, d)
    BY DEF DropHits
  <1>2. /\ Depth \in Nat \ {0} /\ OnRecord(pal, Depth, l) /\ l.path \in Paths
        /\ l.path.root \in Roots /\ OneScope
    BY <1>1, Sizes, LiveRecord, PALAssumption DEF PALInv, Shape
  <1>3. CASE /\ l.holder \in Refs
             /\ \E i \in 1 .. Depth :
                  l.holder \in Declared(i) /\ \E k \in 1 .. i : l.path.root \in Declared(k)
    <2>1. PICK i \in 1 .. Depth :
            l.holder \in Declared(i) /\ \E k \in 1 .. i : l.path.root \in Declared(k)
      BY <1>3
    <2>2. PICK k \in 1 .. i : l.path.root \in Declared(k)
      BY <2>1
    <2>3. k \in 1 .. Depth
      BY <1>2, <2>1, <2>2
    <2>4. k = d
      BY <1>0, <1>1, <1>2, <2>2, <2>3 DEF OneScope
    <2>5. LevelOf(l.holder) = i
      BY <1>2, <2>1, LevelOfIs
    <2>6. ~(i < d)
      BY <1>0, <1>2, <2>1, <2>2, <2>4
    <2> QED BY <1>1, <1>2, <1>3, <2>5, <2>6, PALAssumption
  <1>4. CASE /\ l.holder \in Values
             /\ \E i \in 1 .. Depth :
                  l.holder \in Declared(i) /\ l.path \in pal.carriers[i][l.holder]
    <2>1. PICK i \in 1 .. Depth :
            l.holder \in Declared(i) /\ l.path \in pal.carriers[i][l.holder]
      BY <1>4
    <2>2. l.holder \in Values \cap Visible
      BY <1>4, <2>1 DEF Visible
    <2>3. Survives(l.holder, l.path.root, d)
      BY <1>1 DEF Survives
    <2>4. l.path.root \in Declared(d) \cap (Roots \ pal.moved)
      BY <1>1, <1>2
    <2>6. LevelOf(l.holder) = i
      BY <1>2, <2>1, LevelOfIs
    <2>7. i \in 1 .. d
      BY <1>0, <1>1, <1>2, <2>1, <2>6
    <2>5. ~Overlap(l.path, Whole(l.path.root))
      BY <2>1, <2>2, <2>3, <2>4, <2>7 DEF LeaveScope, CheckCleanupScope
    <2> QED BY <1>2, <2>5, OverlapWhole
  <1> QED BY <1>1, <1>2, <1>3, <1>4 DEF OnRecord

\* The frames and scopes after a block is left.
LEMMA Left ==
    ASSUME PALInv, flow # <<>>, NEW m, m = Len(flow), PopFlow, PopScopes
    PROVE  /\ flow' \in Seq(Frames) /\ Len(flow') = m - 1 /\ Depth' = m
           /\ \A j \in 1 .. m - 1 : flow'[j] = flow[j]
           /\ scopes' \in Seq(Seq(Roots \cup Holders))
           /\ \A k \in 1 .. m : Declared(k)' = Declared(k)
           /\ OneScope'
  <1>1. /\ flow' = SubSeq(flow, 1, m - 1) /\ scopes' = SubSeq(scopes, 1, Depth - 1)
        /\ flow \in Seq(Frames) /\ m \in Nat \ {0} /\ Depth = m + 1
        /\ scopes \in Seq(Seq(Roots \cup Holders)) /\ Depth = Len(scopes)
    BY ArmEndIs DEF PopFlow, PopScopes, PALInv, Shape, Depth
  <1>2. /\ flow' \in Seq(Frames) /\ Len(flow') = m - 1
        /\ \A j \in 1 .. m - 1 : flow'[j] = flow[j]
    BY <1>1
  <1>3. /\ scopes' \in Seq(Seq(Roots \cup Holders)) /\ Len(scopes') = m
        /\ \A k \in 1 .. m : scopes'[k] = scopes[k]
    <2> DEFINE names == Seq(Roots \cup Holders)
    <2>1. scopes \in Seq(names) /\ scopes' = SubSeq(scopes, 1, m) /\ Len(scopes) = m + 1
      BY <1>1
    <2> HIDE DEF names
    <2>2. scopes' \in Seq(names) /\ Len(scopes') = m
          /\ \A k \in 1 .. m : scopes'[k] = scopes[k]
      BY <1>1, <2>1
    <2> QED BY <2>2 DEF names
  <1>4. Depth' = m
    BY <1>3 DEF Depth
  <1>5. \A k \in 1 .. m : Declared(k)' = Declared(k)
    BY <1>3 DEF Declared
  <1>6. OneScope'
    <2>1. SUFFICES ASSUME NEW j \in 1 .. m, NEW k \in 1 .. m, j # k
                   PROVE  Declared(j)' \cap Declared(k)' = {}
      BY <1>4 DEF OneScope
    <2>2. j \in 1 .. Depth /\ k \in 1 .. Depth
      BY <1>1
    <2> QED BY <1>5, <2>1, <2>2 DEF OneScope, PALInv
  <1> QED BY <1>2, <1>3, <1>4, <1>5, <1>6

\* A block, a branch or a loop ends with the checker state a, and the markers of the
\* statement it is are cleared.
LEMMA EndStep ==
    ASSUME PALInv, flow # <<>>, NEW m, m = Len(flow), PopFlow, PopScopes,
           stmt' = stmt, NEW jump \in {0, 1}, LeaveScope(jump), ArmLoans(jump),
           NEW a, Snapshot(a, m), a.transient \subseteq flow[m].base.transient,
           pal' = Cleared(a),
           (\A i \in 1 .. m - 1 : RunsIn(i)) /\ exec' = "on" =>
              \A l \in loans' : OnRecord(a, m, l)
    PROVE  PALInv'
  <1>1. /\ m \in Nat \ {0} /\ Depth = m + 1 /\ Checker(a, m)
    BY ArmEndIs DEF Snapshot
  <1>2. /\ flow' \in Seq(Frames) /\ Len(flow') = m - 1 /\ Depth' = m
        /\ \A j \in 1 .. m - 1 : flow'[j] = flow[j]
        /\ scopes' \in Seq(Seq(Roots \cup Holders))
        /\ \A k \in 1 .. m : Declared(k)' = Declared(k)
        /\ OneScope'
    BY Left
  <1>3. /\ Checker(pal', m)
        /\ \A k \in 1 .. m, q \in Paths :
             pal'.ledger[k][q] = IF k = m /\ q \in a.transient THEN "Free" ELSE a.ledger[k][q]
        /\ pal'.carriers = a.carriers
        /\ pal'.transient = {}
    BY <1>1, ClearedIs
  <1>4. /\ exec = "on" /\ ops' \in 0 .. MaxOps /\ dead' \subseteq Roots /\ stmt' = "none"
        /\ exec' \in {"on", "gone"}
        /\ loans' \subseteq [holder : Holders \cup {Temp}, path : Paths, mode : Modes]
        /\ ~Live => loans' = loans
    <2>1. exec = "on" /\ ops' \in 0 .. MaxOps
      BY OpsStay DEF LeaveScope
    <2>2. dead' \subseteq Roots /\ stmt' = "none" /\ exec' \in {"on", "gone"}
      BY DEF LeaveScope, ArmLoans, PALInv, Shape
    <2>3. /\ loans' \subseteq [holder : Holders \cup {Temp}, path : Paths, mode : Modes]
          /\ ~Live => loans' = loans
      BY DEF ArmLoans, SetLoans, Without, PALInv, Shape
    <2> QED BY <2>1, <2>2, <2>3
  <1>5. Shape'
    BY <1>1, <1>2, <1>4 DEF Shape
  <1>6. \A j \in 1 .. m - 1 : \A k, q :
          /\ Lent(j, k, q)' = Lent(j, k, q) /\ Loops(j, q)' = Loops(j, q)
          /\ Exclusive(j, q)' = Exclusive(j, q)
    BY <1>2 DEF Lent, Loops, Exclusive
  <1>7. Snapshot(pal, Depth)'
    <2>1. ASSUME NEW j \in 1 .. m - 1, NEW k \in 1 .. j, NEW q \in Paths, Lent(j, k, q)'
          PROVE  pal'.ledger[k][q] # "Free"
      <3>1. k \in 1 .. m /\ k # m
        BY <1>1
      <3>2. a.ledger[k][q] # "Free"
        BY <1>6, <2>1 DEF Snapshot
      <3> QED BY <1>3, <3>1, <3>2
    <2>2. \A k \in 1 .. m, v \in Values : pal'.carriers[k][v] # {} => v \in Declared(k)'
      BY <1>2, <1>3 DEF Snapshot
    <2>3. ASSUME NEW j \in 1 .. m - 1, NEW q \in Paths, Exclusive(j, q)'
          PROVE  pal'.ledger[j][q] = "Mut"
      <3>1. j \in 1 .. m /\ j # m
        BY <1>1
      <3>2. a.ledger[j][q] = "Mut"
        BY <1>6, <2>3 DEF Snapshot
      <3> QED BY <1>3, <3>1, <3>2
    <2> QED BY <1>2, <1>3, <2>1, <2>2, <2>3 DEF Snapshot, Checker
  <1>8. ASSUME NEW j \in 1 .. m - 1 PROVE FrameInv(j)'
    <2>1. /\ j \in 1 .. Len(flow)
          /\ \A i \in 1 .. j : flow'[i] = flow[i] /\ Declared(i)' = Declared(i)
      <3>1. j \in 1 .. Len(flow) /\ \A i \in 1 .. j : i \in 1 .. m - 1 /\ i \in 1 .. m
        BY <1>1
      <3> QED BY <1>2, <3>1
    <2> QED BY <2>1, FrameStays
  <1>9. Markers'
    BY <1>3 DEF Markers, Marked
  <1>10. LoanInv'
    <2> SUFFICES ASSUME exec' = "on", NEW i \in 1 .. m, At(i)'
                 PROVE  /\ \A l \in loans' : OnRecord(Point(i), i, l)'
                        /\ i <= m - 1 /\ flow'[i].arm = 2 => flow'[i].jumped = 0
      BY <1>2 DEF LoanInv
    <2>1. CASE i # m
      <3>1. /\ i \in 1 .. m - 1 /\ i \in 1 .. Len(flow) /\ i # Depth' /\ i <= Len(flow')
            /\ \A k \in 1 .. i : k # Depth'
            /\ \A j \in 1 .. i : flow'[j] = flow[j] /\ Declared(j)' = Declared(j)
        BY <1>1, <1>2, <2>1
      <3>2. /\ ~Live
            /\ \A l \in loans : OnRecord(Point(i), i, l)'
            /\ flow'[i].arm = 2 => flow'[i].jumped = 0
        BY <1>4, <3>1, OuterStays
      <3> QED BY <1>4, <3>2
    <2>2. CASE i = m
      <3>1. \A j \in 1 .. m - 1 : RunsIn(j)
        <4>1. \A j \in 1 .. m - 1 : RunsIn(j)'
          BY <2>2 DEF At
        <4> QED BY <1>2, <4>1 DEF RunsIn
      <3>2. Point(i)' = pal'
        BY <1>2, <2>2 DEF Point
      <3>3. ASSUME NEW l \in loans' PROVE OnRecord(pal, m, l)'
        <4>1. OnRecord(a, m, l) /\ l.path \in Paths
          BY <1>4, <3>1
        <4>2. CASE /\ l.holder \in Refs
                   /\ \E j \in 1 .. m :
                        /\ l.holder \in Declared(j)
                        /\ \E k \in 1 .. j : l.path.root \in Declared(k)
                        /\ \E k \in 1 .. j :
                             Strong(a.ledger[k][l.path], l.mode) /\ Firm(m, k, l.path)
          <5>1. PICK j \in 1 .. m :
                  /\ l.holder \in Declared(j)
                  /\ \E k \in 1 .. j : l.path.root \in Declared(k)
                  /\ \E k \in 1 .. j :
                       Strong(a.ledger[k][l.path], l.mode) /\ Firm(m, k, l.path)
            BY <4>2
          <5>2. \A k \in 1 .. j : k \in 1 .. m
            BY <1>1
          <5>3. l.holder \in Declared(j)' /\ \E k \in 1 .. j : l.path.root \in Declared(k)'
            BY <1>2, <5>1, <5>2
          <5>4. PICK k \in 1 .. j : Strong(a.ledger[k][l.path], l.mode) /\ Firm(m, k, l.path)
            BY <5>1
          <5>5. k \in 1 .. m /\ l.path \notin flow[k].base.transient
            BY <5>2, <5>4 DEF Firm
          <5>6. Strong(pal'.ledger[k][l.path], l.mode)
            BY <1>3, <4>1, <5>4, <5>5
          <5>7. Firm(m, k, l.path)'
            <6>1. k <= m - 1 => l.path \notin flow'[k].base.transient
              BY <1>1, <1>2, <5>5
            <6>2. \A h \in k .. m - 1 : ~Loops(h, l.path)'
              <7>1. \A h \in k .. m - 1 : h \in 1 .. m - 1
                BY <1>1, <5>5
              <7> QED BY <1>6, <5>4, <7>1 DEF Firm
            <6> QED BY <1>2, <1>3, <6>1, <6>2 DEF Firm
          <5> QED BY <4>2, <5>1, <5>3, <5>6, <5>7 DEF OnRecord, Strong
        <4>3. CASE /\ l.holder \in Values /\ l.mode = "Shared"
                   /\ \E j \in 1 .. m :
                        l.holder \in Declared(j) /\ l.path \in a.carriers[j][l.holder]
          <5>1. PICK j \in 1 .. m :
                  l.holder \in Declared(j) /\ l.path \in a.carriers[j][l.holder]
            BY <4>3
          <5>2. l.holder \in Declared(j)' /\ l.path \in pal'.carriers[j][l.holder]
            BY <1>2, <1>3, <5>1
          <5> QED BY <4>3, <5>2 DEF OnRecord
        <4> QED BY <1>1, <4>1, <4>2, <4>3 DEF OnRecord
      <3>4. ~(i <= m - 1)
        BY <1>1, <2>2
      <3> QED BY <2>2, <3>2, <3>3, <3>4
    <2> QED BY <2>1, <2>2
  <1>11. Sound'
    BY DropMisses
  <1> QED BY <1>2, <1>5, <1>7, <1>8, <1>9, <1>10, <1>11 DEF PALInv

\* Where the execution is when an arm ends that it could be in, and what it holds:
\* it was in the arm, or it was not and is at the point before or after the others.
LEMMA ArmTaken ==
    ASSUME PALInv, flow # <<>>, NEW m, m = Len(flow),
           NEW jump \in {0, 1}, LeaveScope(jump), ArmLoans(jump), exec' = "on",
           \A i \in 1 .. m - 1 : RunsIn(i), NEW l \in loans'
    PROVE  /\ l.path \in Paths
           /\ \/ /\ RunsIn(m) /\ jump = 0 /\ OnRecord(ArmEnd, m, l)
                 /\ l.holder \in Refs => ~Loops(m, l.path)
              \/ /\ ~RunsIn(m) /\ OnRecord(Point(m), m, l)
                 /\ flow[m].arm = 2 => flow[m].jumped = 0
  <1>1. m \in Nat \ {0} /\ Depth = m + 1 /\ exec = "on" /\ stmt = "none"
    BY ArmEndIs, OpsStay DEF LeaveScope
  <1>2. CASE RunsIn(m)
    <2>1. Live
      BY <1>1, <1>2 DEF Live, RunsIn
    <2>2. jump = 0
      BY <2>1 DEF ArmLoans
    <2>3. l \in loans /\ l.holder \notin Declared(Depth)
      BY <2>1, <2>2 DEF ArmLoans, SetLoans, Without
    <2>4. OnRecord(ArmEnd, m, l) /\ (l.holder \in Refs => ~Loops(m, l.path))
      BY <1>1, <2>1, <2>3, ArmRecord
    <2>5. l.path \in Paths
      BY <2>3 DEF PALInv, Shape
    <2> QED BY <1>2, <2>2, <2>4, <2>5
  <1>3. CASE ~RunsIn(m)
    <2>1. ~Live
      BY <1>1, <1>3 DEF Live, RunsIn
    <2>2. l \in loans
      BY <2>1 DEF ArmLoans, SetLoans
    <2>3. At(m) /\ m \in 1 .. Depth /\ m <= Len(flow)
      BY <1>1, <1>3 DEF At
    <2>4. OnRecord(Point(m), m, l) /\ (flow[m].arm = 2 => flow[m].jumped = 0)
      BY <1>1, <2>2, <2>3 DEF PALInv, LoanInv
    <2>5. l.path \in Paths
      BY <2>2 DEF PALInv, Shape
    <2> QED BY <1>3, <2>4, <2>5
  <1> QED BY <1>2, <1>3

\* A block ends.
LEMMA EndBlockStep ==
    ASSUME PALInv, EndBlock PROVE PALInv'
  <1>1. /\ flow # <<>> /\ LeaveScope(0) /\ PopFlow /\ PopScopes /\ stmt' = stmt
        /\ ArmLoans(0) /\ pal' = ArmEnd /\ Top.kind = "block"
    BY DEF EndBlock
  <1>2. PICK m : m = Len(flow)
    OBVIOUS
  <1>3. PICK a : a = ArmEnd
    OBVIOUS
  <1>4. m \in Nat \ {0} /\ Depth = m + 1 /\ Top = flow[m] /\ Snapshot(a, m) /\ Checker(a, m)
        /\ a.transient = {}
    BY <1>1, <1>2, <1>3, ArmEndIs
  <1>5. RunsIn(m)
    <2>1. FrameInv(m) /\ flow[m] \in Frames
      BY <1>2, <1>4, Sizes DEF PALInv
    <2>2. flow[m].arm \in {1, 2}
      BY <2>1 DEF Frames
    <2> QED BY <1>1, <1>4, <2>1, <2>2 DEF FrameInv, RunsIn
  <1>6. ASSUME \A i \in 1 .. m - 1 : RunsIn(i), exec' = "on", NEW l \in loans'
        PROVE  OnRecord(a, m, l)
    <2>1. 0 \in {0, 1}
      OBVIOUS
    <2> QED BY <1>1, <1>2, <1>3, <1>5, <1>6, <2>1, ArmTaken
  <1>7. pal' = Cleared(a)
    <2>1. PICK s : s = Popped(pal)
      OBVIOUS
    <2>2. a = Cleared(s) /\ Checker(s, m)
      BY <1>3, <1>4, <2>1, Sizes, PoppedIs DEF ArmEnd
    <2>3. Cleared(a) = a
      <3> DEFINE led == [a.ledger EXCEPT ![Len(a.ledger)] = [p \in Paths |-> a.ledger[m][p]]]
      <3>1. Cleared(a) = WithMarkers(a, led, {})
        BY <1>4 DEF Cleared, WithMarkers, Checker, PALStates
      <3>2. a.ledger \in Seq([Paths -> PathStates]) /\ Len(a.ledger) = m
            /\ a.ledger[m] \in [Paths -> PathStates]
        BY <1>4, CheckerTypes DEF Checker
      <3>3. [p \in Paths |-> a.ledger[m][p]] = a.ledger[m]
        BY <3>2
      <3>4. led = a.ledger
        BY <1>4, <3>2, <3>3
      <3> HIDE DEF led
      <3>5. WithMarkers(a, a.ledger, {}) = a
        BY <1>4 DEF WithMarkers, Checker, PALStates
      <3> QED BY <3>1, <3>4, <3>5
    <2> QED BY <1>1, <1>3, <2>3
  <1>8. 0 \in {0, 1} /\ a.transient \subseteq flow[m].base.transient
    BY <1>4
  <1> QED BY <1>1, <1>2, <1>4, <1>6, <1>7, <1>8, EndStep

\* An if with both arms ends.
LEMMA EndIfStep ==
    ASSUME PALInv, NEW jump \in {0, 1}, EndIf(jump) PROVE PALInv'
  <1>1. /\ flow # <<>> /\ LeaveScope(jump) /\ PopFlow /\ PopScopes /\ stmt' = stmt
        /\ ArmLoans(jump) /\ Top.kind = "if" /\ Top.arm = 2
    BY DEF EndIf
  <1>2. PICK m : m = Len(flow)
    OBVIOUS
  <1>3. PICK e : e = ArmEnd
    OBVIOUS
  <1>4. PICK f, b : f = flow[m].first /\ b = flow[m].base
    OBVIOUS
  <1>5. m \in Nat \ {0} /\ Depth = m + 1 /\ Top = flow[m] /\ Snapshot(e, m) /\ Checker(e, m)
        /\ e.transient = {}
    BY <1>1, <1>2, <1>3, ArmEndIs
  <1>6. /\ Snapshot(f, m) /\ Checker(f, m) /\ f.transient = {}
        /\ Snapshot(b, m) /\ flow[m].jumped \in {0, 1}
    <2>1. FrameInv(m) /\ flow[m] \in Frames
      BY <1>2, <1>5, Sizes DEF PALInv
    <2> QED BY <1>1, <1>4, <1>5, <2>1 DEF FrameInv, Snapshot, Frames
  <1>7. PICK a : a = CASE Top.jumped = 1 /\ jump = 1 -> Top.base
                       [] Top.jumped = 1 /\ jump = 0 -> ArmEnd
                       [] Top.jumped = 0 /\ jump = 1 -> Top.first
                       [] OTHER -> Merged(Top.first, ArmEnd)
    OBVIOUS
  <1>8. pal' = Cleared(a)
    BY <1>7 DEF EndIf
  <1>9. /\ flow[m].jumped = 1 /\ jump = 1 => a = b
        /\ flow[m].jumped = 1 /\ jump = 0 => a = e
        /\ flow[m].jumped = 0 /\ jump = 1 => a = f
        /\ flow[m].jumped = 0 /\ jump = 0 => a = Merged(f, e)
    BY <1>3, <1>4, <1>5, <1>7
  <1>10. Snapshot(a, m) /\ a.transient \subseteq b.transient
    <2>1. CASE flow[m].jumped = 0 /\ jump = 0
      <3>1. Snapshot(Merged(f, e), m)
        BY <1>5, <1>6, MergedSnapshot
      <3>2. Merged(f, e).transient = f.transient \cup e.transient
        BY <1>5, <1>6, MergedIs
      <3> QED BY <1>5, <1>6, <1>9, <2>1, <3>1, <3>2
    <2>2. CASE ~(flow[m].jumped = 0 /\ jump = 0)
      BY <1>5, <1>6, <1>9, <2>2
    <2> QED BY <2>1, <2>2
  <1>11. ASSUME \A i \in 1 .. m - 1 : RunsIn(i), exec' = "on", NEW l \in loans'
         PROVE  OnRecord(a, m, l)
    <2>1. /\ l.path \in Paths
          /\ \/ RunsIn(m) /\ jump = 0 /\ OnRecord(e, m, l)
             \/ ~RunsIn(m) /\ OnRecord(f, m, l) /\ flow[m].jumped = 0
      <3>1. Point(m) = f
        BY <1>1, <1>4, <1>5 DEF Point
      <3> QED BY <1>1, <1>2, <1>3, <1>5, <1>11, <3>1, ArmTaken
    <2>2. CASE flow[m].jumped = 0 /\ jump = 0
      <3>1. PICK r : r = Merged(f, e)
        OBVIOUS
      <3>2. \A k \in 1 .. m :
              /\ \A q \in Paths : \A mode : Strong(f.ledger[k][q], mode) \/ Strong(e.ledger[k][q], mode)
                                          => Strong(r.ledger[k][q], mode)
              /\ \A v \in Values : /\ f.carriers[k][v] \subseteq r.carriers[k][v]
                                   /\ e.carriers[k][v] \subseteq r.carriers[k][v]
        BY <1>5, <1>6, <3>1, MergedGrows
      <3>3. /\ \A k \in 1 .. m : Strong(e.ledger[k][l.path], l.mode)
                                  => Strong(r.ledger[k][l.path], l.mode)
            /\ \A k \in 1 .. m, v \in Values : e.carriers[k][v] \subseteq r.carriers[k][v]
        BY <2>1, <3>2
      <3>4. /\ \A k \in 1 .. m : Strong(f.ledger[k][l.path], l.mode)
                                  => Strong(r.ledger[k][l.path], l.mode)
            /\ \A k \in 1 .. m, v \in Values : f.carriers[k][v] \subseteq r.carriers[k][v]
        BY <2>1, <3>2
      <3>5. m \in Nat /\ m # Depth
        BY <1>5
      <3>6. OnRecord(e, m, l) => OnRecord(r, m, l)
        BY <2>1, <3>3, <3>5, RecordGrows
      <3>7. OnRecord(f, m, l) => OnRecord(r, m, l)
        BY <2>1, <3>4, <3>5, RecordGrows
      <3> QED BY <1>9, <2>1, <2>2, <3>1, <3>6, <3>7
    <2>3. CASE ~(flow[m].jumped = 0 /\ jump = 0)
      BY <1>6, <1>9, <2>1, <2>3
    <2> QED BY <2>2, <2>3
  <1>12. a.transient \subseteq flow[m].base.transient
    BY <1>4, <1>10
  <1> QED BY <1>1, <1>2, <1>8, <1>10, <1>11, <1>12, EndStep

\* The checker after an arm that may not be taken, and what is on record in it.
LEMMA OneArm ==
    ASSUME PALInv, flow # <<>>, NEW m, m = Len(flow), flow[m].arm = 1,
           NEW jump \in {0, 1}, LeaveScope(jump), ArmLoans(jump),
           NEW c, c = IF jump = 1 THEN Top.base ELSE Merged(ArmEnd, Top.base)
    PROVE  /\ Snapshot(c, m) /\ c.transient \subseteq flow[m].base.transient
           /\ (\A i \in 1 .. m - 1 : RunsIn(i)) /\ exec' = "on" =>
                \A l \in loans' : /\ l.path \in Paths /\ OnRecord(c, m, l)
                                  /\ l.holder \in Refs => ~Loops(m, l.path)
  <1>1. PICK e : e = ArmEnd
    OBVIOUS
  <1>2. PICK b : b = flow[m].base
    OBVIOUS
  <1>3. m \in Nat \ {0} /\ Depth = m + 1 /\ Top = flow[m] /\ Snapshot(e, m) /\ Checker(e, m)
        /\ e.transient = {}
    BY <1>1, ArmEndIs
  <1>4. FrameInv(m) /\ Snapshot(b, m) /\ Checker(b, m)
    <2>1. FrameInv(m)
      BY <1>3 DEF PALInv
    <2>2. Snapshot(b, m)
      BY <1>2, <2>1 DEF FrameInv
    <2> QED BY <2>1, <2>2 DEF Snapshot
  <1>5. PICK r : r = Merged(e, b)
    OBVIOUS
  <1>6. /\ jump = 1 => c = b
        /\ jump = 0 => c = r
    BY <1>1, <1>2, <1>3, <1>5
  <1>7. Snapshot(r, m) /\ r.transient = b.transient
    <2>1. Snapshot(r, m)
      BY <1>3, <1>4, <1>5, MergedSnapshot
    <2>2. Merged(e, b).transient = e.transient \cup b.transient
      BY DEF Merged
    <2> QED BY <1>3, <1>5, <2>1, <2>2
  <1>8. ASSUME \A i \in 1 .. m - 1 : RunsIn(i), exec' = "on", NEW l \in loans'
        PROVE  /\ l.path \in Paths /\ OnRecord(c, m, l)
               /\ l.holder \in Refs => ~Loops(m, l.path)
    <2>1. /\ l.path \in Paths
          /\ \/ /\ RunsIn(m) /\ jump = 0 /\ OnRecord(e, m, l)
                /\ l.holder \in Refs => ~Loops(m, l.path)
             \/ ~RunsIn(m) /\ OnRecord(b, m, l)
      <3>1. Point(m) = b
        BY <1>2, <1>3 DEF Point
      <3> QED BY <1>1, <1>8, <3>1, ArmTaken
    <2>2. \A k \in 1 .. m :
            /\ \A q \in Paths : \A mode : Strong(e.ledger[k][q], mode) \/ Strong(b.ledger[k][q], mode)
                                        => Strong(r.ledger[k][q], mode)
            /\ \A v \in Values : /\ e.carriers[k][v] \subseteq r.carriers[k][v]
                                 /\ b.carriers[k][v] \subseteq r.carriers[k][v]
      BY <1>3, <1>4, <1>5, MergedGrows
    <2>3. m \in Nat /\ m # Depth
      BY <1>3
    <2>4. OnRecord(e, m, l) => OnRecord(r, m, l)
      <3>1. /\ \A k \in 1 .. m : Strong(e.ledger[k][l.path], l.mode)
                                   => Strong(r.ledger[k][l.path], l.mode)
            /\ \A k \in 1 .. m, v \in Values : e.carriers[k][v] \subseteq r.carriers[k][v]
        BY <2>1, <2>2
      <3> QED BY <2>1, <2>3, <3>1, RecordGrows
    <2>5. OnRecord(b, m, l) => OnRecord(r, m, l)
      <3>1. /\ \A k \in 1 .. m : Strong(b.ledger[k][l.path], l.mode)
                                   => Strong(r.ledger[k][l.path], l.mode)
            /\ \A k \in 1 .. m, v \in Values : b.carriers[k][v] \subseteq r.carriers[k][v]
        BY <2>1, <2>2
      <3> QED BY <2>1, <2>3, <3>1, RecordGrows
    <2>6. OnRecord(c, m, l)
      BY <1>6, <2>1, <2>4, <2>5
    <2>7. OnRecord(b, m, l) /\ l.holder \in Refs => ~Loops(m, l.path)
      <3>1. SUFFICES ASSUME OnRecord(b, m, l), l.holder \in Refs, Loops(m, l.path)
                     PROVE  FALSE
        OBVIOUS
      <3>2. PICK i \in 1 .. m : \E k \in 1 .. i : Strong(b.ledger[k][l.path], l.mode)
        BY <2>3, <3>1, PALAssumption DEF OnRecord
      <3>3. PICK k \in 1 .. i : Strong(b.ledger[k][l.path], l.mode)
        BY <3>2
      <3>4. k \in 1 .. m
        BY <1>3, <3>2, <3>3
      <3>5. b.ledger[k][l.path] = "Free"
        BY <1>2, <1>4, <2>1, <3>1, <3>4 DEF FrameInv
      <3> QED BY <3>3, <3>5 DEF Strong
    <2> QED BY <2>1, <2>6, <2>7
  <1>9. Snapshot(c, m) /\ c.transient \subseteq flow[m].base.transient
    BY <1>2, <1>4, <1>6, <1>7
  <1> QED BY <1>8, <1>9

\* An if without else ends.
LEMMA EndThenStep ==
    ASSUME PALInv, NEW jump \in {0, 1}, EndThen(jump) PROVE PALInv'
  <1>1. /\ flow # <<>> /\ LeaveScope(jump) /\ PopFlow /\ PopScopes /\ stmt' = stmt
        /\ ArmLoans(jump) /\ Top.kind = "if" /\ Top.arm = 1
    BY DEF EndThen
  <1>2. PICK m : m = Len(flow)
    OBVIOUS
  <1>3. PICK c : c = IF jump = 1 THEN Top.base ELSE Merged(ArmEnd, Top.base)
    OBVIOUS
  <1>4. flow[m].arm = 1
    BY <1>1, <1>2 DEF Top
  <1>5. /\ Snapshot(c, m) /\ c.transient \subseteq flow[m].base.transient
        /\ (\A i \in 1 .. m - 1 : RunsIn(i)) /\ exec' = "on" =>
             \A l \in loans' : OnRecord(c, m, l)
    BY <1>1, <1>2, <1>3, <1>4, OneArm
  <1>6. pal' = Cleared(c)
    BY <1>3 DEF EndThen
  <1> QED BY <1>1, <1>2, <1>5, <1>6, EndStep

\* A loop ends, and gives the collection back.
LEMMA EndForStep ==
    ASSUME PALInv, NEW jump \in {0, 1}, EndFor(jump) PROVE PALInv'
  <1>1. /\ flow # <<>> /\ LeaveScope(jump) /\ PopFlow /\ PopScopes /\ stmt' = stmt
        /\ ArmLoans(jump) /\ Top.kind = "for"
    BY DEF EndFor
  <1>2. PICK m : m = Len(flow)
    OBVIOUS
  <1>3. PICK c : c = IF jump = 1 THEN Top.base ELSE Merged(ArmEnd, Top.base)
    OBVIOUS
  <1>4. m \in Nat \ {0} /\ Depth = m + 1 /\ Top = flow[m]
    BY <1>1, <1>2, ArmEndIs
  <1>5. FrameInv(m) /\ flow[m] \in Frames
    BY <1>2, <1>4, Sizes DEF PALInv
  <1>6. flow[m].arm = 1 /\ flow[m].added \in {0, 1} /\ flow[m].source \in Paths
    BY <1>1, <1>4, <1>5 DEF FrameInv, Frames
  <1>7. /\ Snapshot(c, m) /\ c.transient \subseteq flow[m].base.transient
        /\ (\A i \in 1 .. m - 1 : RunsIn(i)) /\ exec' = "on" =>
             \A l \in loans' : /\ l.path \in Paths /\ OnRecord(c, m, l)
                               /\ l.holder \in Refs => ~Loops(m, l.path)
    BY <1>1, <1>2, <1>3, <1>6, OneArm
  <1>8. CASE flow[m].added # 1
    <2>1. pal' = Cleared(c)
      BY <1>3, <1>4, <1>8 DEF EndFor
    <2> QED BY <1>1, <1>2, <1>7, <2>1, EndStep
  <1>9. CASE flow[m].added = 1
    <2>1. PICK p \in Paths : p = flow[m].source
      BY <1>6
    <2>2. Loops(m, p)
      BY <1>1, <1>4, <1>9, <2>1 DEF Loops
    <2>3. PICK a : a = ReleasedBorrow(c, p)
      OBVIOUS
    <2>4. pal' = Cleared(a)
      BY <1>3, <1>4, <1>9, <2>1, <2>3 DEF EndFor
    <2>5. /\ Checker(a, m)
          /\ \A k \in 1 .. m, q \in Paths :
               a.ledger[k][q] = IF q = p THEN "Free" ELSE c.ledger[k][q]
          /\ a.carriers = c.carriers
          /\ a.transient = c.transient \ {p}
      BY <1>4, <1>7, <2>3, ReleasedBorrowIs DEF Snapshot
    <2>6. Snapshot(a, m)
      <3>1. ASSUME NEW j \in 1 .. m - 1, NEW k \in 1 .. j, NEW q \in Paths, Lent(j, k, q)
            PROVE  a.ledger[k][q] # "Free"
        <4>1. k \in 1 .. m /\ c.ledger[k][q] # "Free"
          BY <1>4, <1>7, <3>1 DEF Snapshot
        <4>2. flow[m].base.ledger[k][q] # "Free"
          BY <1>5, <3>1 DEF FrameInv, Snapshot
        <4>3. q # p
          BY <1>5, <2>2, <4>1, <4>2 DEF FrameInv
        <4> QED BY <2>5, <4>1, <4>3
      <3>2. ASSUME NEW j \in 1 .. m - 1, NEW q \in Paths, Exclusive(j, q)
            PROVE  a.ledger[j][q] = "Mut"
        <4>1. j \in 1 .. m /\ c.ledger[j][q] = "Mut"
          BY <1>4, <1>7, <3>2 DEF Snapshot
        <4>2. flow[m].base.ledger[j][q] = "Mut"
          BY <1>5, <3>2 DEF FrameInv, Snapshot
        <4>3. q # p
          BY <1>5, <2>2, <4>1, <4>2 DEF FrameInv
        <4> QED BY <2>5, <4>1, <4>3
      <3> QED BY <1>7, <2>5, <3>1, <3>2 DEF Snapshot
    <2>7. ASSUME \A i \in 1 .. m - 1 : RunsIn(i), exec' = "on", NEW l \in loans'
          PROVE  OnRecord(a, m, l)
      <3>1. /\ l.path \in Paths /\ OnRecord(c, m, l)
            /\ l.holder \in Refs => l.path # p
        BY <1>7, <2>2, <2>7
      <3>2. m \in Nat /\ m # Depth
        BY <1>4
      <3>3. l.holder \in Refs => \A k \in 1 .. m :
              Strong(c.ledger[k][l.path], l.mode) => Strong(a.ledger[k][l.path], l.mode)
        BY <2>5, <3>1
      <3>4. \A k \in 1 .. m, v \in Values : c.carriers[k][v] \subseteq a.carriers[k][v]
        BY <2>5
      <3> QED BY <3>1, <3>2, <3>3, <3>4, RecordGrows
    <2>8. a.transient \subseteq flow[m].base.transient
      BY <1>7, <2>5
    <2> QED BY <1>1, <1>2, <2>4, <2>6, <2>7, <2>8, EndStep
  <1> QED BY <1>8, <1>9

\* The then-arm of an if ends and its else-arm follows.
LEMMA ElseStep ==
    ASSUME PALInv, NEW jump \in {0, 1}, Else(jump) PROVE PALInv'
  <1>1. /\ flow # <<>> /\ LeaveScope(jump) /\ stmt' = stmt /\ ArmLoans(jump)
        /\ Top.kind = "if" /\ Top.arm = 1 /\ pal' = Pushed(Top.base)
        /\ scopes' = [scopes EXCEPT ![Depth] = <<>>]
        /\ flow' = [flow EXCEPT ![Len(flow)].arm = 2, ![Len(flow)].first = ArmEnd,
                                ![Len(flow)].jumped = jump]
    BY DEF Else
  <1>2. PICK m : m = Len(flow)
    OBVIOUS
  <1>3. PICK e, b : e = ArmEnd /\ b = flow[m].base
    OBVIOUS
  <1>4. /\ m \in Nat \ {0} /\ Depth = m + 1 /\ Top = flow[m]
        /\ Snapshot(e, m) /\ Checker(e, m) /\ e.transient = {}
    BY <1>1, <1>2, <1>3, ArmEndIs
  <1>5. /\ FrameInv(m) /\ flow[m] \in Frames /\ flow \in Seq(Frames)
        /\ Snapshot(b, m) /\ Checker(b, m) /\ Marked(b, m)
        /\ flow[m].kind = "if" /\ flow[m].arm = 1 /\ flow[m].runs \in {1, 2}
    <2>1. FrameInv(m) /\ flow[m] \in Frames /\ flow \in Seq(Frames)
      BY <1>2, <1>4, Sizes DEF PALInv, Shape
    <2> QED BY <1>1, <1>3, <1>4, <2>1 DEF FrameInv, Snapshot, Frames
  <1>6. PICK g : g = [flow[m] EXCEPT !.arm = 2, !.first = e, !.jumped = jump]
    OBVIOUS
  <1>7. /\ g \in Frames /\ g.kind = "if" /\ g.base = b /\ g.first = e /\ g.arm = 2
        /\ g.runs = flow[m].runs /\ g.jumped = jump
    BY <1>3, <1>4, <1>5, <1>6 DEF Frames, Checker
  <1>8. flow' = [flow EXCEPT ![m] = g]
    BY <1>1, <1>2, <1>3, <1>4, <1>5, <1>6
  <1>9. /\ flow' \in Seq(Frames) /\ Len(flow') = m /\ flow'[m] = g
        /\ \A j \in 1 .. m - 1 : flow'[j] = flow[j]
    BY <1>2, <1>4, <1>5, <1>7, <1>8
  <1>10. /\ scopes' \in Seq(Seq(Roots \cup Holders)) /\ Depth' = m + 1
         /\ \A k \in 1 .. m : Declared(k)' = Declared(k)
         /\ Declared(m + 1)' = {}
    <2> DEFINE names == Seq(Roots \cup Holders)
    <2>1. scopes \in Seq(names) /\ Len(scopes) = m + 1 /\ <<>> \in names
          /\ scopes' = [scopes EXCEPT ![m + 1] = <<>>]
      BY <1>1, <1>4 DEF PALInv, Shape, Depth
    <2> HIDE DEF names
    <2>2. /\ scopes' \in Seq(names) /\ Len(scopes') = m + 1 /\ scopes'[m + 1] = <<>>
          /\ \A k \in 1 .. m : scopes'[k] = scopes[k]
      BY <1>4, <2>1
    <2>3. Depth' = m + 1 /\ Declared(m + 1)' = {}
      BY <2>2 DEF Depth, Declared
    <2>4. \A k \in 1 .. m : Declared(k)' = Declared(k)
      BY <2>2 DEF Declared
    <2> QED BY <2>2, <2>3, <2>4 DEF names
  <1>11. /\ Checker(pal', m + 1)
         /\ \A k \in 1 .. m : pal'.ledger[k] = b.ledger[k] /\ pal'.carriers[k] = b.carriers[k]
         /\ pal'.carriers[m + 1] = NoCarriers
         /\ pal'.transient = b.transient
    <2>1. pal' = Pushed(b)
      BY <1>1, <1>3, <1>4
    <2> QED BY <1>4, <1>5, <2>1, PushedIs
  <1>12. /\ exec = "on" /\ ops' \in 0 .. MaxOps /\ dead' \subseteq Roots /\ stmt' = "none"
         /\ exec' \in {"on", "gone"}
         /\ loans' \subseteq [holder : Holders \cup {Temp}, path : Paths, mode : Modes]
         /\ ~Live => loans' = loans
    <2>1. exec = "on" /\ ops' \in 0 .. MaxOps
      BY <1>1, OpsStay DEF LeaveScope
    <2>2. dead' \subseteq Roots /\ stmt' = "none" /\ exec' \in {"on", "gone"}
      BY <1>1 DEF LeaveScope, ArmLoans, PALInv, Shape
    <2>3. /\ loans' \subseteq [holder : Holders \cup {Temp}, path : Paths, mode : Modes]
          /\ ~Live => loans' = loans
      BY <1>1 DEF ArmLoans, SetLoans, Without, PALInv, Shape
    <2> QED BY <2>1, <2>2, <2>3
  <1>13. Shape'
    BY <1>4, <1>9, <1>10, <1>12 DEF Shape
  <1>14. OneScope'
    <2>1. SUFFICES ASSUME NEW j \in 1 .. m + 1, NEW k \in 1 .. m + 1, j # k
                   PROVE  Declared(j)' \cap Declared(k)' = {}
      BY <1>10 DEF OneScope
    <2>2. CASE j = m + 1 \/ k = m + 1
      BY <1>10, <2>2
    <2>3. CASE j # m + 1 /\ k # m + 1
      <3>1. j \in 1 .. m /\ k \in 1 .. m /\ j \in 1 .. Depth /\ k \in 1 .. Depth
        BY <1>4, <2>3
      <3> QED BY <1>10, <2>1, <3>1 DEF OneScope, PALInv
    <2> QED BY <2>2, <2>3
  <1>15. /\ \A j \in 1 .. m - 1 : \A k, q : Lent(j, k, q)' = Lent(j, k, q)
         /\ \A j \in 1 .. m - 1 : \A q : Loops(j, q)' = Loops(j, q)
         /\ \A j \in 1 .. m - 1 : \A q : Exclusive(j, q)' = Exclusive(j, q)
    BY <1>9 DEF Lent, Loops, Exclusive
  <1>16. \A q : ~Loops(m, q)'
    BY <1>7, <1>9 DEF Loops
  <1>17. Snapshot(pal, Depth)'
    <2>1. ASSUME NEW j \in 1 .. m, NEW k \in 1 .. j, NEW q \in Paths, Lent(j, k, q)'
          PROVE  pal'.ledger[k][q] # "Free"
      <3>1. k \in 1 .. m
        BY <1>4
      <3>2. b.ledger[k][q] # "Free"
        <4>1. CASE j = m
          BY <1>7, <1>9, <1>16, <2>1, <4>1 DEF Lent
        <4>2. CASE j # m
          <5>1. j \in 1 .. m - 1
            BY <1>4, <4>2
          <5> QED BY <1>5, <1>15, <2>1, <5>1 DEF Snapshot
        <4> QED BY <4>1, <4>2
      <3> QED BY <1>11, <3>1, <3>2
    <2>2. ASSUME NEW k \in 1 .. m + 1, NEW v \in Values, pal'.carriers[k][v] # {}
          PROVE  v \in Declared(k)'
      <3>1. CASE k = m + 1
        BY <1>11, <2>2, <3>1 DEF NoCarriers
      <3>2. CASE k # m + 1
        <4>1. k \in 1 .. m
          BY <1>4, <3>2
        <4> QED BY <1>5, <1>10, <1>11, <2>2, <4>1 DEF Snapshot
      <3> QED BY <3>1, <3>2
    <2>3. ASSUME NEW j \in 1 .. m, NEW q \in Paths, Exclusive(j, q)'
          PROVE  pal'.ledger[j][q] = "Mut"
      <3>1. j \in 1 .. m - 1
        BY <1>4, <1>16, <2>3 DEF Exclusive
      <3>2. b.ledger[j][q] = "Mut"
        BY <1>5, <1>15, <2>3, <3>1 DEF Snapshot
      <3> QED BY <1>11, <3>2
    <2> QED BY <1>4, <1>10, <1>11, <2>1, <2>2, <2>3 DEF Snapshot, Checker
  <1>18. ASSUME NEW j \in 1 .. m PROVE FrameInv(j)'
    <2>1. CASE j # m
      <3>1. /\ j \in 1 .. Len(flow)
            /\ \A i \in 1 .. j : flow'[i] = flow[i] /\ Declared(i)' = Declared(i)
        BY <1>2, <1>4, <1>9, <1>10, <2>1, SMTT(20)
      <3> QED BY <3>1, FrameStays
    <2>2. CASE j = m
      <3>1. /\ Snapshot(b, m)' /\ Snapshot(e, m)'
        <4>1. \A i \in 1 .. m - 1 : \A k \in 1 .. i, q \in Paths : Lent(i, k, q)' => Lent(i, k, q)
          BY <1>15
        <4>2. \A i \in 1 .. m - 1, q \in Paths : Exclusive(i, q)' => Exclusive(i, q)
          BY <1>15
        <4> QED BY <1>4, <1>5, <1>10, <4>1, <4>2, SnapshotStays
      <3>2. Marked(b, m)'
        BY <1>4, <1>5, <1>10 DEF Marked
      <3> QED BY <1>4, <1>7, <1>9, <1>16, <2>2, <3>1, <3>2 DEF FrameInv
    <2> QED BY <2>1, <2>2
  <1>19. Markers'
    <2>1. Marked(pal, Depth)'
      BY <1>10 DEF Marked
    <2> QED BY <1>4, <1>7, <1>9, <1>11, <2>1 DEF Markers
  <1>20. LoanInv'
    <2> SUFFICES ASSUME exec' = "on", NEW i \in 1 .. m + 1, At(i)'
                 PROVE  /\ \A l \in loans' : OnRecord(Point(i), i, l)'
                        /\ i <= m /\ flow'[i].arm = 2 => flow'[i].jumped = 0
      BY <1>9, <1>10 DEF LoanInv
    <2>1. \A j \in 1 .. m - 1 : RunsIn(j)' = RunsIn(j)
      BY <1>9 DEF RunsIn
    <2>2. CASE i \in 1 .. m - 1
      <3>1. /\ i \in 1 .. Len(flow) /\ i # Depth' /\ i <= Len(flow')
            /\ \A k \in 1 .. i : k # Depth'
            /\ \A j \in 1 .. i : flow'[j] = flow[j] /\ Declared(j)' = Declared(j)
        BY <1>2, <1>4, <1>9, <1>10, <2>2
      <3>2. /\ ~Live
            /\ \A l \in loans : OnRecord(Point(i), i, l)'
            /\ flow'[i].arm = 2 => flow'[i].jumped = 0
        BY <1>12, <3>1, OuterStays
      <3> QED BY <1>12, <3>2
    <2>3. CASE i \in {m, m + 1}
      <3>1. \A j \in 1 .. m - 1 : RunsIn(j)
        BY <1>4, <2>1, <2>3 DEF At
      <3>2. RunsIn(m) <=> i = m
        <4>1. CASE i = m
          <5>1. ~RunsIn(m)'
            BY <1>9, <4>1 DEF At
          <5> QED BY <1>5, <1>7, <1>9, <4>1, <5>1 DEF RunsIn
        <4>2. CASE i = m + 1
          <5>1. RunsIn(m)'
            BY <1>4, <4>2 DEF At
          <5> QED BY <1>4, <1>5, <1>7, <1>9, <4>2, <5>1 DEF RunsIn
        <4> QED BY <2>3, <4>1, <4>2
      <3>3. PICK s : s = IF i = m THEN e ELSE b
        OBVIOUS
      <3>4. ASSUME NEW l \in loans'
            PROVE  /\ l.path \in Paths /\ OnRecord(s, m, l)
                   /\ i = m => jump = 0
        <4>1. Point(m) = b
          BY <1>3, <1>4, <1>5 DEF Point
        <4> QED BY <1>1, <1>2, <1>3, <3>1, <3>2, <3>3, <4>1, ArmTaken
      <3>5. i = m => jump = 0
        <4>1. i = m => Live
          BY <1>2, <1>4, <1>12, <3>1, <3>2 DEF Live, RunsIn
        <4> QED BY <1>1, <4>1 DEF ArmLoans
      <3>6. ASSUME NEW k \in 1 .. m, NEW q, Firm(m, k, q) PROVE Firm(i, k, q)'
        <4>1. q \notin flow'[k].base.transient
          <5>1. k <= Len(flow)
            BY <1>2, <1>4
          <5>2. q \notin flow[k].base.transient
            BY <3>6, <5>1 DEF Firm
          <5> QED BY <1>3, <1>4, <1>7, <1>9, <5>2
        <4>2. \A j \in k .. i - 1 : ~Loops(j, q)'
          <5>1. ASSUME NEW j \in k .. i - 1 PROVE ~Loops(j, q)'
            <6>1. CASE j = m
              BY <1>16, <6>1
            <6>2. CASE j # m
              <7>1. j \in k .. m - 1 /\ j \in 1 .. m - 1
                BY <1>4, <2>3, <5>1, <6>2
              <7> QED BY <1>15, <3>6, <7>1 DEF Firm
            <6> QED BY <6>1, <6>2
          <5> QED BY <5>1
        <4>3. k # m + 1
          BY <1>4
        <4> QED BY <1>10, <4>1, <4>2, <4>3 DEF Firm
      <3>7. PICK t : t = Point(i)'
        OBVIOUS
      <3>8. \A k \in 1 .. m : t.carriers[k] = s.carriers[k] /\ t.ledger[k] = s.ledger[k]
        BY <1>4, <1>7, <1>9, <1>10, <1>11, <2>3, <3>3, <3>7 DEF Point
      <3>9. ASSUME NEW l \in loans' PROVE OnRecord(t, i, l)'
        <4>1. CASE /\ l.holder \in Refs
                   /\ \E h \in 1 .. m :
                        /\ l.holder \in Declared(h)
                        /\ \E k \in 1 .. h : l.path.root \in Declared(k)
                        /\ \E k \in 1 .. h :
                             Strong(s.ledger[k][l.path], l.mode) /\ Firm(m, k, l.path)
          <5>1. PICK h \in 1 .. m :
                  /\ l.holder \in Declared(h)
                  /\ \E k \in 1 .. h : l.path.root \in Declared(k)
                  /\ \E k \in 1 .. h :
                       Strong(s.ledger[k][l.path], l.mode) /\ Firm(m, k, l.path)
            BY <4>1
          <5>2. \A k \in 1 .. h : k \in 1 .. m
            BY <1>4
          <5>3. l.holder \in Declared(h)' /\ \E k \in 1 .. h : l.path.root \in Declared(k)'
            BY <1>10, <5>1, <5>2
          <5>4. \E k \in 1 .. h : Strong(t.ledger[k][l.path], l.mode) /\ Firm(i, k, l.path)'
            BY <3>6, <3>8, <5>1, <5>2
          <5>5. h \in 1 .. i
            BY <1>4, <2>3
          <5> QED BY <4>1, <5>3, <5>4, <5>5 DEF OnRecord, Strong
        <4>2. CASE /\ l.holder \in Values /\ l.mode = "Shared"
                   /\ \E h \in 1 .. m :
                        l.holder \in Declared(h) /\ l.path \in s.carriers[h][l.holder]
          <5>1. PICK h \in 1 .. m :
                  l.holder \in Declared(h) /\ l.path \in s.carriers[h][l.holder]
            BY <4>2
          <5>2. h \in 1 .. i /\ l.holder \in Declared(h)' /\ l.path \in t.carriers[h][l.holder]
            BY <1>4, <1>10, <2>3, <3>8, <5>1
          <5> QED BY <4>2, <5>2 DEF OnRecord
        <4> QED BY <1>4, <3>4, <4>1, <4>2 DEF OnRecord
      <3>10. ASSUME NEW l \in loans' PROVE OnRecord(Point(i), i, l)'
        BY <3>7, <3>9
      <3>11. i <= m /\ flow'[i].arm = 2 => flow'[i].jumped = 0
        BY <1>4, <1>7, <1>9, <2>3, <3>5
      <3> QED BY <3>10, <3>11
    <2> QED BY <1>4, <2>2, <2>3
  <1>21. Sound'
    BY <1>1, DropMisses
  <1> QED BY <1>9, <1>13, <1>14, <1>17, <1>18, <1>19, <1>20, <1>21 DEF PALInv

-----------------------------------------------------------------------------
(* The theorems.                                                           *)

\* The invariant holds before the first statement.
LEMMA PALInvInit ==
    Init => PALInv
  <1> SUFFICES ASSUME Init PROVE PALInv
    OBVIOUS
  <1>1. scopes = << <<>> >> /\ flow = <<>> /\ Depth = 1 /\ Declared(1) = {}
    BY DEF Init, Depth, Declared
  <1>2. /\ NoLedger \in [Paths -> PathStates] /\ NoCarriers \in [Values -> SUBSET Paths]
        /\ \A v \in Values : NoCarriers[v] = {}
    BY DEF NoLedger, NoCarriers, PathStates
  <1>3. /\ pal.ledger = <<NoLedger>> /\ pal.carriers = <<NoCarriers>>
        /\ pal.transient = {} /\ pal.moved = {}
        /\ pal = [ledger |-> pal.ledger, carriers |-> pal.carriers,
                  transient |-> pal.transient, moved |-> pal.moved]
    BY DEF Init
  <1>4. Checker(pal, 1)
    <2>1. pal.ledger \in Seq([Paths -> PathStates]) /\ Len(pal.ledger) = 1
      BY <1>2, <1>3
    <2>2. pal.carriers \in Seq([Values -> SUBSET Paths]) /\ Len(pal.carriers) = 1
      BY <1>2, <1>3
    <2> QED BY <1>3, <2>1, <2>2 DEF Checker, PALStates
  <1>5. Shape
    <2>1. scopes \in Seq(Seq(Roots \cup Holders))
      BY <1>1
    <2> QED BY <1>1, <2>1, PALAssumption DEF Init, Shape
  <1>6. OneScope /\ Markers
    BY <1>1, <1>3 DEF OneScope, Markers, Marked
  <1>7. Snapshot(pal, Depth)
    BY <1>1, <1>2, <1>3, <1>4 DEF Snapshot
  <1>8. LoanInv /\ Sound
    BY <1>1 DEF Init, LoanInv, Sound
  <1> QED BY <1>1, <1>5, <1>6, <1>7, <1>8 DEF PALInv

\* Every step of the analysis keeps the invariant.
LEMMA PALInvNext ==
    ASSUME PALInv, Reborrows = 0, AliasedFors = 0, [Next]_vars PROVE PALInv'
  <1>1. CASE UNCHANGED vars
    <2>1. /\ pal' = pal /\ scopes' = scopes /\ flow' = flow /\ stmt' = stmt /\ dead' = dead
          /\ loans' = loans /\ exec' = exec /\ clash' = clash /\ ops' = ops
      BY <1>1 DEF vars
    <2>2. /\ Depth' = Depth
          /\ \A k : Declared(k)' = Declared(k)
          /\ \A j, q : Loops(j, q)' = Loops(j, q) /\ Exclusive(j, q)' = Exclusive(j, q)
          /\ \A j, k, q : Lent(j, k, q)' = Lent(j, k, q)
          /\ \A n, k, q : Firm(n, k, q)' = Firm(n, k, q)
      <3>1. Depth' = Depth /\ \A k : Declared(k)' = Declared(k)
        BY <2>1 DEF Depth, Declared
      <3>2. \A j, q : Loops(j, q)' = Loops(j, q) /\ Exclusive(j, q)' = Exclusive(j, q)
        BY <2>1 DEF Loops, Exclusive
      <3>3. \A j, k, q : Lent(j, k, q)' = Lent(j, k, q)
        BY <2>1, <3>2 DEF Lent
      <3>4. \A n, k, q : Firm(n, k, q)' = Firm(n, k, q)
        BY <2>1, <3>1, <3>2 DEF Firm
      <3> QED BY <3>1, <3>2, <3>3, <3>4
    <2>3. \A s, n : Snapshot(s, n)' = Snapshot(s, n) /\ Marked(s, n)' = Marked(s, n)
      BY <2>2 DEF Snapshot, Marked, Checker
    <2>4. \A s, n, l : OnRecord(s, n, l)' = OnRecord(s, n, l)
      BY <2>1, <2>2 DEF OnRecord, Strong
    <2>5. \A j \in 1 .. Len(flow) : FrameInv(j)'
      BY <2>1, <2>2, <2>3 DEF PALInv, FrameInv
    <2>6. LoanInv'
      BY <2>1, <2>2, <2>4 DEF PALInv, LoanInv, At, RunsIn, Point
    <2>7. Shape' /\ OneScope' /\ Markers' /\ Sound' /\ Snapshot(pal, Depth)'
      BY <2>1, <2>2, <2>3 DEF PALInv, Shape, OneScope, Markers, Sound
    <2> QED BY <2>1, <2>5, <2>6, <2>7 DEF PALInv
  <1>2. CASE EndStmt
    BY <1>2, EndStmtStep
  <1>3. CASE Block
    <2>1. "block" \in {"block", "if"} /\ 1 \in {1, 2} /\ Enter(Frame("block", 1)) /\ pal' = Pushed(pal)
          /\ clash' = clash
      BY <1>3 DEF Block
    <2> QED BY <2>1, OpenStep
  <1>4. CASE EndBlock
    BY <1>4, EndBlockStep
  <1>5. ASSUME NEW x \in Roots, DeclareRoot(x) \/ Move(x) PROVE PALInv'
    BY <1>5, DeclareRootStep, MoveStep
  <1>6. ASSUME NEW p \in Paths, Read(p) \/ Write(p) PROVE PALInv'
    BY <1>6, AccessStep
  <1>7. ASSUME NEW p \in Paths, NEW mode \in Modes, Borrow(p, mode) PROVE PALInv'
    BY <1>7, BorrowStep
  <1>8. ASSUME NEW r \in Refs, NEW p \in Paths, NEW mode \in Modes,
               LetRef(r, p, mode) \/ AssignRef(r, p, mode)
        PROVE  PALInv'
    BY <1>8, LetRefStep, AssignRefStep
  <1>9. ASSUME NEW v \in Values, CedeValue(v) PROVE PALInv'
    BY <1>9, CedeValueStep
  <1>10. ASSUME NEW v \in Values, BindValue(v, {}) \/ \E p \in Paths : BindValue(v, {p})
         PROVE  PALInv'
    <2>1. PICK sources : sources \in PathSets /\ BindValue(v, sources)
      BY <1>10 DEF PathSets
    <2> QED BY <2>1, BindValueStep
  <1>11. ASSUME NEW v \in DropReads, NEW p \in Paths, Accumulate(v, p) PROVE PALInv'
    BY <1>11, AccumulateStep, PALAssumption
  <1>12. ASSUME NEW run \in {1, 2},
                If(run) \/ \E p \in Paths, mode \in Modes : For(p, mode, run)
         PROVE  PALInv'
    <2>1. CASE If(run)
      <3>1. "if" \in {"block", "if"} /\ Enter(Frame("if", run)) /\ pal' = Pushed(pal)
            /\ clash' = clash
        BY <2>1 DEF If
      <3> QED BY <3>1, OpenStep
    <2>2. CASE \E p \in Paths, mode \in Modes : For(p, mode, run)
      BY <2>2, ForStep
    <2> QED BY <1>12, <2>1, <2>2
  <1>13. ASSUME NEW jump \in {0, 1},
                Else(jump) \/ EndIf(jump) \/ EndThen(jump) \/ EndFor(jump)
         PROVE  PALInv'
    BY <1>13, ElseStep, EndIfStep, EndThenStep, EndForStep
  <1> QED BY <1>1, <1>2, <1>3, <1>4, <1>5, <1>6, <1>7, <1>8, <1>9, <1>10, <1>11, <1>12, <1>13
          DEF Next

\* What the invariant says of a loan is what LoansCovered asks.
LEMMA PALInvCovers ==
    ASSUME PALInv PROVE LoansCovered
  <1> SUFFICES ASSUME Live, NEW l \in Held PROVE CoveredIn(pal, l)
    BY DEF LoansCovered
  <1>1. /\ Depth \in Nat \ {0} /\ Len(flow) = Depth - 1 /\ OneScope
        /\ Len(pal.ledger) = Depth /\ Refs \cap Values = {} /\ Temp \notin Refs \cup Values
    BY Sizes, PALAssumption DEF PALInv, Checker
  <1>2. CASE l \in loans
    <2>1. OnRecord(pal, Depth, l)
      BY <1>2, LiveRecord
    <2>2. CASE l.holder = Temp /\ Strong(pal.ledger[Depth][l.path], l.mode)
      BY <1>1, <2>2 DEF CoveredIn, Strong
    <2>3. CASE /\ l.holder \in Refs
               /\ \E m \in 1 .. Depth :
                    /\ l.holder \in Declared(m)
                    /\ \E k \in 1 .. m : Strong(pal.ledger[k][l.path], l.mode)
      <3>1. PICK m \in 1 .. Depth :
              /\ l.holder \in Declared(m)
              /\ \E k \in 1 .. m : Strong(pal.ledger[k][l.path], l.mode)
        BY <2>3
      <3>2. LevelOf(l.holder) = m /\ l.holder # Temp /\ l.holder \notin Values
        BY <1>1, <2>3, <3>1, LevelOfIs
      <3> QED BY <3>1, <3>2 DEF CoveredIn, Strong
    <2>4. CASE /\ l.holder \in Values
               /\ \E m \in 1 .. Depth :
                    l.holder \in Declared(m) /\ l.path \in pal.carriers[m][l.holder]
      <3>1. PICK m \in 1 .. Depth :
              l.holder \in Declared(m) /\ l.path \in pal.carriers[m][l.holder]
        BY <2>4
      <3>2. LevelOf(l.holder) = m /\ l.holder # Temp
        BY <1>1, <2>4, <3>1, LevelOfIs
      <3>3. m \in 1 .. m
        BY <1>1, <3>1
      <3> QED BY <2>4, <3>1, <3>2, <3>3 DEF CoveredIn
    <2> QED BY <2>1, <2>2, <2>3, <2>4 DEF OnRecord
  <1>3. CASE l \notin loans
    <2>1. l.holder = Temp
      BY <1>3 DEF Held
    <2>2. PICK k \in Levels(pal) : Strong(pal.ledger[k][l.path], l.mode)
      BY <1>1, <2>1, HeldEntry
    <2>3. Levels(pal) = 1 .. Depth
      BY Sizes
    <2> QED BY <1>1, <2>1, <2>2, <2>3 DEF CoveredIn, Strong
  <1> QED BY <1>2, <1>3

\* For a program of any length that borrows no path again in the scope that has an
\* entry of it, and has no writable-alias loop over a collection already on record,
\* the invariant holds at every point of the analysis.
THEOREM CheckerInvHolds ==
    ASSUME Reborrows = 0, AliasedFors = 0 PROVE Spec => []PALInv
  <1>1. PALInv /\ [Next]_vars => PALInv'
    BY PALInvNext
  <1> QED BY <1>1, PALInvInit, PTL DEF Spec

\* The state of the analysis and of the execution has its types (PALChecker's maps
\* keep one level per scope).
THEOREM PALTypeCorrect ==
    ASSUME Reborrows = 0, AliasedFors = 0 PROVE Spec => []TypeOK
  <1>1. ASSUME PALInv PROVE TypeOK
    <2>1. Checker(pal, Depth)
      BY <1>1, Sizes
    <2> QED BY <1>1, <2>1 DEF PALInv, Shape, Sound, TypeOK, Checker, Depth
  <1> QED BY <1>1, CheckerInvHolds, PTL

\* Every reference that an execution really holds is on record, for every program of
\* that kind, until the scope of its holder ends (commitTransient, clearTransient,
\* mergeBranches, releaseBorrow).
THEOREM LoansAlwaysCovered ==
    ASSUME Reborrows = 0, AliasedFors = 0 PROVE Spec => []LoansCovered
  <1>1. PALInv => LoansCovered
    BY PALInvCovers
  <1> QED BY <1>1, CheckerInvHolds, PTL

\* No program of that kind that is accepted borrows, loops over, reads or writes what
\* a loan excludes, on an execution that runs each loop body at most once: shared and
\* exclusive loops are among the loans (recordBorrow, verifyAccess, verifyPayloadWrite).
\* Of a second round of a body, and of the programs left out, it says nothing.
THEOREM AcceptedIsAliasFree ==
    ASSUME Reborrows = 0, AliasedFors = 0 PROVE Spec => []NoAliasedWrite
  <1>1. PALInv => NoAliasedWrite
    BY DEF PALInv, Sound, NoAliasedWrite
  <1> QED BY <1>1, CheckerInvHolds, PTL

\* None moves a variable away under a loan (verifyInvalidation before markMoved).
THEOREM AcceptedMovesAreSafe ==
    ASSUME Reborrows = 0, AliasedFors = 0 PROVE Spec => []NoMoveOfLent
  <1>1. PALInv => NoMoveOfLent
    BY DEF PALInv, Sound, NoMoveOfLent
  <1> QED BY <1>1, CheckerInvHolds, PTL

\* None destroys a variable, moved in no arm, that a loan outliving it still needs
\* (checkCleanupScope, and the refusal of a source that dies before the reference).
THEOREM AcceptedScopesAreSafe ==
    ASSUME Reborrows = 0, AliasedFors = 0 PROVE Spec => []NoDangling
  <1>1. PALInv => NoDangling
    BY DEF PALInv, Sound, NoDangling
  <1> QED BY <1>1, CheckerInvHolds, PTL
=============================================================================
