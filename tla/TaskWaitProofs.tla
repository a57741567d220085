--------------------------- MODULE TaskWaitProofs ---------------------------
(***************************************************************************)
(* Proofs about TaskWait, for every number of tasks, threads, slots and    *)
(* wait sets, every mixture of waits and every mixture of wakers,          *)
(* cancellers and schedulers.                                              *)
(*                                                                         *)
(* The wait registry.  The reference count of a wait set is the number of  *)
(* its outcome slots, plus the actors on their way to help its winner,     *)
(* plus one for a winner that is not committed; so none of the consistency *)
(* checks that end in abort() fails.  Every count is the size of a set, an *)
(* operation of actor a changes the helpers by at most a, and what is left *)
(* of each step is arithmetic.                                             *)
(*                                                                         *)
(* The tickets, where no task waits for two sources.  A queued task keeps  *)
(* the ticket of its epoch; the ticket is published and its entry is in    *)
(* the queue, or some actor still has the publication to execute.  An      *)
(* epoch is in the queue at most once because no epoch is there before its *)
(* suspension ends.                                                        *)
(*                                                                         *)
(* The executor alone.  A registration that can still win is the one its   *)
(* task links to; a task that is not on its way to sleep has none and a    *)
(* suspended one has one, except while the topmost operation of the        *)
(* executor's stack is there to make it so.                                *)
(***************************************************************************)
EXTENDS TaskWait, FiniteSetTheorems, SequenceTheorems, TLAPS

-----------------------------------------------------------------------------
(* The inductive invariant of the registry.                                *)

\* The operations that may lie below another one on a stack.
OfTask == {"start", "cancel", "cancelArbiter", "cancelLoad", "coldCancel",
           "commit", "commitState", "register", "unregister", "clearCurrent",
           "abort", "abortState", "cancelActive", "cancelWait", "reap",
           "pendWake"}
OfEpoch == {"publish", "schedule", "scheduleLoop", "scheduleState", "cancelClaim"}
Below ==
    [op : OfTask, arg : {<<t>> : t \in Tasks}]
      \cup [op : OfEpoch, arg : Tasks \X Int]
      \cup [op : {"release", "isWinner"}, arg : Slots \X Nat]
      \cup [op : {"wake"}, arg : Slots \X Nat \X {"release", "keep"}]
      \cup [op : {"abortCas"}, arg : Tasks \X TaskStates]
      \cup [op : {"terminal"}, arg : Tasks \X Terminal]

\* The operations that are topmost only.
Above == [op : {"helpCommit"}, arg : {<<i>> : i \in Sets}]
           \cup [op : {"allocate"}, arg : Tasks \X {"single", "pair"}]

SlotRec == [gen : Nat, inUse : BOOLEAN, active : BOOLEAN, retired : BOOLEAN,
            state : {"waiting", "won", "canceled"}, set : 0 .. MaxSets,
            task : Tasks \cup {NoTask}, epoch : Int]
SetRec == [state : {"none", "waiting", "wonPending", "inactive", "freed"},
           winner : 0 .. NumSlots, refs : Int, commitRef : BOOLEAN,
           task : Tasks \cup {NoTask}, epoch : Int]
WaitRec == [slot : 0 .. NumSlots, gen : Nat, set : 0 .. MaxSets]

Types ==
    /\ st \in [Tasks -> TaskStates]
    /\ gen \in [Tasks -> Int]
    /\ wait \in [Tasks -> WaitRec]
    /\ slot \in [Slots -> SlotRec]
    /\ set \in [Sets -> SetRec]
    /\ held \in [Tasks -> SUBSET (Slots \X Nat)]

\* A stack: only the topmost operation helps a winner or allocates.
StackOK(q) ==
    /\ q \in Seq(Below \cup Above)
    /\ q # <<>> => Tail(q) \in Seq(Below)
Stacks ==
    /\ todo \in [Actors -> Seq(Below \cup Above)]
    /\ \A a \in Actors : StackOK(todo[a])

Members(i) == {s \in Slots : slot[s].set = i}
Pending(x) == IF x.commitRef THEN 1 ELSE 0

\* A slot that is in use is active or an outcome of a decided set; an active
\* one belongs to no set or to a set that is still undecided.
SlotInv ==
    \A s \in Slots :
        /\ ~slot[s].inUse => ~slot[s].active /\ slot[s].set = NoSet
        /\ slot[s].inUse => slot[s].task \in Tasks
        /\ slot[s].inUse /\ slot[s].set = NoSet => slot[s].active
        /\ slot[s].set # NoSet =>
             IF slot[s].active THEN set[slot[s].set].state = "waiting"
             ELSE set[slot[s].set].state \in {"wonPending", "inactive"}

\* A set keeps its commit reference exactly while a winner waits for its commit,
\* and is helped only once it has, or had, a winner.
SetInv ==
    \A i \in Sets :
        /\ set[i].commitRef <=> set[i].state = "wonPending"
        /\ set[i].state # "none" => set[i].task \in Tasks
        /\ Helpers(i) # {} => set[i].state \in {"wonPending", "inactive"}
        /\ set[i].state \in {"none", "freed"} => set[i].refs = 0

RefsInv ==
    \A i \in Sets :
        set[i].refs = Cardinality(Members(i)) + Cardinality(Helpers(i))
                        + Pending(set[i])

\* The slots that a suspension needs were counted before it began, and only the
\* executor takes any.
AllocInv ==
    \A a \in Actors : Doing(a, "allocate") =>
        a = Exec /\ Cardinality(Available) >= SlotsFor(Arg(a)[2])

RegistryInv ==
    /\ Types /\ Stacks
    /\ SlotInv /\ SetInv /\ RefsInv /\ AllocInv
    /\ ~fatal

-----------------------------------------------------------------------------
(* Finite sets and the lowest free slots.                                  *)

\* The registry and the actors are finite.
LEMMA Finite ==
    /\ IsFiniteSet(Slots) /\ IsFiniteSet(Actors)
    /\ Slots \subseteq Nat \ {0} /\ Sets \subseteq Nat \ {0}
    /\ NumSlots \in Nat /\ MaxSets \in Nat
  <1>1. NumSlots \in Nat /\ MaxSets \in Nat /\ IsFiniteSet(Threads)
    BY ConstantsAssumption DEF ConstantsAssumption
  <1>2. IsFiniteSet(Slots)
    BY <1>1, FS_Interval DEF Slots
  <1>3. Actors = Threads \cup {Exec}
    BY DEF Actors
  <1>4. IsFiniteSet(Actors)
    BY <1>1, <1>3, FS_AddElement
  <1> QED BY <1>1, <1>2, <1>4 DEF Slots, Sets

\* Every part of the registry has a size.
LEMMA PartSize ==
    ASSUME NEW S, S \subseteq Slots
    PROVE  IsFiniteSet(S) /\ Cardinality(S) \in Nat
  BY Finite, FS_Subset, FS_CardinalityType

\* A set of naturals that is not empty has a least element.
LEMMA LeastOf ==
    ASSUME NEW T, T \subseteq Nat, T # {}
    PROVE  \E x \in T : \A y \in T : x <= y
  <1> DEFINE R == OpToRel(<, Nat)
  <1>1. PICK x \in T : \A y \in T : ~(<<y, x>> \in R)
    <2>1. IsWellFoundedOn(R, Nat)
      BY NatLessThanWellFounded
    <2> HIDE DEF R
    <2> QED BY <2>1, WFMin
  <1>2. \A y \in T : ~(y < x)
    BY <1>1 DEF OpToRel
  <1> QED BY <1>2

\* The least element is the one Min names.
LEMMA MinIn ==
    ASSUME NEW T, T \subseteq Nat, T # {}
    PROVE  Min(T) \in T /\ \A y \in T : Min(T) <= y
  BY LeastOf DEF Min

\* Two elements: Min and Max name both.
LEMMA MinMaxOfPair ==
    ASSUME NEW T, T \subseteq Nat, IsFiniteSet(T), Cardinality(T) = 2
    PROVE  /\ Min(T) \in T /\ Max(T) \in T /\ Min(T) # Max(T)
           /\ T = {Min(T), Max(T)}
  <1> DEFINE x == Min(T)
             U == T \ {x}
  <1>1. T # {}
    BY FS_EmptySet
  <1>2. x \in T /\ \A y \in T : x <= y
    BY <1>1, MinIn
  <1> HIDE DEF x
  <1>3. IsFiniteSet(U) /\ Cardinality(U) = 1
    BY <1>2, FS_RemoveElement
  <1>4. PICK z : U = {z}
    BY <1>3, FS_Singleton
  <1>5. z \in T /\ z # x /\ T = {x, z}
    BY <1>2, <1>4
  <1>6. \A y \in T : z >= y
    BY <1>2, <1>5
  <1>7. Max(T) \in T /\ \A y \in T : Max(T) >= y
    BY <1>5, <1>6 DEF Max
  <1>8. Max(T) = z
    BY <1>2, <1>5, <1>6, <1>7
  <1> QED BY <1>2, <1>5, <1>8 DEF x

\* When enough slots are free, Lowest(k) is k of them (the registry scan of
\* toka_wait_registry_register and toka_wait_set_register_pair).
LEMMA LowestIs ==
    ASSUME NEW k \in {1, 2}, Cardinality(Available) >= k
    PROVE  Lowest(k) \subseteq Available /\ Cardinality(Lowest(k)) = k
  <1>0. Available \subseteq Slots /\ Available \subseteq Nat /\ IsFiniteSet(Available)
    BY Finite, PartSize DEF Available
  <1>1. Available # {}
    BY <1>0, FS_EmptySet
  <1>2. PICK x \in Available : \A y \in Available : x <= y
    BY <1>0, <1>1, LeastOf
  <1>3. \E S \in kSubset(k, Available) : \A s \in S, r \in Available \ S : s < r
    <2>1. CASE k = 1
      <3>1. {x} \in kSubset(k, Available)
        BY <1>2, <2>1, FS_Singleton DEF kSubset
      <3>2. \A s \in {x}, r \in Available \ {x} : s < r
        BY <1>0, <1>2
      <3> QED BY <3>1, <3>2
    <2>2. CASE k = 2
      <3> DEFINE U == Available \ {x}
      <3>1. IsFiniteSet(U) /\ Cardinality(U) >= 1
        <4>1. Cardinality(Available) \in Nat /\ Cardinality(Available) >= 2
          BY <1>0, <2>2, FS_CardinalityType
        <4>2. IsFiniteSet(U) /\ Cardinality(U) = Cardinality(Available) - 1
          BY <1>0, <1>2, FS_RemoveElement
        <4> QED BY <4>1, <4>2
      <3>2. U # {}
        BY <3>1, FS_EmptySet
      <3>3. PICK z \in U : \A y \in U : z <= y
        BY <1>0, <3>2, LeastOf
      <3>4. Cardinality({x, z}) = 2
        <4>1. IsFiniteSet({x}) /\ Cardinality({x}) = 1
          BY FS_Singleton
        <4>2. Cardinality({x} \cup {z}) = 2
          BY <3>3, <4>1, FS_AddElement
        <4>3. {x} \cup {z} = {x, z}
          OBVIOUS
        <4> QED BY <4>2, <4>3
      <3>5. {x, z} \in kSubset(k, Available)
        BY <1>2, <2>2, <3>3, <3>4 DEF kSubset
      <3>6. \A s \in {x, z}, r \in Available \ {x, z} : s < r
        BY <1>0, <1>2, <3>3
      <3> QED BY <3>5, <3>6
    <2> QED BY <2>1, <2>2
  <1>4. Lowest(k) \in kSubset(k, Available)
    BY <1>3 DEF Lowest
  <1> QED BY <1>4 DEF kSubset

-----------------------------------------------------------------------------
(* Stacks of operations.                                                   *)

\* The topmost operation is replaced by operations that lie below: afterwards
\* the actor neither helps nor allocates.
LEMMA PlainOps ==
    ASSUME NEW a \in Actors, NEW ops \in Seq(Below), Stacks, todo[a] # <<>>,
           Continue(a, ops)
    PROVE  /\ Stacks'
           /\ \A b \in Actors : b # a => todo'[b] = todo[b]
           /\ todo'[a] = <<>> \/ Head(todo'[a]) \in Below
  <1>1. Tail(todo[a]) \in Seq(Below) /\ todo[a] \in Seq(Below \cup Above)
    BY DEF Stacks, StackOK
  <1> DEFINE q == ops \o Tail(todo[a])
  <1>2. q \in Seq(Below)
    BY <1>1
  <1>3. todo' = [todo EXCEPT ![a] = q]
    BY DEF Continue
  <1> HIDE DEF q
  <1>4. q \in Seq(Below \cup Above)
    BY <1>2
  <1>5. q # <<>> => Head(q) \in Below /\ Tail(q) \in Seq(Below)
    BY <1>2
  <1> QED BY <1>3, <1>4, <1>5 DEF Stacks, StackOK

\* The topmost operation is replaced by one that is topmost only, with
\* operations that lie below under it.
LEMMA TopOps ==
    ASSUME NEW a \in Actors, NEW o \in Above, NEW ops \in Seq(Below), Stacks,
           todo[a] # <<>>, Continue(a, <<o>> \o ops)
    PROVE  /\ Stacks'
           /\ \A b \in Actors : b # a => todo'[b] = todo[b]
           /\ todo'[a] # <<>> /\ Head(todo'[a]) = o
  <1>1. Tail(todo[a]) \in Seq(Below)
    BY DEF Stacks, StackOK
  <1> DEFINE under == ops \o Tail(todo[a])
             q == <<o>> \o under
  <1>2. under \in Seq(Below)
    BY <1>1
  <1>3. (<<o>> \o ops) \o Tail(todo[a]) = q
    <2> DEFINE All == Below \cup Above
               top == <<o>>
               rest == Tail(todo[a])
    <2>1. top \in Seq(All) /\ ops \in Seq(All) /\ rest \in Seq(All)
      BY <1>1
    <2> HIDE DEF All, top, rest
    <2>2. (top \o ops) \o rest = top \o (ops \o rest)
      BY <2>1, ConcatAssociative
    <2> QED BY <2>2 DEF top, rest
  <1>4. todo' = [todo EXCEPT ![a] = q]
    BY <1>3 DEF Continue
  <1> HIDE DEF under
  <1>5. q \in Seq(Below \cup Above) /\ q # <<>> /\ Head(q) = o /\ Tail(q) = under
    BY <1>2
  <1> HIDE DEF q
  <1> QED BY <1>2, <1>4, <1>5 DEF Stacks, StackOK

\* Nobody but a changes its stack.
Others(a) == \A b \in Actors : b # a => todo'[b] = todo[b]

\* An operation that is not topmost-only neither helps nor allocates.
LEMMA BelowNames ==
    ASSUME NEW o \in Below PROVE o.op \notin {"helpCommit", "allocate"}
  BY DEF Below, OfTask, OfEpoch

\* The helpers of a set do not change when a helps neither before nor after.
LEMMA SameHelpers ==
    ASSUME NEW a \in Actors, Others(a), ~Doing(a, "helpCommit"),
           ~Doing(a, "helpCommit")'
    PROVE  \A i \in Sets : Helpers(i)' = Helpers(i)
  BY DEF Others, Helpers, Doing, Arg

\* One helper more.
LEMMA OneHelperMore ==
    ASSUME NEW a \in Actors, NEW j \in Sets, Others(a), ~Doing(a, "helpCommit"),
           Doing(a, "helpCommit")', Arg(a)' = <<j>>
    PROVE  /\ \A i \in Sets : i # j => Helpers(i)' = Helpers(i)
           /\ Helpers(j)' # {}
           /\ Cardinality(Helpers(j)') = Cardinality(Helpers(j)) + 1
  <1>1. \A i \in Sets : i # j => Helpers(i)' = Helpers(i)
    BY DEF Others, Helpers, Doing, Arg
  <1>2. Helpers(j)' = Helpers(j) \cup {a} /\ a \notin Helpers(j)
    BY DEF Others, Helpers, Doing, Arg
  <1>3. IsFiniteSet(Helpers(j))
    BY Finite, FS_Subset DEF Helpers
  <1>4. Cardinality(Helpers(j) \cup {a}) = Cardinality(Helpers(j)) + 1
    BY <1>2, <1>3, FS_AddElement
  <1> QED BY <1>1, <1>2, <1>4

\* One helper less.
LEMMA OneHelperLess ==
    ASSUME NEW a \in Actors, NEW j \in Sets, Others(a), Doing(a, "helpCommit"),
           Arg(a) = <<j>>, ~Doing(a, "helpCommit")'
    PROVE  /\ \A i \in Sets : i # j => Helpers(i)' = Helpers(i)
           /\ Helpers(j)' \subseteq Helpers(j) /\ Helpers(j) # {}
           /\ Cardinality(Helpers(j)') = Cardinality(Helpers(j)) - 1
           /\ Cardinality(Helpers(j)) >= 1
  <1>1. \A i \in Sets : i # j => Helpers(i)' = Helpers(i)
    BY DEF Others, Helpers, Doing, Arg
  <1>2. Helpers(j)' = Helpers(j) \ {a} /\ a \in Helpers(j)
    BY DEF Others, Helpers, Doing, Arg
  <1>3. IsFiniteSet(Helpers(j))
    BY Finite, FS_Subset DEF Helpers
  <1>4. /\ Cardinality(Helpers(j) \ {a}) = Cardinality(Helpers(j)) - 1
        /\ IsFiniteSet(Helpers(j) \ {a})
    BY <1>2, <1>3, FS_RemoveElement
  <1>5. Cardinality(Helpers(j)) \in Nat /\ Cardinality(Helpers(j) \ {a}) \in Nat
    BY <1>3, <1>4, FS_CardinalityType
  <1>6. Cardinality(Helpers(j)) >= 1
    BY <1>4, <1>5
  <1> QED BY <1>1, <1>2, <1>4, <1>6

-----------------------------------------------------------------------------
(* What a step does to the registry.  Each lemma is one kind of change to  *)
(* slots, sets and helpers; the operations below are instances of them.    *)

\* The topmost operation of a is none that is topmost only.
Settled(a) == todo[a] = <<>> \/ Head(todo[a]) \in Below

\* A settled actor neither helps nor allocates.
LEMMA SettledMeans ==
    ASSUME NEW a, Settled(a)
    PROVE  ~Doing(a, "helpCommit") /\ ~Doing(a, "allocate")
  BY BelowNames DEF Settled, Doing

\* The same in the state after a step.
LEMMA SettledAfter ==
    ASSUME NEW a, Settled(a)'
    PROVE  ~Doing(a, "helpCommit")' /\ ~Doing(a, "allocate")'
  BY BelowNames DEF Settled, Doing

\* An allocation under way keeps the slots it counted while slots are only freed.
LEMMA AllocKept ==
    ASSUME RegistryInv, NEW a \in Actors, Others(a), ~Doing(a, "allocate")',
           Available \subseteq Available'
    PROVE  AllocInv'
  <1>1. Available' \subseteq Slots
    BY DEF Available
  <1>2. /\ Cardinality(Available) <= Cardinality(Available')
        /\ Cardinality(Available) \in Nat /\ Cardinality(Available') \in Nat
    <2>1. IsFiniteSet(Available') /\ Cardinality(Available') \in Nat
      BY <1>1, PartSize
    <2>2. IsFiniteSet(Available) /\ Cardinality(Available) <= Cardinality(Available')
      BY <2>1, FS_Subset
    <2> QED BY <2>1, <2>2, FS_CardinalityType
  <1>3. SUFFICES ASSUME NEW b \in Actors, Doing(b, "allocate")'
                 PROVE  b = Exec /\ Cardinality(Available') >= SlotsFor(Arg(b)'[2])
    BY DEF AllocInv
  <1>4. b # a /\ Doing(b, "allocate") /\ Arg(b)' = Arg(b)
    BY <1>3 DEF Others, Doing, Arg
  <1>5. b = Exec /\ Cardinality(Available) >= SlotsFor(Arg(b)[2])
    BY <1>4 DEF RegistryInv, AllocInv
  <1>6. SlotsFor(Arg(b)[2]) \in Int
    <2>1. Head(todo[b]) \in Below \cup Above
      BY <1>4 DEF RegistryInv, Stacks, StackOK, Doing
    <2>2. Head(todo[b]) \in [op : {"allocate"}, arg : Tasks \X {"single", "pair"}]
      BY <1>4, <2>1, BelowNames DEF Above, Doing
    <2>3. Arg(b)[2] \in {"single", "pair"}
      BY <2>2 DEF Arg
    <2> QED BY <2>3 DEF SlotsFor
  <1> QED BY <1>2, <1>4, <1>5, <1>6

\* Nothing changes in the registry, and a settled actor stays settled.
LEMMA QuietStep ==
    ASSUME RegistryInv, NEW a \in Actors, Others(a), Settled(a)', Types', Stacks',
           ~Doing(a, "helpCommit"), slot' = slot, set' = set, fatal' = fatal
    PROVE  RegistryInv'
  <1>1. ~Doing(a, "helpCommit")' /\ ~Doing(a, "allocate")'
    BY SettledAfter
  <1>2. \A i \in Sets : Helpers(i)' = Helpers(i)
    BY <1>1, SameHelpers
  <1>3. AllocInv'
    BY <1>1, AllocKept DEF Available
  <1>4. SlotInv' /\ ~fatal'
    BY DEF RegistryInv, SlotInv
  <1>5. SetInv'
    BY <1>2 DEF RegistryInv, SetInv
  <1>6. \A i \in Sets : Members(i)' = Members(i)
    BY DEF Members
  <1>7. RefsInv'
    BY <1>2, <1>6 DEF RegistryInv, RefsInv, Pending
  <1> QED BY <1>3, <1>4, <1>5, <1>7 DEF RegistryInv

\* The set a slot names is one of the sets; members and helpers have a number.
LEMMA SetOf ==
    ASSUME slot \in [Slots -> SlotRec]
    PROVE  \A s \in Slots : slot[s].set # NoSet => slot[s].set \in Sets
  BY Finite DEF SlotRec, NoSet, Sets

\* Sizes are naturals.
LEMMA Sizes ==
    \A i \in Sets : /\ Cardinality(Members(i)) \in Nat
                    /\ Cardinality(Helpers(i)) \in Nat
                    /\ Pending(set[i]) \in {0, 1}
  BY PartSize, Finite, FS_Subset, FS_CardinalityType DEF Members, Helpers, Pending

\* A new helper of a set whose winner is not committed takes a reference
\* (toka_wait_set_retain_locked in every helper's first section).
LEMMA RetainStep ==
    ASSUME RegistryInv, NEW a \in Actors, NEW j \in Sets, Others(a),
           ~Doing(a, "helpCommit"), Doing(a, "helpCommit")', Arg(a)' = <<j>>,
           set[j].state = "wonPending",
           set' = [set EXCEPT ![j] = Retained(@, 1)], slot' = slot, fatal' = fatal
    PROVE  /\ set' \in [Sets -> SetRec]
           /\ SlotInv' /\ SetInv' /\ RefsInv' /\ AllocInv' /\ ~fatal'
  <1>0. set \in [Sets -> SetRec] /\ slot \in [Slots -> SlotRec]
    BY DEF RegistryInv, Types
  <1>1. /\ set'[j] = [set[j] EXCEPT !.refs = @ + 1]
        /\ \A i \in Sets : i # j => set'[i] = set[i]
    BY <1>0 DEF Retained
  <1>2. /\ set' \in [Sets -> SetRec] /\ set'[j].refs = set[j].refs + 1
        /\ \A i \in Sets : /\ set'[i].state = set[i].state
                           /\ set'[i].commitRef = set[i].commitRef
                           /\ set'[i].task = set[i].task
    BY <1>0, <1>1 DEF SetRec, Retained
  <1>3. /\ \A i \in Sets : i # j => Helpers(i)' = Helpers(i)
        /\ Cardinality(Helpers(j)') = Cardinality(Helpers(j)) + 1
    BY OneHelperMore
  <1>4. AllocInv'
    BY AllocKept DEF Available, Doing
  <1>5. SlotInv' /\ ~fatal'
    BY <1>0, <1>2, SetOf DEF RegistryInv, SlotInv
  <1>6. SetInv'
    BY <1>1, <1>2, <1>3 DEF RegistryInv, SetInv
  <1>7. \A i \in Sets : Members(i)' = Members(i)
    BY DEF Members
  <1>8. RefsInv'
    <2>1. \A i \in Sets : Pending(set'[i]) = Pending(set[i])
      BY <1>2 DEF Pending
    <2> SUFFICES ASSUME NEW i \in Sets
                 PROVE  set'[i].refs = Cardinality(Members(i)') + Cardinality(Helpers(i)')
                                         + Pending(set'[i])
      BY DEF RefsInv
    <2>2. set[i].refs = Cardinality(Members(i)) + Cardinality(Helpers(i)) + Pending(set[i])
      BY DEF RegistryInv, RefsInv
    <2>3. CASE i = j
      BY <1>2, <1>3, <1>7, <2>1, <2>2, <2>3, Sizes
    <2>4. CASE i # j
      BY <1>1, <1>3, <1>7, <2>1, <2>2, <2>4
    <2> QED BY <2>3, <2>4
  <1> QED BY <1>2, <1>4, <1>5, <1>6, <1>8

\* Slot s decides set j: every member becomes an outcome, and the set takes a
\* reference for its commit and one for the actor that carries it out.
LEMMA WonStep ==
    ASSUME RegistryInv, NEW a \in Actors, NEW j \in Sets, NEW s \in Slots, Others(a),
           ~Doing(a, "helpCommit"), Doing(a, "helpCommit")', Arg(a)' = <<j>>,
           set[j].state = "waiting",
           set' = [set EXCEPT ![j] = WonSet(j, s)], slot' = Selected(j, s),
           fatal' = (fatal \/ set[j].commitRef)
    PROVE  /\ set' \in [Sets -> SetRec] /\ slot' \in [Slots -> SlotRec]
           /\ SlotInv' /\ SetInv' /\ RefsInv' /\ AllocInv' /\ ~fatal'
  <1>0. set \in [Sets -> SetRec] /\ slot \in [Slots -> SlotRec]
    BY DEF RegistryInv, Types
  <1>1. \A i \in Sets : i # j => set'[i] = set[i]
    BY <1>0
  <1>2. set'[j] = [set[j] EXCEPT !.state = "wonPending", !.winner = s,
                                 !.commitRef = TRUE, !.refs = @ + 2]
    BY <1>0 DEF WonSet, Retained, SetRec
  <1>3. /\ set'[j] \in SetRec /\ set'[j].refs = set[j].refs + 2
        /\ set'[j].state = "wonPending" /\ set'[j].commitRef = TRUE
        /\ set'[j].task = set[j].task
    <2>1. s \in 0 .. NumSlots
      BY Finite DEF Slots
    <2>2. set[j] \in SetRec
      BY <1>0
    <2> DEFINE x == [set[j] EXCEPT !.refs = @ + 2]
               y == [x EXCEPT !.state = "wonPending", !.winner = s]
    <2>3. x \in SetRec /\ x.refs = set[j].refs + 2 /\ x.task = set[j].task
      BY <2>2 DEF SetRec
    <2>4. set'[j] = [y EXCEPT !.commitRef = TRUE]
      BY <1>2, <2>2 DEF SetRec
    <2> HIDE DEF x
    <2>5. /\ y \in SetRec /\ y.refs = x.refs /\ y.task = x.task
          /\ y.state = "wonPending"
      BY <2>1, <2>3 DEF SetRec
    <2> HIDE DEF y
    <2> DEFINE z == [y EXCEPT !.commitRef = TRUE]
    <2>6. z \in SetRec
      BY <2>5 DEF SetRec
    <2>7. z.refs = y.refs /\ z.task = y.task /\ z.state = y.state
      BY <2>5 DEF SetRec
    <2>8. z.commitRef = TRUE
      BY <2>5 DEF SetRec
    <2> HIDE DEF z
    <2>9. set'[j] = z
      BY <2>4 DEF z
    <2> QED BY <2>3, <2>5, <2>6, <2>7, <2>8, <2>9
  <1>4. set' \in [Sets -> SetRec]
    BY <1>0, <1>3
  <1>5. ~set[j].commitRef /\ ~fatal
    BY DEF RegistryInv, SetInv
  <1>6. \A r \in Slots : /\ slot'[r] \in SlotRec
                         /\ slot'[r].set = slot[r].set /\ slot'[r].inUse = slot[r].inUse
                         /\ slot'[r].task = slot[r].task /\ slot'[r].retired = slot[r].retired
                         /\ slot[r].set # j => slot'[r].active = slot[r].active
                         /\ slot[r].set = j => ~slot'[r].active
    BY <1>0, ZenonT(60) DEF Selected, ActiveMembers, SlotRec
  <1>7. slot' \in [Slots -> SlotRec]
    BY <1>6 DEF Selected
  <1>8. /\ \A i \in Sets : i # j => Helpers(i)' = Helpers(i)
        /\ Cardinality(Helpers(j)') = Cardinality(Helpers(j)) + 1
    BY OneHelperMore
  <1>9. AllocInv'
    BY <1>6, AllocKept DEF Available, Doing
  <1>10. SlotInv'
    <2> SUFFICES ASSUME NEW r \in Slots
                 PROVE  /\ ~slot'[r].inUse => ~slot'[r].active /\ slot'[r].set = NoSet
                        /\ slot'[r].inUse => slot'[r].task \in Tasks
                        /\ slot'[r].inUse /\ slot'[r].set = NoSet => slot'[r].active
                        /\ slot'[r].set # NoSet =>
                             IF slot'[r].active THEN set'[slot'[r].set].state = "waiting"
                             ELSE set'[slot'[r].set].state \in {"wonPending", "inactive"}
      BY DEF SlotInv
    <2>1. /\ ~slot[r].inUse => ~slot[r].active /\ slot[r].set = NoSet
          /\ slot[r].inUse => slot[r].task \in Tasks
          /\ slot[r].inUse /\ slot[r].set = NoSet => slot[r].active
          /\ slot[r].set # NoSet =>
               IF slot[r].active THEN set[slot[r].set].state = "waiting"
               ELSE set[slot[r].set].state \in {"wonPending", "inactive"}
      BY DEF RegistryInv, SlotInv
    <2>2. j # NoSet /\ (slot[r].set # NoSet => slot[r].set \in Sets)
      BY <1>0, SetOf, Finite DEF NoSet
    <2>3. CASE slot[r].set = j
      BY <1>3, <1>6, <2>1, <2>2, <2>3
    <2>4. CASE slot[r].set # j
      BY <1>1, <1>6, <2>1, <2>2, <2>4
    <2> QED BY <2>3, <2>4
  <1>11. SetInv'
    BY <1>1, <1>3, <1>8 DEF RegistryInv, SetInv
  <1>12. \A i \in Sets : Members(i)' = Members(i)
    BY <1>6 DEF Members
  <1>13. RefsInv'
    <2>1. Pending(set'[j]) = 1 /\ Pending(set[j]) = 0
      BY <1>3, <1>5 DEF Pending
    <2>2. \A i \in Sets : i # j => Pending(set'[i]) = Pending(set[i])
      BY <1>1
    <2> QED BY <1>1, <1>3, <1>8, <1>12, <2>1, <2>2, Sizes DEF RegistryInv, RefsInv
  <1> QED BY <1>4, <1>5, <1>7, <1>9, <1>10, <1>11, <1>13

\* Dropping references from a record of a set.
LEMMA DroppedRec ==
    ASSUME NEW x \in SetRec, NEW n \in Nat
    PROVE  /\ Dropped(x, n) \in SetRec /\ Dropped(x, n).refs = x.refs - n
           /\ Dropped(x, n).state = IF x.refs = n THEN "freed" ELSE x.state
           /\ Dropped(x, n).task = x.task /\ Dropped(x, n).commitRef = x.commitRef
  <1> DEFINE v == IF x.refs = n THEN "freed" ELSE x.state
             y == [x EXCEPT !.refs = @ - n]
  <1>1. y \in SetRec /\ y.refs = x.refs - n /\ y.task = x.task /\ y.commitRef = x.commitRef
    BY DEF SetRec
  <1>2. v \in {"none", "waiting", "wonPending", "inactive", "freed"}
    BY DEF SetRec
  <1>3. Dropped(x, n) = [y EXCEPT !.state = v]
    BY DEF Dropped, SetRec
  <1> HIDE DEF y, v
  <1>4. /\ [y EXCEPT !.state = v] \in SetRec /\ [y EXCEPT !.state = v].refs = y.refs
        /\ [y EXCEPT !.state = v].state = v /\ [y EXCEPT !.state = v].task = y.task
        /\ [y EXCEPT !.state = v].commitRef = y.commitRef
    BY <1>1, <1>2 DEF SetRec
  <1> QED BY <1>1, <1>3, <1>4 DEF v

\* The commit of set j and the drop of the reference of the caller: no check
\* fails, and the set is freed exactly when nothing refers to it any more
\* (toka_wait_set_commit_winner_locked, toka_wait_set_drop_locked).
LEMMA CommittedDrop ==
    ASSUME RegistryInv, NEW j \in Sets, set[j].state \in {"wonPending", "inactive"},
           set[j].refs >= 1 + Pending(set[j])
    PROVE  LET x == Dropped(Committed(j), 1) IN
           /\ x \in SetRec /\ x.refs = set[j].refs - 1 - Pending(set[j])
           /\ ~x.commitRef /\ x.task = set[j].task
           /\ x.state = IF x.refs = 0 THEN "freed" ELSE "inactive"
           /\ ~CommitAborts(j) /\ Committed(j).state = "inactive" /\ ~(Committed(j).refs < 1)
  <1>0. set[j] \in SetRec /\ set[j].refs \in Int
    BY DEF RegistryInv, Types, SetRec
  <1>1. set[j].commitRef <=> set[j].state = "wonPending"
    BY DEF RegistryInv, SetInv
  <1> DEFINE c == Committed(j)
  <1>2. /\ c \in SetRec /\ c.refs = set[j].refs - Pending(set[j]) /\ ~c.commitRef
        /\ c.task = set[j].task /\ c.state = "inactive"
    <2>1. CASE set[j].state = "inactive"
      <3>1. Pending(set[j]) = 0 /\ ~set[j].commitRef
        BY <1>1, <2>1 DEF Pending
      <3>2. c = set[j]
        BY <2>1 DEF Committed
      <3> QED BY <1>0, <2>1, <3>1, <3>2
    <2>2. CASE set[j].state = "wonPending"
      <3>1. Pending(set[j]) = 1
        BY <1>1, <2>2 DEF Pending
      <3> DEFINE y == [set[j] EXCEPT !.state = "inactive", !.commitRef = FALSE]
      <3>2. c = Dropped(y, 1)
        BY <2>2 DEF Committed
      <3>3. y \in SetRec
        BY <1>0 DEF SetRec
      <3>4. y.refs = set[j].refs /\ y.task = set[j].task /\ y.state = "inactive"
        BY <1>0 DEF SetRec
      <3>5. y.commitRef = FALSE
        BY <1>0 DEF SetRec
      <3> HIDE DEF y
      <3>6. /\ c \in SetRec /\ c.refs = y.refs - 1 /\ c.commitRef = y.commitRef
            /\ c.state = IF y.refs = 1 THEN "freed" ELSE y.state
            /\ c.task = y.task
        BY <3>2, <3>3, DroppedRec
      <3> HIDE DEF c
      <3> QED BY <1>0, <3>1, <3>4, <3>5, <3>6
    <2> QED BY <2>1, <2>2
  <1>3. c.refs \in Int /\ c.refs >= 1 /\ ~(c.refs < 1)
    BY <1>0, <1>2 DEF Pending
  <1>4. ~CommitAborts(j)
    BY <1>0, <1>1 DEF CommitAborts, Pending
  <1> HIDE DEF c
  <1> DEFINE x == Dropped(c, 1)
  <1>5. /\ x \in SetRec /\ x.refs = c.refs - 1 /\ x.commitRef = c.commitRef
        /\ x.task = c.task
        /\ x.state = IF c.refs = 1 THEN "freed" ELSE c.state
    BY <1>2, DroppedRec
  <1> HIDE DEF x
  <1>6. /\ x \in SetRec /\ x.refs = set[j].refs - 1 - Pending(set[j])
        /\ ~x.commitRef /\ x.task = set[j].task
        /\ x.state = IF x.refs = 0 THEN "freed" ELSE "inactive"
    BY <1>0, <1>2, <1>3, <1>5 DEF Pending
  <1> QED BY <1>2, <1>3, <1>4, <1>6 DEF x, c

\* A helper commits the winner of set j, if that is still to do, and drops its
\* reference (toka_wait_set_help_commit_with_ref).
LEMMA HelpStep ==
    ASSUME RegistryInv, NEW a \in Actors, NEW j \in Sets, Others(a),
           Doing(a, "helpCommit"), Arg(a) = <<j>>, Settled(a)',
           set' = [set EXCEPT ![j] = Dropped(Committed(j), 1)], slot' = slot,
           fatal' = (fatal \/ CommitAborts(j) \/ Committed(j).refs < 1)
    PROVE  /\ set' \in [Sets -> SetRec]
           /\ SlotInv' /\ SetInv' /\ RefsInv' /\ AllocInv' /\ ~fatal'
  <1>0. set \in [Sets -> SetRec] /\ slot \in [Slots -> SlotRec]
    BY DEF RegistryInv, Types
  <1>1. ~Doing(a, "helpCommit")' /\ ~Doing(a, "allocate")'
    BY SettledAfter
  <1>2. /\ \A i \in Sets : i # j => Helpers(i)' = Helpers(i)
        /\ Helpers(j)' \subseteq Helpers(j) /\ Helpers(j) # {}
        /\ Cardinality(Helpers(j)') = Cardinality(Helpers(j)) - 1
        /\ Cardinality(Helpers(j)) >= 1
    BY <1>1, OneHelperLess
  <1>3. set[j].refs = Cardinality(Members(j)) + Cardinality(Helpers(j)) + Pending(set[j])
    BY DEF RegistryInv, RefsInv
  <1>4. set[j].state \in {"wonPending", "inactive"}
    BY <1>2 DEF RegistryInv, SetInv
  <1>5. set[j].refs >= 1 + Pending(set[j])
    BY <1>2, <1>3, Sizes
  <1> DEFINE x == Dropped(Committed(j), 1)
  <1>6. /\ x \in SetRec /\ x.refs = set[j].refs - 1 - Pending(set[j])
        /\ ~x.commitRef /\ x.task = set[j].task
        /\ x.state = IF x.refs = 0 THEN "freed" ELSE "inactive"
        /\ ~CommitAborts(j) /\ ~(Committed(j).refs < 1)
    BY <1>4, <1>5, CommittedDrop
  <1>7. set' = [set EXCEPT ![j] = x]
    OBVIOUS
  <1> HIDE DEF x
  <1>8. ~fatal'
    BY <1>6 DEF RegistryInv
  <1>9. set' \in [Sets -> SetRec] /\ set'[j] = x /\ \A i \in Sets : i # j => set'[i] = set[i]
    BY <1>0, <1>6, <1>7
  <1>10. \A i \in Sets : Members(i)' = Members(i)
    BY DEF Members
  <1>11. RefsInv'
    <2> SUFFICES ASSUME NEW i \in Sets
                 PROVE  set'[i].refs = Cardinality(Members(i)') + Cardinality(Helpers(i)')
                                         + Pending(set'[i])
      BY DEF RefsInv
    <2>1. CASE i = j
      <3>1. Pending(x) = 0
        BY <1>6 DEF Pending
      <3> QED BY <1>2, <1>3, <1>6, <1>9, <1>10, <2>1, <3>1, Sizes
    <2>2. CASE i # j
      BY <1>2, <1>9, <1>10, <2>2 DEF RegistryInv, RefsInv
    <2> QED BY <2>1, <2>2
  <1>12. x.refs = Cardinality(Members(j)) + Cardinality(Helpers(j)')
    BY <1>2, <1>3, <1>6, Sizes
  <1>13. x.refs = 0 => Members(j) = {} /\ Helpers(j)' = {}
    <2>1. IsFiniteSet(Members(j)) /\ IsFiniteSet(Helpers(j)')
      BY PartSize, Finite, FS_Subset DEF Members, Helpers
    <2>2. Cardinality(Members(j)) \in Nat /\ Cardinality(Helpers(j)') \in Nat
      BY <2>1, FS_CardinalityType
    <2> QED BY <1>12, <2>1, <2>2, FS_EmptySet
  <1>14. SlotInv'
    <2> SUFFICES ASSUME NEW r \in Slots, slot[r].set = j
                 PROVE  ~slot[r].active /\ x.state \in {"wonPending", "inactive"}
      BY <1>0, <1>9, SetOf DEF RegistryInv, SlotInv
    <2>1. ~slot[r].active
      BY <1>4, Finite DEF RegistryInv, SlotInv, NoSet
    <2>2. x.refs # 0
      BY <1>13 DEF Members
    <2> QED BY <1>6, <2>1, <2>2
  <1>15. SetInv'
    <2> SUFFICES ASSUME NEW i \in Sets
                 PROVE  /\ set'[i].commitRef <=> set'[i].state = "wonPending"
                        /\ set'[i].state # "none" => set'[i].task \in Tasks
                        /\ Helpers(i)' # {} => set'[i].state \in {"wonPending", "inactive"}
                        /\ set'[i].state \in {"none", "freed"} => set'[i].refs = 0
      BY DEF SetInv
    <2>1. CASE i # j
      BY <1>2, <1>9, <2>1 DEF RegistryInv, SetInv
    <2>2. CASE i = j
      <3>1. set[j].task \in Tasks
        BY <1>4 DEF RegistryInv, SetInv
      <3> QED BY <1>6, <1>9, <1>13, <2>2, <3>1
    <2> QED BY <2>1, <2>2
  <1>16. AllocInv'
    BY <1>1, AllocKept DEF Available
  <1> QED BY <1>8, <1>9, <1>11, <1>14, <1>15, <1>16

\* A slot that leaves the registry (toka_wait_slot_advance_or_retire_locked).
LEMMA RecycledSlot ==
    ASSUME NEW r \in SlotRec
    PROVE  /\ Recycled(r) \in SlotRec
           /\ ~Recycled(r).inUse /\ ~Recycled(r).active /\ Recycled(r).set = NoSet
  <1>1. \A g \in Nat, dead \in BOOLEAN : FreeSlot(g, dead) \in SlotRec
    BY Finite DEF FreeSlot, SlotRec, NoSet
  <1>2. \A g, dead : /\ ~FreeSlot(g, dead).inUse /\ ~FreeSlot(g, dead).active
                     /\ FreeSlot(g, dead).set = NoSet
    BY DEF FreeSlot
  <1>3. r.gen \in Nat /\ r.gen + 1 \in Nat
    BY DEF SlotRec
  <1> QED BY <1>1, <1>2, <1>3 DEF Recycled

\* The slots in G, all in use, leave the registry.
Recycle(G) ==
    slot' = [r \in Slots |-> IF r \in G THEN Recycled(slot[r]) ELSE slot[r]]

\* The members of every set are fewer by those in G, and no free slot is lost.
LEMMA RecycleSlots ==
    ASSUME slot \in [Slots -> SlotRec], NEW G, G \subseteq Slots,
           \A r \in G : slot[r].inUse, Recycle(G)
    PROVE  /\ slot' \in [Slots -> SlotRec] /\ Available \subseteq Available'
           /\ \A r \in G : ~slot'[r].inUse /\ ~slot'[r].active /\ slot'[r].set = NoSet
           /\ \A r \in Slots \ G : slot'[r] = slot[r]
           /\ \A i \in Sets : /\ Members(i)' = Members(i) \ G
                              /\ Cardinality(Members(i)') = Cardinality(Members(i))
                                                        - Cardinality(Members(i) \cap G)
                              /\ Cardinality(Members(i) \cap G) \in Nat
                              /\ Cardinality(Members(i)') \in Nat
  <1>1. /\ \A r \in G : /\ slot'[r] \in SlotRec /\ ~slot'[r].inUse /\ ~slot'[r].active
                        /\ slot'[r].set = NoSet
        /\ \A r \in Slots \ G : slot'[r] = slot[r]
    BY RecycledSlot DEF Recycle
  <1>2. slot' \in [Slots -> SlotRec]
    BY <1>1 DEF Recycle
  <1>3. Available \subseteq Available'
    BY <1>1 DEF Available
  <1>4. \A i \in Sets : Members(i)' = Members(i) \ G
    BY <1>1, Finite DEF Members, NoSet
  <1>5. ASSUME NEW i \in Sets
        PROVE  /\ Cardinality(Members(i)') = Cardinality(Members(i))
                                               - Cardinality(Members(i) \cap G)
               /\ Cardinality(Members(i) \cap G) \in Nat
               /\ Cardinality(Members(i)') \in Nat
    <2>1. IsFiniteSet(Members(i))
      BY PartSize DEF Members
    <2>2. Cardinality(Members(i) \ G) = Cardinality(Members(i)) - Cardinality(Members(i) \cap G)
      BY <2>1, FS_Difference
    <2>3. Cardinality(Members(i) \cap G) \in Nat /\ Cardinality(Members(i) \ G) \in Nat
      <3>1. Members(i) \cap G \subseteq Slots /\ Members(i) \ G \subseteq Slots
        BY DEF Members
      <3> QED BY <3>1, PartSize
    <2> QED BY <1>4, <2>2, <2>3
  <1> QED BY <1>1, <1>2, <1>3, <1>4, <1>5

\* Slots leave, and every set that loses members drops as many references, and
\* the one of its commit if it had one; nobody active is left in such a set.
LEMMA DropStep ==
    ASSUME RegistryInv, NEW a \in Actors, Others(a), ~Doing(a, "helpCommit"), Settled(a)',
           NEW G, G \subseteq Slots, \A r \in G : slot[r].inUse, Recycle(G),
           set' \in [Sets -> SetRec],
           \A i \in Sets : Members(i) \cap G = {} => set'[i] = set[i],
           \A i \in Sets : Members(i) \cap G # {} =>
               /\ set'[i].refs = set[i].refs - Cardinality(Members(i) \cap G)
                                   - Pending(set[i])
               /\ ~set'[i].commitRef /\ set'[i].task = set[i].task
               /\ set'[i].state = IF set'[i].refs = 0 THEN "freed" ELSE "inactive"
               /\ \A r \in Members(i) \ G : ~slot[r].active,
           ~fatal'
    PROVE  /\ slot' \in [Slots -> SlotRec]
           /\ SlotInv' /\ SetInv' /\ RefsInv' /\ AllocInv' /\ ~fatal'
  <1>0. set \in [Sets -> SetRec] /\ slot \in [Slots -> SlotRec]
    BY DEF RegistryInv, Types
  <1>1. ~Doing(a, "helpCommit")' /\ ~Doing(a, "allocate")'
    BY SettledAfter
  <1>2. \A i \in Sets : Helpers(i)' = Helpers(i)
    BY <1>1, SameHelpers
  <1>3. /\ slot' \in [Slots -> SlotRec] /\ Available \subseteq Available'
        /\ \A r \in G : ~slot'[r].inUse /\ ~slot'[r].active /\ slot'[r].set = NoSet
        /\ \A r \in Slots \ G : slot'[r] = slot[r]
        /\ \A i \in Sets : /\ Members(i)' = Members(i) \ G
                           /\ Cardinality(Members(i)') = Cardinality(Members(i))
                                                     - Cardinality(Members(i) \cap G)
                           /\ Cardinality(Members(i) \cap G) \in Nat
                           /\ Cardinality(Members(i)') \in Nat
    BY <1>0, RecycleSlots
  <1>4. AllocInv'
    BY <1>1, <1>3, AllocKept
  <1>5. \A i \in Sets : set[i].refs = Cardinality(Members(i)) + Cardinality(Helpers(i))
                                        + Pending(set[i])
    BY DEF RegistryInv, RefsInv
  <1>6. ASSUME NEW i \in Sets
        PROVE  set'[i].refs = Cardinality(Members(i)') + Cardinality(Helpers(i)')
                                + Pending(set'[i])
    <2>1. /\ Members(i)' = Members(i) \ G /\ Helpers(i)' = Helpers(i)
          /\ Cardinality(Members(i)') = Cardinality(Members(i))
                                          - Cardinality(Members(i) \cap G)
          /\ set[i].refs = Cardinality(Members(i)) + Cardinality(Helpers(i))
                             + Pending(set[i])
      BY <1>2, <1>3, <1>5
    <2>2. /\ Cardinality(Members(i)) \in Nat /\ Cardinality(Helpers(i)) \in Nat
          /\ Pending(set[i]) \in {0, 1} /\ Cardinality(Members(i) \cap G) \in Nat
      BY <1>3, Sizes
    <2>3. CASE Members(i) \cap G = {}
      <3>1. Members(i) \ G = Members(i)
        BY <2>3
      <3>2. set'[i] = set[i]
        BY <2>3
      <3> QED BY <2>1, <3>1, <3>2
    <2>4. CASE Members(i) \cap G # {}
      <3>1. /\ Pending(set'[i]) = 0
            /\ set'[i].refs = set[i].refs - Cardinality(Members(i) \cap G) - Pending(set[i])
        BY <2>4 DEF Pending
      <3> QED BY <2>1, <2>2, <3>1
    <2> QED BY <2>3, <2>4
  <1>7. ASSUME NEW i \in Sets, Members(i) \cap G # {}
        PROVE  /\ set'[i].refs = 0 => Members(i)' = {} /\ Helpers(i) = {}
               /\ set[i].state \in {"waiting", "wonPending", "inactive"}
    <2>1. set'[i].refs = Cardinality(Members(i)') + Cardinality(Helpers(i))
      <3>1. Pending(set'[i]) = 0
        BY <1>7 DEF Pending
      <3>2. Helpers(i)' = Helpers(i) /\ Cardinality(Members(i)') \in Nat
        BY <1>2, <1>3
      <3>3. set'[i].refs = Cardinality(Members(i)') + Cardinality(Helpers(i)') + 0
        BY <1>6, <3>1
      <3> QED BY <3>2, <3>3, Sizes
    <2>2. IsFiniteSet(Members(i)') /\ IsFiniteSet(Helpers(i))
      BY PartSize, Finite, FS_Subset DEF Members, Helpers
    <2>3. set'[i].refs = 0 => Members(i)' = {} /\ Helpers(i) = {}
      <3>1. Cardinality(Members(i)') \in Nat /\ Cardinality(Helpers(i)) \in Nat
        BY <1>3, Sizes
      <3>2. set'[i].refs = 0 => Cardinality(Members(i)') = 0 /\ Cardinality(Helpers(i)) = 0
        BY <2>1, <3>1
      <3> QED BY <2>2, <3>2, FS_EmptySet
    <2>4. PICK r \in Slots : slot[r].set = i
      BY <1>7 DEF Members
    <2>5. i # NoSet
      BY Finite DEF NoSet
    <2> QED BY <2>3, <2>4, <2>5 DEF RegistryInv, SlotInv
  <1>8. SetInv'
    <2> SUFFICES ASSUME NEW i \in Sets
                 PROVE  /\ set'[i].commitRef <=> set'[i].state = "wonPending"
                        /\ set'[i].state # "none" => set'[i].task \in Tasks
                        /\ Helpers(i)' # {} => set'[i].state \in {"wonPending", "inactive"}
                        /\ set'[i].state \in {"none", "freed"} => set'[i].refs = 0
      BY DEF SetInv
    <2>1. CASE Members(i) \cap G = {}
      BY <1>2, <2>1 DEF RegistryInv, SetInv
    <2>2. CASE Members(i) \cap G # {}
      <3>1. set[i].task \in Tasks
        BY <1>7, <2>2 DEF RegistryInv, SetInv
      <3> QED BY <1>2, <1>7, <2>2, <3>1
    <2> QED BY <2>1, <2>2
  <1>9. SlotInv'
    <2> SUFFICES ASSUME NEW r \in Slots
                 PROVE  /\ ~slot'[r].inUse => ~slot'[r].active /\ slot'[r].set = NoSet
                        /\ slot'[r].inUse => slot'[r].task \in Tasks
                        /\ slot'[r].inUse /\ slot'[r].set = NoSet => slot'[r].active
                        /\ slot'[r].set # NoSet =>
                             IF slot'[r].active THEN set'[slot'[r].set].state = "waiting"
                             ELSE set'[slot'[r].set].state \in {"wonPending", "inactive"}
      BY DEF SlotInv
    <2>1. CASE r \in G
      BY <1>3, <2>1
    <2>2. CASE r \notin G
      <3>0. PICK i : i = slot[r].set
        OBVIOUS
      <3>1. slot'[r] = slot[r]
        BY <1>3, <2>2
      <3>2. /\ ~slot[r].inUse => ~slot[r].active /\ i = NoSet
            /\ slot[r].inUse => slot[r].task \in Tasks
            /\ slot[r].inUse /\ i = NoSet => slot[r].active
            /\ i # NoSet => IF slot[r].active THEN set[i].state = "waiting"
                            ELSE set[i].state \in {"wonPending", "inactive"}
        BY <3>0 DEF RegistryInv, SlotInv
      <3>3. i # NoSet => i \in Sets
        BY <1>0, <3>0, SetOf
      <3>4. ASSUME i # NoSet
            PROVE  IF slot[r].active THEN set'[i].state = "waiting"
                   ELSE set'[i].state \in {"wonPending", "inactive"}
        <4>1. CASE Members(i) \cap G = {}
          BY <3>2, <3>3, <3>4, <4>1
        <4>2. CASE Members(i) \cap G # {}
          <5>1. r \in Members(i) \ G /\ r \in Members(i)'
            BY <1>3, <2>2, <3>0, <3>3, <3>4 DEF Members
          <5>2. ~slot[r].active /\ set'[i].refs # 0
            <6>1. set'[i].refs = 0 => Members(i)' = {}
              BY <1>7, <3>3, <3>4, <4>2
            <6> QED BY <3>3, <3>4, <4>2, <5>1, <6>1
          <5> QED BY <3>3, <3>4, <4>2, <5>2
        <4> QED BY <4>1, <4>2
      <3> QED BY <3>0, <3>1, <3>2, <3>4
    <2> QED BY <2>1, <2>2
  <1> QED BY <1>3, <1>4, <1>6, <1>8, <1>9 DEF RefsInv

\* One slot is recycled.
LEMMA RecycleOne ==
    ASSUME slot \in [Slots -> SlotRec], NEW s \in Slots,
           slot' = [slot EXCEPT ![s] = Recycled(@)]
    PROVE  Recycle({s})
  BY DEF Recycle

\* An outcome slot is given back: the winner is committed first, if that is
\* still to do (toka_wait_registry_release).
LEMMA ReleaseStep ==
    ASSUME RegistryInv, NEW a \in Actors, Others(a), ~Doing(a, "helpCommit"), Settled(a)',
           NEW s \in Slots, NEW j \in Sets, slot[s].set = j, slot[s].inUse,
           ~slot[s].active,
           slot' = [slot EXCEPT ![s] = Recycled(@)],
           set' = [set EXCEPT ![j] = Dropped(Committed(j), 1)],
           fatal' = (fatal \/ CommitAborts(j) \/ Committed(j).state # "inactive"
                           \/ Committed(j).refs < 1)
    PROVE  /\ set' \in [Sets -> SetRec] /\ slot' \in [Slots -> SlotRec]
           /\ SlotInv' /\ SetInv' /\ RefsInv' /\ AllocInv' /\ ~fatal'
  <1>0. set \in [Sets -> SetRec] /\ slot \in [Slots -> SlotRec]
    BY DEF RegistryInv, Types
  <1>1. Recycle({s})
    BY <1>0, RecycleOne
  <1>2. Members(j) \cap {s} = {s} /\ \A i \in Sets : i # j => Members(i) \cap {s} = {}
    BY DEF Members
  <1>3. Cardinality(Members(j) \cap {s}) = 1
    BY <1>2, FS_Singleton
  <1>4. j # NoSet
    BY Finite DEF NoSet
  <1>5. set[j].state \in {"wonPending", "inactive"}
    BY <1>4 DEF RegistryInv, SlotInv
  <1>6. \A r \in Members(j) \ {s} : ~slot[r].active
    BY <1>4, <1>5 DEF RegistryInv, SlotInv, Members
  <1>7. set[j].refs >= 1 + Pending(set[j])
    <2>1. set[j].refs = Cardinality(Members(j)) + Cardinality(Helpers(j)) + Pending(set[j])
      BY DEF RegistryInv, RefsInv
    <2>2. Members(j) # {} /\ IsFiniteSet(Members(j))
      BY PartSize DEF Members
    <2>3. Cardinality(Members(j)) # 0
      BY <2>2, FS_EmptySet
    <2> QED BY <2>1, <2>3, Sizes
  <1> DEFINE x == Dropped(Committed(j), 1)
  <1>8. /\ x \in SetRec /\ x.refs = set[j].refs - 1 - Pending(set[j])
        /\ ~x.commitRef /\ x.task = set[j].task
        /\ x.state = IF x.refs = 0 THEN "freed" ELSE "inactive"
        /\ ~CommitAborts(j) /\ Committed(j).state = "inactive" /\ ~(Committed(j).refs < 1)
    BY <1>5, <1>7, CommittedDrop
  <1>9. set' = [set EXCEPT ![j] = x]
    OBVIOUS
  <1> HIDE DEF x
  <1>10. ~fatal'
    BY <1>8 DEF RegistryInv
  <1>11. set' \in [Sets -> SetRec] /\ set'[j] = x /\ \A i \in Sets : i # j => set'[i] = set[i]
    BY <1>0, <1>8, <1>9
  <1> DEFINE G == {s}
  <1>12. G \subseteq Slots /\ \A r \in G : slot[r].inUse
    OBVIOUS
  <1>13. \A i \in Sets : Members(i) \cap G = {} => set'[i] = set[i]
    BY <1>2, <1>11
  <1>14. \A i \in Sets : Members(i) \cap G # {} =>
               /\ set'[i].refs = set[i].refs - Cardinality(Members(i) \cap G)
                                   - Pending(set[i])
               /\ ~set'[i].commitRef /\ set'[i].task = set[i].task
               /\ set'[i].state = IF set'[i].refs = 0 THEN "freed" ELSE "inactive"
               /\ \A r \in Members(i) \ G : ~slot[r].active
    BY <1>2, <1>3, <1>6, <1>8, <1>11
  <1> HIDE DEF G
  <1>15. Recycle(G)
    BY <1>1 DEF G
  <1> QED BY <1>10, <1>11, <1>12, <1>13, <1>14, <1>15, DropStep

\* A slot that belongs to no set leaves.
LEMMA SingleStep ==
    ASSUME RegistryInv, NEW a \in Actors, Others(a), ~Doing(a, "helpCommit"), Settled(a)',
           NEW s \in Slots, slot[s].inUse, slot[s].set = NoSet,
           slot' = [slot EXCEPT ![s] = Recycled(@)], set' = set, fatal' = fatal
    PROVE  /\ slot' \in [Slots -> SlotRec]
           /\ SlotInv' /\ SetInv' /\ RefsInv' /\ AllocInv' /\ ~fatal'
  <1>0. set \in [Sets -> SetRec] /\ slot \in [Slots -> SlotRec] /\ ~fatal
    BY DEF RegistryInv, Types
  <1> DEFINE G == {s}
  <1>1. Recycle(G) /\ G \subseteq Slots /\ \A r \in G : slot[r].inUse
    BY <1>0, RecycleOne
  <1>2. \A i \in Sets : Members(i) \cap G = {}
    BY Finite DEF Members, NoSet
  <1> HIDE DEF G
  <1>3. set' \in [Sets -> SetRec] /\ ~fatal' /\ \A i \in Sets : set'[i] = set[i]
    BY <1>0
  <1> QED BY <1>1, <1>2, <1>3, DropStep

\* A group is cancelled as a whole: its members are all active, they are all it
\* is referred to by, and it is freed (toka_wait_set_cancel_group_and_wake_locked).
LEMMA CancelGroupStep ==
    ASSUME RegistryInv, NEW a \in Actors, Others(a), ~Doing(a, "helpCommit"), Settled(a)',
           NEW j \in Sets, CancelGroup(j)
    PROVE  /\ set' \in [Sets -> SetRec] /\ slot' \in [Slots -> SlotRec]
           /\ SlotInv' /\ SetInv' /\ RefsInv' /\ AllocInv' /\ ~fatal'
  <1>0. set \in [Sets -> SetRec] /\ slot \in [Slots -> SlotRec]
    BY DEF RegistryInv, Types
  <1>1. CASE ~CanCancelGroup(j)
    <2>1. slot' = slot /\ set' = set /\ fatal' = fatal
      BY <1>1 DEF CancelGroup
    <2>2. ~Doing(a, "helpCommit")' /\ ~Doing(a, "allocate")'
      BY SettledAfter
    <2>3. \A i \in Sets : Helpers(i)' = Helpers(i) /\ Members(i)' = Members(i)
      BY <2>1, <2>2, SameHelpers DEF Members
    <2>4. AllocInv'
      BY <2>1, <2>2, AllocKept DEF Available
    <2>5. SlotInv' /\ ~fatal'
      BY <2>1 DEF RegistryInv, SlotInv
    <2>6. SetInv'
      BY <2>1, <2>3 DEF RegistryInv, SetInv
    <2>7. RefsInv'
      BY <2>1, <2>3 DEF RegistryInv, RefsInv, Pending
    <2> QED BY <1>0, <2>1, <2>4, <2>5, <2>6, <2>7
  <1>2. CASE CanCancelGroup(j)
    <2> DEFINE G == ActiveMembers(j)
               n == Cardinality(G)
               y == [set[j] EXCEPT !.state = "inactive"]
               x == Dropped(y, n)
    <2>1. set[j].state = "waiting" /\ G # {}
      BY <1>2 DEF CanCancelGroup
    <2>2. j # NoSet
      BY Finite DEF NoSet
    <2>3. G = Members(j)
      BY <2>1, <2>2 DEF RegistryInv, SlotInv, ActiveMembers, Members
    <2>4. Helpers(j) = {} /\ Pending(set[j]) = 0 /\ ~set[j].commitRef
      BY <2>1 DEF RegistryInv, SetInv, Pending
    <2>5. set[j].refs = n /\ n \in Nat
      <3>1. set[j].refs = Cardinality(Members(j)) + Cardinality(Helpers(j)) + Pending(set[j])
        BY DEF RegistryInv, RefsInv
      <3> QED BY <2>3, <2>4, <3>1, Sizes, FS_EmptySet
    <2>6. /\ y \in SetRec /\ y.refs = n /\ y.task = set[j].task
          /\ y.commitRef = set[j].commitRef
      BY <1>0, <2>5 DEF SetRec
    <2>7. /\ slot' = [r \in Slots |-> IF r \in G THEN Recycled(slot[r]) ELSE slot[r]]
          /\ set' = [set EXCEPT ![j] = x]
          /\ fatal' = (fatal \/ set[j].refs # n)
      BY <1>2 DEF CancelGroup
    <2> HIDE DEF y
    <2>8. /\ x \in SetRec /\ x.refs = 0 /\ x.state = "freed" /\ x.task = set[j].task
          /\ ~x.commitRef
      BY <2>4, <2>5, <2>6, DroppedRec
    <2> HIDE DEF x
    <2>9. set' \in [Sets -> SetRec] /\ set'[j] = x /\ \A i \in Sets : i # j => set'[i] = set[i]
      BY <1>0, <2>7, <2>8
    <2>10. ~fatal'
      BY <2>5, <2>7 DEF RegistryInv
    <2>11. G \subseteq Slots /\ \A r \in G : slot[r].inUse
      BY DEF ActiveMembers, RegistryInv, SlotInv
    <2>12. /\ \A i \in Sets : i # j => Members(i) \cap G = {}
           /\ Members(j) \cap G = G /\ Members(j) \ G = {}
      BY <2>3 DEF Members
    <2> HIDE DEF G
    <2>13. \A i \in Sets : Members(i) \cap G = {} => set'[i] = set[i]
      BY <2>1, <2>9, <2>12
    <2>14. \A i \in Sets : Members(i) \cap G # {} =>
               /\ set'[i].refs = set[i].refs - Cardinality(Members(i) \cap G)
                                   - Pending(set[i])
               /\ ~set'[i].commitRef /\ set'[i].task = set[i].task
               /\ set'[i].state = IF set'[i].refs = 0 THEN "freed" ELSE "inactive"
               /\ \A r \in Members(i) \ G : ~slot[r].active
      <3> SUFFICES ASSUME NEW i \in Sets, Members(i) \cap G # {}
                   PROVE  /\ set'[i].refs = set[i].refs - Cardinality(Members(i) \cap G)
                                              - Pending(set[i])
                          /\ ~set'[i].commitRef /\ set'[i].task = set[i].task
                          /\ set'[i].state = IF set'[i].refs = 0 THEN "freed" ELSE "inactive"
                          /\ \A r \in Members(i) \ G : ~slot[r].active
        OBVIOUS
      <3>1. i = j
        BY <2>12
      <3>2. set[j].refs - Cardinality(Members(j) \cap G) - Pending(set[j]) = 0
        <4>1. Cardinality(Members(j) \cap G) = n
          BY <2>12
        <4> HIDE DEF n
        <4> QED BY <2>4, <2>5, <4>1
      <3> QED BY <2>8, <2>9, <2>12, <3>1, <3>2
    <2>15. Recycle(G)
      BY <2>7 DEF Recycle
    <2> QED BY <2>9, <2>10, <2>11, <2>13, <2>14, <2>15, DropStep
  <1> QED BY <1>1, <1>2

\* The outcomes nobody will read are reaped with the task, and every set drops
\* as many references as it loses members (toka_wait_registry_reap_terminal).
LEMMA ReapStep ==
    ASSUME RegistryInv, NEW a \in Actors, Others(a), ~Doing(a, "helpCommit"), Settled(a)',
           NEW G, G \subseteq Slots,
           \A r \in G : /\ slot[r].inUse /\ ~slot[r].active /\ slot[r].set # NoSet
                        /\ set[slot[r].set].state = "inactive",
           Recycle(G),
           set' = [i \in Sets |-> IF {r \in G : slot[r].set = i} = {} THEN set[i]
                     ELSE Dropped(set[i], Cardinality({r \in G : slot[r].set = i}))],
           fatal' = (fatal \/ \E i \in Sets :
                                Underflow(i, Cardinality({r \in G : slot[r].set = i})))
    PROVE  /\ set' \in [Sets -> SetRec] /\ slot' \in [Slots -> SlotRec]
           /\ SlotInv' /\ SetInv' /\ RefsInv' /\ AllocInv' /\ ~fatal'
  <1>0. set \in [Sets -> SetRec] /\ slot \in [Slots -> SlotRec]
    BY DEF RegistryInv, Types
  <1>1. \A i \in Sets : {r \in G : slot[r].set = i} = Members(i) \cap G
    BY DEF Members
  <1>2. \A i \in Sets : /\ IsFiniteSet(Members(i)) /\ Cardinality(Members(i) \cap G) \in Nat
                        /\ Cardinality(Members(i) \cap G) <= Cardinality(Members(i))
    BY PartSize, FS_Intersection DEF Members
  <1>3. \A i \in Sets : set[i].refs = Cardinality(Members(i)) + Cardinality(Helpers(i))
                                        + Pending(set[i])
    BY DEF RegistryInv, RefsInv
  <1>4. ~fatal'
    <2>1. ASSUME NEW i \in Sets PROVE ~Underflow(i, Cardinality(Members(i) \cap G))
      BY <1>2, <1>3, Sizes DEF Underflow
    <2> QED BY <1>1, <2>1 DEF RegistryInv
  <1>5. ASSUME NEW i \in Sets, Members(i) \cap G = {} PROVE set'[i] = set[i]
    BY <1>1, <1>5
  <1>6. ASSUME NEW i \in Sets, Members(i) \cap G # {}
        PROVE  /\ set'[i] \in SetRec
               /\ set'[i].refs = set[i].refs - Cardinality(Members(i) \cap G)
                                   - Pending(set[i])
               /\ ~set'[i].commitRef /\ set'[i].task = set[i].task
               /\ set'[i].state = IF set'[i].refs = 0 THEN "freed" ELSE "inactive"
               /\ \A r \in Members(i) \ G : ~slot[r].active
    <2> DEFINE n == Cardinality(Members(i) \cap G)
               x == Dropped(set[i], n)
    <2>1. set'[i] = x
      BY <1>1, <1>6
    <2>2. set[i].state = "inactive" /\ i # NoSet
      BY <1>6, Finite DEF Members, NoSet
    <2>3. ~set[i].commitRef /\ Pending(set[i]) = 0
      BY <2>2 DEF RegistryInv, SetInv, Pending
    <2>4. n \in Nat /\ set[i] \in SetRec /\ set[i].refs \in Int
      BY <1>0, <1>2 DEF SetRec
    <2> HIDE DEF n
    <2>5. /\ x \in SetRec /\ x.refs = set[i].refs - n /\ x.task = set[i].task
          /\ x.commitRef = set[i].commitRef
          /\ x.state = IF set[i].refs = n THEN "freed" ELSE set[i].state
      BY <2>4, DroppedRec
    <2> HIDE DEF x
    <2>6. \A r \in Members(i) \ G : ~slot[r].active
      BY <2>2 DEF RegistryInv, SlotInv, Members
    <2>7. x.refs = set[i].refs - n - Pending(set[i]) /\ (x.refs = 0 <=> set[i].refs = n)
      <3>1. x.refs = set[i].refs - n
        BY <2>5
      <3>2. \A p, q, m : /\ p \in Int /\ n \in Nat /\ q = p - n /\ m = 0
                         => q = p - n - m /\ (q = 0 <=> p = n)
        OBVIOUS
      <3> QED BY <2>3, <2>4, <3>1, <3>2
    <2> QED BY <2>1, <2>2, <2>3, <2>5, <2>6, <2>7 DEF n
  <1>7. set' \in [Sets -> SetRec]
    <2>1. \A i \in Sets : set'[i] \in SetRec
      BY <1>0, <1>5, <1>6
    <2> QED BY <2>1
  <1> QED BY <1>4, <1>5, <1>6, <1>7, DropStep

-----------------------------------------------------------------------------
(* Allocation.                                                             *)

\* A slot that is installed.
LEMMA InstalledSlot ==
    ASSUME RegistryInv, NEW t \in Tasks, NEW i \in 0 .. MaxSets, NEW s \in Slots
    PROVE  /\ Installed(t, i, s) \in SlotRec
           /\ Installed(t, i, s).inUse /\ Installed(t, i, s).active
           /\ Installed(t, i, s).set = i /\ Installed(t, i, s).task = t
  <1>1. slot[s] \in SlotRec /\ gen[t] \in Int
    BY DEF RegistryInv, Types
  <1> DEFINE x == [slot[s] EXCEPT !.state = "waiting", !.set = i, !.task = t, !.epoch = gen[t]]
             y == [x EXCEPT !.inUse = TRUE, !.active = TRUE]
  <1>2. x \in SlotRec /\ x.set = i /\ x.task = t
    BY <1>1 DEF SlotRec
  <1>3. Installed(t, i, s) = y
    BY <1>1 DEF Installed, SlotRec
  <1> HIDE DEF x
  <1>4. y \in SlotRec
    BY <1>2 DEF SlotRec
  <1>5. y.set = x.set /\ y.task = x.task
    BY <1>2 DEF SlotRec
  <1>6. y.inUse /\ y.active
    BY <1>2 DEF SlotRec
  <1> HIDE DEF y
  <1> QED BY <1>2, <1>3, <1>4, <1>5, <1>6

\* One slot of no set is installed.
LEMMA InstallSingle ==
    ASSUME RegistryInv, NEW a \in Actors, Others(a), ~Doing(a, "helpCommit"), Settled(a)',
           a = Exec, NEW t \in Tasks, NEW s \in Available,
           slot' = [slot EXCEPT ![s] = Installed(t, NoSet, s)], set' = set, fatal' = fatal
    PROVE  /\ slot' \in [Slots -> SlotRec]
           /\ SlotInv' /\ SetInv' /\ RefsInv' /\ AllocInv' /\ ~fatal'
  <1>0. set \in [Sets -> SetRec] /\ slot \in [Slots -> SlotRec] /\ s \in Slots
    BY DEF RegistryInv, Types, Available
  <1> DEFINE x == Installed(t, NoSet, s)
  <1>1. x \in SlotRec /\ x.inUse /\ x.active /\ x.set = NoSet /\ x.task = t
    <2>1. NoSet \in 0 .. MaxSets
      BY Finite DEF NoSet
    <2> QED BY <1>0, <2>1, InstalledSlot
  <1>2. slot' = [slot EXCEPT ![s] = x]
    OBVIOUS
  <1> HIDE DEF x
  <1>3. slot' \in [Slots -> SlotRec] /\ slot'[s] = x /\ \A r \in Slots : r # s => slot'[r] = slot[r]
    BY <1>0, <1>1, <1>2
  <1>4. ~slot[s].inUse /\ slot[s].set = NoSet
    BY <1>0 DEF Available, RegistryInv, SlotInv
  <1>5. ~Doing(a, "helpCommit")' /\ ~Doing(a, "allocate")'
    BY SettledAfter
  <1>6. \A i \in Sets : Helpers(i)' = Helpers(i)
    BY <1>5, SameHelpers
  <1>7. \A i \in Sets : Members(i)' = Members(i)
    BY <1>1, <1>3, <1>4, Finite DEF Members, NoSet
  <1>8. AllocInv'
    BY <1>5 DEF AllocInv, RegistryInv, Others, Doing
  <1>9. SlotInv' /\ ~fatal'
    BY <1>1, <1>3 DEF RegistryInv, SlotInv
  <1>10. SetInv'
    BY <1>6 DEF RegistryInv, SetInv
  <1>11. RefsInv'
    BY <1>6, <1>7 DEF RegistryInv, RefsInv, Pending
  <1> QED BY <1>3, <1>8, <1>9, <1>10, <1>11

\* Two slots of a new set are installed, and the set has two references.
LEMMA InstallPair ==
    ASSUME RegistryInv, NEW a \in Actors, Others(a), ~Doing(a, "helpCommit"), Settled(a)',
           a = Exec, NEW t \in Tasks, NEW S, S \subseteq Available, Cardinality(S) = 2,
           NEW j \in Sets, set[j].state = "none",
           slot' = [s \in Slots |-> IF s \in S THEN Installed(t, j, s) ELSE slot[s]],
           set' = [set EXCEPT ![j] = [NewSet EXCEPT !.state = "waiting", !.refs = 2,
                                                    !.task = t, !.epoch = gen[t]]],
           fatal' = fatal
    PROVE  /\ slot' \in [Slots -> SlotRec] /\ set' \in [Sets -> SetRec]
           /\ SlotInv' /\ SetInv' /\ RefsInv' /\ AllocInv' /\ ~fatal'
  <1>0. set \in [Sets -> SetRec] /\ slot \in [Slots -> SlotRec] /\ S \subseteq Slots
    BY DEF RegistryInv, Types, Available
  <1> DEFINE x == [NewSet EXCEPT !.state = "waiting", !.refs = 2, !.task = t, !.epoch = gen[t]]
  <1>1. /\ x \in SetRec /\ x.state = "waiting" /\ x.refs = 2 /\ x.task = t
        /\ x.commitRef = FALSE
    <2> DEFINE y == [NewSet EXCEPT !.state = "waiting", !.task = t]
               z == [y EXCEPT !.epoch = gen[t]]
    <2>1. gen[t] \in Int /\ NoSlot \in 0 .. NumSlots
      BY Finite DEF RegistryInv, Types, NoSlot
    <2>2. NewSet \in SetRec /\ NewSet.commitRef = FALSE
      BY <2>1 DEF NewSet, SetRec
    <2>3. x = [z EXCEPT !.refs = 2]
      BY DEF NewSet
    <2>4. /\ y \in SetRec /\ y.state = "waiting" /\ y.task = t
          /\ y.commitRef = NewSet.commitRef
      BY <2>2 DEF SetRec
    <2> HIDE DEF y
    <2>5. /\ z \in SetRec /\ z.state = "waiting" /\ z.task = t
          /\ z.commitRef = NewSet.commitRef
      BY <2>1, <2>4 DEF SetRec
    <2> HIDE DEF z
    <2> DEFINE w == [z EXCEPT !.refs = 2]
    <2>6. w \in SetRec /\ w.state = z.state /\ w.task = z.task /\ w.refs = 2
      BY <2>5 DEF SetRec
    <2>7. w.commitRef = z.commitRef
      BY <2>5 DEF SetRec
    <2> HIDE DEF w, x
    <2>8. x = w
      BY <2>3 DEF w
    <2> QED BY <2>2, <2>5, <2>6, <2>7, <2>8
  <1>2. set' = [set EXCEPT ![j] = x]
    OBVIOUS
  <1> HIDE DEF x
  <1>3. set' \in [Sets -> SetRec] /\ set'[j] = x /\ \A i \in Sets : i # j => set'[i] = set[i]
    BY <1>0, <1>1, <1>2
  <1>4. j \in 0 .. MaxSets /\ j # NoSet
    BY Finite DEF Sets, NoSet
  <1>5. /\ \A r \in S : /\ slot'[r] \in SlotRec /\ slot'[r].inUse /\ slot'[r].active
                        /\ slot'[r].set = j /\ slot'[r].task = t
        /\ \A r \in Slots \ S : slot'[r] = slot[r]
    BY <1>0, <1>4, InstalledSlot
  <1>6. slot' \in [Slots -> SlotRec]
    BY <1>0, <1>5
  <1>7. \A r \in S : ~slot[r].inUse /\ slot[r].set = NoSet
    BY <1>0 DEF Available, RegistryInv, SlotInv
  <1>8. ~Doing(a, "helpCommit")' /\ ~Doing(a, "allocate")'
    BY SettledAfter
  <1>9. \A i \in Sets : Helpers(i)' = Helpers(i)
    BY <1>8, SameHelpers
  <1>10. Members(j) = {} /\ Helpers(j) = {}
    BY <1>4 DEF RegistryInv, SlotInv, SetInv, Members
  <1>11. Members(j)' = S /\ \A i \in Sets : i # j => Members(i)' = Members(i)
    <2>1. Members(j)' = S
      BY <1>0, <1>5, <1>10 DEF Members
    <2>2. ASSUME NEW i \in Sets, i # j PROVE Members(i)' = Members(i)
      BY <1>0, <1>5, <1>7, <2>2, Finite, SMTT(30) DEF Members, NoSet
    <2> QED BY <2>1, <2>2
  <1>12. AllocInv'
    BY <1>8 DEF AllocInv, RegistryInv, Others, Doing
  <1>13. ~fatal'
    BY DEF RegistryInv
  <1>14. SlotInv'
    <2> SUFFICES ASSUME NEW r \in Slots
                 PROVE  /\ ~slot'[r].inUse => ~slot'[r].active /\ slot'[r].set = NoSet
                        /\ slot'[r].inUse => slot'[r].task \in Tasks
                        /\ slot'[r].inUse /\ slot'[r].set = NoSet => slot'[r].active
                        /\ slot'[r].set # NoSet =>
                             IF slot'[r].active THEN set'[slot'[r].set].state = "waiting"
                             ELSE set'[slot'[r].set].state \in {"wonPending", "inactive"}
      BY DEF SlotInv
    <2>1. CASE r \in S
      BY <1>1, <1>3, <1>4, <1>5, <2>1
    <2>2. CASE r \notin S
      <3>1. slot'[r] = slot[r] /\ slot[r].set # j
        BY <1>5, <1>10, <2>2 DEF Members
      <3>2. /\ ~slot[r].inUse => ~slot[r].active /\ slot[r].set = NoSet
            /\ slot[r].inUse => slot[r].task \in Tasks
            /\ slot[r].inUse /\ slot[r].set = NoSet => slot[r].active
            /\ slot[r].set # NoSet =>
                 IF slot[r].active THEN set[slot[r].set].state = "waiting"
                 ELSE set[slot[r].set].state \in {"wonPending", "inactive"}
        BY DEF RegistryInv, SlotInv
      <3>3. slot[r].set # NoSet => set'[slot[r].set] = set[slot[r].set]
        BY <1>0, <1>3, <3>1, SetOf
      <3> QED BY <3>1, <3>2, <3>3
    <2> QED BY <2>1, <2>2
  <1>15. SetInv'
    <2> SUFFICES ASSUME NEW i \in Sets
                 PROVE  /\ set'[i].commitRef <=> set'[i].state = "wonPending"
                        /\ set'[i].state # "none" => set'[i].task \in Tasks
                        /\ Helpers(i)' # {} => set'[i].state \in {"wonPending", "inactive"}
                        /\ set'[i].state \in {"none", "freed"} => set'[i].refs = 0
      BY DEF SetInv
    <2>1. CASE i = j
      BY <1>1, <1>3, <1>9, <1>10, <2>1
    <2>2. CASE i # j
      BY <1>3, <1>9, <2>2 DEF RegistryInv, SetInv
    <2> QED BY <2>1, <2>2
  <1>16. RefsInv'
    <2> SUFFICES ASSUME NEW i \in Sets
                 PROVE  set'[i].refs = Cardinality(Members(i)') + Cardinality(Helpers(i)')
                                         + Pending(set'[i])
      BY DEF RefsInv
    <2>1. CASE i = j
      <3>1. Cardinality(Members(j)') = 2 /\ Cardinality(Helpers(j)') = 0 /\ Pending(x) = 0
        BY <1>1, <1>9, <1>10, <1>11, FS_EmptySet DEF Pending
      <3> QED BY <1>1, <1>3, <2>1, <3>1
    <2>2. CASE i # j
      <3>1. Members(i)' = Members(i) /\ Helpers(i)' = Helpers(i) /\ set'[i] = set[i]
        BY <1>3, <1>9, <1>11, <2>2
      <3> QED BY <3>1 DEF RegistryInv, RefsInv
    <2> QED BY <2>1, <2>2
  <1> QED BY <1>3, <1>6, <1>12, <1>13, <1>14, <1>15, <1>16

-----------------------------------------------------------------------------
(* The arguments of operations.                                            *)

\* The topmost operation is one of the operations.
LEMMA TopIs ==
    ASSUME Stacks, NEW a \in Actors, NEW name, Doing(a, name)
    PROVE  /\ Head(todo[a]) \in Below \cup Above /\ Head(todo[a]).op = name
           /\ Arg(a) = Head(todo[a]).arg /\ todo[a] # <<>>
  BY DEF Stacks, StackOK, Doing, Arg

\* What the argument of an operation is, by its name.
LEMMA ArgTask ==
    ASSUME Stacks, NEW a \in Actors, NEW name \in OfTask, Doing(a, name)
    PROVE  \E t \in Tasks : Arg(a) = <<t>>
  <1>1. Head(todo[a]) \in [op : OfTask, arg : {<<t>> : t \in Tasks}]
    BY TopIs DEF Below, Above, OfTask, OfEpoch
  <1> QED BY <1>1, TopIs

\* An operation on an epoch of a task.
LEMMA ArgEpoch ==
    ASSUME Stacks, NEW a \in Actors, NEW name \in OfEpoch, Doing(a, name)
    PROVE  Arg(a) \in Tasks \X Int
  <1>1. Head(todo[a]) \in [op : OfEpoch, arg : Tasks \X Int]
    BY TopIs DEF Below, Above, OfTask, OfEpoch
  <1> QED BY <1>1, TopIs

\* An operation on a wait token.
LEMMA ArgToken ==
    ASSUME Stacks, NEW a \in Actors, NEW name \in {"release", "isWinner"}, Doing(a, name)
    PROVE  Arg(a) \in Slots \X Nat
  <1>1. Head(todo[a]) \in [op : {"release", "isWinner"}, arg : Slots \X Nat]
    BY TopIs DEF Below, Above, OfTask, OfEpoch
  <1> QED BY <1>1, TopIs

\* The wake of a token.
LEMMA ArgWake ==
    ASSUME Stacks, NEW a \in Actors, Doing(a, "wake")
    PROVE  Arg(a) \in Slots \X Nat \X {"release", "keep"}
  <1>1. Head(todo[a]) \in [op : {"wake"}, arg : Slots \X Nat \X {"release", "keep"}]
    BY TopIs DEF Below, Above, OfTask, OfEpoch
  <1> QED BY <1>1, TopIs

\* The compare-and-swap of a rollback, and the end of a task.
LEMMA ArgState ==
    ASSUME Stacks, NEW a \in Actors
    PROVE  /\ Doing(a, "abortCas") => Arg(a) \in Tasks \X TaskStates
           /\ Doing(a, "terminal") => Arg(a) \in Tasks \X Terminal
  <1>1. ASSUME Doing(a, "abortCas") PROVE Arg(a) \in Tasks \X TaskStates
    <2>1. Head(todo[a]) \in [op : {"abortCas"}, arg : Tasks \X TaskStates]
      BY <1>1, TopIs DEF Below, Above, OfTask, OfEpoch
    <2> QED BY <1>1, <2>1, TopIs
  <1>2. ASSUME Doing(a, "terminal") PROVE Arg(a) \in Tasks \X Terminal
    <2>1. Head(todo[a]) \in [op : {"terminal"}, arg : Tasks \X Terminal]
      BY <1>2, TopIs DEF Below, Above, OfTask, OfEpoch
    <2> QED BY <1>2, <2>1, TopIs
  <1> QED BY <1>1, <1>2

\* A helper's set, and what an allocation is for.
LEMMA ArgTop ==
    ASSUME Stacks, NEW a \in Actors
    PROVE  /\ Doing(a, "helpCommit") => \E i \in Sets : Arg(a) = <<i>>
           /\ Doing(a, "allocate") => Arg(a) \in Tasks \X {"single", "pair"}
  <1>1. ASSUME Doing(a, "helpCommit") PROVE \E i \in Sets : Arg(a) = <<i>>
    <2>1. Head(todo[a]) \in [op : {"helpCommit"}, arg : {<<i>> : i \in Sets}]
      BY <1>1, TopIs DEF Below, Above, OfTask, OfEpoch
    <2> QED BY <1>1, <2>1, TopIs
  <1>2. ASSUME Doing(a, "allocate") PROVE Arg(a) \in Tasks \X {"single", "pair"}
    <2>1. Head(todo[a]) \in [op : {"allocate"}, arg : Tasks \X {"single", "pair"}]
      BY <1>2, TopIs DEF Below, Above, OfTask, OfEpoch
    <2> QED BY <1>2, <2>1, TopIs
  <1> QED BY <1>1, <1>2

\* The operations the code pushes are operations.
LEMMA MadeOps ==
    /\ \A n \in OfTask, t \in Tasks : Op(n, <<t>>) \in Below
    /\ \A n \in OfEpoch, t \in Tasks, g \in Int : Op(n, <<t, g>>) \in Below
    /\ \A n \in {"release", "isWinner"}, s \in Slots, g \in Nat : Op(n, <<s, g>>) \in Below
    /\ \A s \in Slots, g \in Nat, m \in {"release", "keep"} : Op("wake", <<s, g, m>>) \in Below
    /\ \A t \in Tasks, v \in TaskStates : Op("abortCas", <<t, v>>) \in Below
    /\ \A t \in Tasks, v \in Terminal : Op("terminal", <<t, v>>) \in Below
    /\ \A i \in Sets : Op("helpCommit", <<i>>) \in Above
    /\ \A t \in Tasks, k \in {"single", "pair"} : Op("allocate", <<t, k>>) \in Above
  <1>1. \A n \in OfTask, t \in Tasks : Op(n, <<t>>) \in Below
    BY DEF Op, Below
  <1>2. \A n \in OfEpoch, t \in Tasks, g \in Int : Op(n, <<t, g>>) \in Below
    BY DEF Op, Below
  <1>3. \A n \in {"release", "isWinner"}, s \in Slots, g \in Nat : Op(n, <<s, g>>) \in Below
    BY DEF Op, Below
  <1>4. \A s \in Slots, g \in Nat, m \in {"release", "keep"} : Op("wake", <<s, g, m>>) \in Below
    BY DEF Op, Below
  <1>5. \A t \in Tasks, v \in TaskStates : Op("abortCas", <<t, v>>) \in Below
    BY DEF Op, Below
  <1>6. \A t \in Tasks, v \in Terminal : Op("terminal", <<t, v>>) \in Below
    BY DEF Op, Below
  <1>7. /\ \A i \in Sets : Op("helpCommit", <<i>>) \in Above
        /\ \A t \in Tasks, k \in {"single", "pair"} : Op("allocate", <<t, k>>) \in Above
    BY DEF Op, Above
  <1> QED BY <1>1, <1>2, <1>3, <1>4, <1>5, <1>6, <1>7

\* Short stacks of operations.
LEMMA ShortOps ==
    /\ <<>> \in Seq(Below)
    /\ \A o \in Below : <<o>> \in Seq(Below)
    /\ \A o, p \in Below : <<o, p>> \in Seq(Below)
    /\ \A o, p, q \in Below : <<o, p, q>> \in Seq(Below)
  <1> DEFINE B == Below
  <1>1. /\ <<>> \in Seq(B) /\ \A o \in B : <<o>> \in Seq(B)
        /\ \A o, p \in B : <<o, p>> \in Seq(B)
        /\ \A o, p, q \in B : <<o, p, q>> \in Seq(B)
    <2> HIDE DEF B
    <2> QED OBVIOUS
  <1> QED BY <1>1

-----------------------------------------------------------------------------
(* The steps that leave the slots and the sets alone.                      *)

\* An operation is replaced by operations that lie below.
LEMMA PlainMove ==
    ASSUME RegistryInv, NEW a \in Actors, NEW name, Doing(a, name),
           NEW ops \in Seq(Below), Continue(a, ops)
    PROVE  Stacks' /\ Others(a) /\ Settled(a)'
  <1>1. Stacks /\ todo[a] # <<>>
    BY DEF RegistryInv, Doing
  <1> QED BY <1>1, PlainOps DEF Others, Settled

\* An operation that is not a helper's leaves the registry alone.
LEMMA QuietMove ==
    ASSUME RegistryInv, NEW a \in Actors, NEW name, Doing(a, name),
           name # "helpCommit", NEW ops \in Seq(Below), Continue(a, ops),
           Types', slot' = slot, set' = set, fatal' = fatal
    PROVE  RegistryInv'
  <1>1. Stacks' /\ Others(a) /\ Settled(a)'
    BY PlainMove
  <1>2. ~Doing(a, "helpCommit")
    BY DEF Doing
  <1> QED BY <1>1, <1>2, QuietStep

\* A call by an actor that was doing nothing.
LEMMA CallMove ==
    ASSUME RegistryInv, NEW a \in Actors, todo[a] = <<>>, NEW ops \in Seq(Below),
           Call(a, ops), Types', slot' = slot, set' = set, fatal' = fatal
    PROVE  RegistryInv'
  <1>1. todo \in [Actors -> Seq(Below \cup Above)] /\ \A b \in Actors : StackOK(todo[b])
    BY DEF RegistryInv, Stacks
  <1>2. ops \in Seq(Below \cup Above)
    OBVIOUS
  <1>3. todo' = [todo EXCEPT ![a] = ops]
    BY DEF Call
  <1>4. ops # <<>> => Head(ops) \in Below /\ Tail(ops) \in Seq(Below)
    OBVIOUS
  <1>5. Stacks' /\ Others(a) /\ Settled(a)'
    BY <1>1, <1>2, <1>3, <1>4 DEF Stacks, StackOK, Others, Settled
  <1>6. ~Doing(a, "helpCommit")
    BY DEF Doing
  <1> QED BY <1>5, <1>6, QuietStep

\* The variables of Types other than the registry's keep their types when the
\* state of one task is stored.
LEMMA TypesKept ==
    ASSUME RegistryInv, slot' = slot, set' = set, wait' = wait, held' = held,
           gen' \in [Tasks -> Int], st' \in [Tasks -> TaskStates]
    PROVE  Types'
  BY DEF RegistryInv, Types

\* The scheduler's steps on the state, the ticket and the queue of a task.
LEMMA SchedulerSteps ==
    ASSUME RegistryInv, NEW a \in Actors,
           \/ Publish(a) \/ Start(a) \/ ClearCurrent(a) \/ PendWake(a)
           \/ CommitState(a) \/ AbortState(a) \/ AbortCas(a)
           \/ SuspendAndRegister(a) \/ TakeBackGeneration(a)
           \/ TrySchedule(a) \/ ScheduleState(a)
    PROVE  RegistryInv'
  <1>0. /\ Stacks /\ gen \in [Tasks -> Int] /\ st \in [Tasks -> TaskStates]
    BY DEF RegistryInv, Types
  <1>1. CASE Publish(a)
    <2>1. Types' /\ slot' = slot /\ set' = set /\ fatal' = fatal
      BY <1>0, <1>1, TypesKept DEF Publish, registry, host
    <2>2. Doing(a, "publish") /\ Continue(a, <<>>)
      BY <1>1 DEF Publish
    <2> QED BY <2>1, <2>2, ShortOps, QuietMove
  <1>2. CASE Start(a)
    <2>1. Doing(a, "start") /\ "start" \in OfTask
      BY <1>2 DEF Start, OfTask
    <2>2. PICK t \in Tasks : Arg(a) = <<t>>
      BY <1>0, <2>1, ArgTask
    <2>3. gen' \in [Tasks -> Int] /\ st' \in [Tasks -> TaskStates]
      BY <1>0, <1>2, <2>2 DEF Start, TaskStates
    <2>4. Types' /\ slot' = slot /\ set' = set /\ fatal' = fatal
      BY <1>2, <2>3, TypesKept DEF Start, registry, host
    <2>5. Op("publish", <<t, 1>>) \in Below
      BY MadeOps DEF OfEpoch
    <2>6. Continue(a, <<Op("publish", <<t, 1>>)>>) \/ Continue(a, <<>>)
      BY <1>2, <2>2 DEF Start
    <2> QED BY <2>1, <2>4, <2>5, <2>6, ShortOps, QuietMove
  <1>3. CASE ClearCurrent(a)
    <2>1. Types' /\ slot' = slot /\ set' = set /\ fatal' = fatal
      BY <1>0, <1>3, TypesKept DEF ClearCurrent, registry, tcb
    <2>2. Doing(a, "clearCurrent") /\ Continue(a, <<>>)
      BY <1>3 DEF ClearCurrent
    <2> QED BY <2>1, <2>2, ShortOps, QuietMove
  <1>4. CASE PendWake(a)
    <2>1. Doing(a, "pendWake") /\ "pendWake" \in OfTask
      BY <1>4 DEF PendWake, OfTask
    <2>2. PICK t \in Tasks : Arg(a) = <<t>>
      BY <1>0, <2>1, ArgTask
    <2>3. st' \in [Tasks -> TaskStates]
      BY <1>0, <1>4, <2>2 DEF PendWake, TaskStates
    <2>4. Types' /\ slot' = slot /\ set' = set /\ fatal' = fatal
      BY <1>0, <1>4, <2>3, TypesKept DEF PendWake, registry, host
    <2>5. Continue(a, <<>>)
      BY <1>4 DEF PendWake
    <2> QED BY <2>1, <2>4, <2>5, ShortOps, QuietMove
  <1>5. CASE CommitState(a)
    <2>1. Doing(a, "commitState") /\ "commitState" \in OfTask
      BY <1>5 DEF CommitState, OfTask
    <2>2. PICK t \in Tasks : Arg(a) = <<t>>
      BY <1>0, <2>1, ArgTask
    <2>3. st' \in [Tasks -> TaskStates]
      BY <1>0, <1>5, <2>2 DEF CommitState, Claim, TaskStates
    <2>4. Types' /\ slot' = slot /\ set' = set /\ fatal' = fatal
      BY <1>0, <1>5, <2>3, TypesKept DEF CommitState, registry, host
    <2>5. Op("cancelActive", <<t>>) \in Below /\ Op("publish", <<t, gen[t]>>) \in Below
      BY <1>0, MadeOps DEF OfTask, OfEpoch
    <2>6. \/ Continue(a, <<>>)
          \/ Continue(a, <<Op("cancelActive", <<t>>), Op("publish", <<t, gen[t]>>)>>)
      BY <1>5, <2>2 DEF CommitState, AfterPendingClaim
    <2> QED BY <2>1, <2>4, <2>5, <2>6, ShortOps, QuietMove
  <1>6. CASE AbortState(a)
    <2>1. Doing(a, "abortState") /\ "abortState" \in OfTask
      BY <1>6 DEF AbortState, OfTask
    <2>2. PICK t \in Tasks : Arg(a) = <<t>>
      BY <1>0, <2>1, ArgTask
    <2>3. Types' /\ slot' = slot /\ set' = set /\ fatal' = fatal
      BY <1>0, <1>6, TypesKept DEF AbortState, registry, host, tcb
    <2>4. Op("cancelActive", <<t>>) \in Below /\ Op("abortCas", <<t, st[t]>>) \in Below
      BY <1>0, MadeOps DEF OfTask
    <2>5. \/ Continue(a, <<>>)
          \/ Continue(a, <<Op("cancelActive", <<t>>), Op("abortCas", <<t, st[t]>>)>>)
      BY <1>6, <2>2 DEF AbortState
    <2> QED BY <2>1, <2>3, <2>4, <2>5, ShortOps, QuietMove
  <1>7. CASE AbortCas(a)
    <2>1. Doing(a, "abortCas")
      BY <1>7 DEF AbortCas
    <2>2. PICK t \in Tasks : Arg(a)[1] = t
      BY <1>0, <2>1, ArgState
    <2>3. st' \in [Tasks -> TaskStates]
      BY <1>0, <1>7, <2>2 DEF AbortCas, TaskStates
    <2>4. Types' /\ slot' = slot /\ set' = set /\ fatal' = fatal
      BY <1>0, <1>7, <2>3, TypesKept DEF AbortCas, registry, host
    <2>5. Op("abort", <<t>>) \in Below
      BY MadeOps DEF OfTask
    <2>6. Continue(a, <<>>) \/ Continue(a, <<Op("abort", <<t>>)>>)
      BY <1>7, <2>2 DEF AbortCas
    <2> QED BY <2>1, <2>4, <2>5, <2>6, ShortOps, QuietMove
  <1>8. CASE SuspendAndRegister(a)
    <2>1. Doing(a, "register") /\ "register" \in OfTask
      BY <1>8 DEF SuspendAndRegister, OfTask
    <2>2. PICK t \in Tasks : Arg(a) = <<t>>
      BY <1>0, <2>1, ArgTask
    <2>3. gen' \in [Tasks -> Int] /\ st' \in [Tasks -> TaskStates]
      BY <1>0, <1>8, <2>2 DEF SuspendAndRegister, TaskStates
    <2>4. Types' /\ slot' = slot /\ set' = set /\ fatal' = fatal
      BY <1>8, <2>3, TypesKept DEF SuspendAndRegister, registry, host
    <2>5. Op("unregister", <<t>>) \in Below
      BY MadeOps DEF OfTask
    <2>6. Continue(a, <<>>) \/ Continue(a, <<Op("unregister", <<t>>)>>)
      BY <1>8, <2>2 DEF SuspendAndRegister
    <2> QED BY <2>1, <2>4, <2>5, <2>6, ShortOps, QuietMove
  <1>9. CASE TakeBackGeneration(a)
    <2>1. Doing(a, "unregister") /\ "unregister" \in OfTask
      BY <1>9 DEF TakeBackGeneration, OfTask
    <2>2. PICK t \in Tasks : Arg(a) = <<t>>
      BY <1>0, <2>1, ArgTask
    <2>3. gen' \in [Tasks -> Int]
      BY <1>0, <1>9, <2>2 DEF TakeBackGeneration
    <2>4. Types' /\ slot' = slot /\ set' = set /\ fatal' = fatal
      BY <1>0, <1>9, <2>3, TypesKept DEF TakeBackGeneration, registry, host
    <2>5. Continue(a, <<>>)
      BY <1>9 DEF TakeBackGeneration
    <2> QED BY <2>1, <2>4, <2>5, ShortOps, QuietMove
  <1>10. CASE TrySchedule(a)
    <2>1. Doing(a, "schedule") /\ "schedule" \in OfEpoch
      BY <1>10 DEF TrySchedule, OfEpoch
    <2>2. PICK t \in Tasks, g \in Int : Arg(a) = <<t, g>>
      BY <1>0, <2>1, ArgEpoch
    <2>3. Types' /\ slot' = slot /\ set' = set /\ fatal' = fatal
      BY <1>0, <1>10, TypesKept DEF TrySchedule, registry, host, tcb
    <2>4. Op("scheduleLoop", <<t, g>>) \in Below
      BY MadeOps DEF OfEpoch
    <2>5. Continue(a, <<>>) \/ Continue(a, <<Op("scheduleLoop", <<t, g>>)>>)
      BY <1>10, <2>2 DEF TrySchedule
    <2> QED BY <2>1, <2>3, <2>4, <2>5, ShortOps, QuietMove
  <1>11. CASE ScheduleState(a)
    <2>1. Doing(a, "scheduleState") /\ "scheduleState" \in OfEpoch
      BY <1>11 DEF ScheduleState, OfEpoch
    <2>2. PICK t \in Tasks, g \in Int : Arg(a) = <<t, g>>
      BY <1>0, <2>1, ArgEpoch
    <2>3. st' \in [Tasks -> TaskStates]
      BY <1>0, <1>11, <2>2 DEF ScheduleState, Claim, TaskStates
    <2>4. Types' /\ slot' = slot /\ set' = set /\ fatal' = fatal
      BY <1>0, <1>11, <2>3, TypesKept DEF ScheduleState, registry, host
    <2>5. Op("scheduleLoop", <<t, g>>) \in Below /\ Op("publish", <<t, g>>) \in Below
      BY MadeOps DEF OfEpoch
    <2>6. \/ Continue(a, <<>>) \/ Continue(a, <<Op("publish", <<t, g>>)>>)
          \/ Continue(a, <<Op("scheduleLoop", <<t, g>>)>>)
      BY <1>11, <2>2 DEF ScheduleState
    <2> QED BY <2>1, <2>4, <2>5, <2>6, ShortOps, QuietMove
  <1> QED BY <1>1, <1>2, <1>3, <1>4, <1>5, <1>6, <1>7, <1>8, <1>9, <1>10, <1>11

\* The steps of a cancellation and of the end of a task, as far as they leave
\* the registry alone.
LEMMA CancellationSteps ==
    ASSUME RegistryInv, NEW a \in Actors,
           \/ RequestCancel(a) \/ CancelLoad(a) \/ CancelClaim(a)
           \/ ColdCancel(a) \/ PublishTerminal(a)
    PROVE  RegistryInv'
  <1>0. /\ Stacks /\ gen \in [Tasks -> Int] /\ st \in [Tasks -> TaskStates]
    BY DEF RegistryInv, Types
  <1>1. CASE RequestCancel(a)
    <2>1. Doing(a, "cancel") /\ "cancel" \in OfTask
      BY <1>1 DEF RequestCancel, OfTask
    <2>2. PICK t \in Tasks : Arg(a) = <<t>>
      BY <1>0, <2>1, ArgTask
    <2>3. Types' /\ slot' = slot /\ set' = set /\ fatal' = fatal
      BY <1>0, <1>1, TypesKept DEF RequestCancel, registry, host
    <2>4. Op("cancelArbiter", <<t>>) \in Below
      BY MadeOps DEF OfTask
    <2>5. Continue(a, <<Op("cancelArbiter", <<t>>)>>)
      BY <1>1, <2>2 DEF RequestCancel
    <2> QED BY <2>1, <2>3, <2>4, <2>5, ShortOps, QuietMove
  <1>2. CASE CancelLoad(a)
    <2>1. Doing(a, "cancelLoad") /\ "cancelLoad" \in OfTask
      BY <1>2 DEF CancelLoad, OfTask
    <2>2. PICK t \in Tasks : Arg(a) = <<t>>
      BY <1>0, <2>1, ArgTask
    <2>3. Types' /\ slot' = slot /\ set' = set /\ fatal' = fatal
      BY <1>0, <1>2, TypesKept DEF CancelLoad, registry, host, tcb
    <2>4. Op("cancelClaim", <<t, gen[t]>>) \in Below
      BY <1>0, MadeOps DEF OfEpoch
    <2>5. Continue(a, <<Op("cancelClaim", <<t, gen[t]>>)>>)
      BY <1>2, <2>2 DEF CancelLoad
    <2> QED BY <2>1, <2>3, <2>4, <2>5, ShortOps, QuietMove
  <1>3. CASE CancelClaim(a)
    <2>1. Doing(a, "cancelClaim") /\ "cancelClaim" \in OfEpoch
      BY <1>3 DEF CancelClaim, OfEpoch
    <2>2. PICK t \in Tasks, g \in Int : Arg(a) = <<t, g>>
      BY <1>0, <2>1, ArgEpoch
    <2>3. st' \in [Tasks -> TaskStates]
      BY <1>0, <1>3, <2>2 DEF CancelClaim, Claim, TaskStates
    <2>4. Types' /\ slot' = slot /\ set' = set /\ fatal' = fatal
      BY <1>0, <1>3, <2>3, TypesKept DEF CancelClaim, registry, host
    <2>5. Op("publish", <<t, g>>) \in Below
      BY MadeOps DEF OfEpoch
    <2>6. Continue(a, <<>>) \/ Continue(a, <<Op("publish", <<t, g>>)>>)
      BY <1>3, <2>2 DEF CancelClaim
    <2> QED BY <2>1, <2>4, <2>5, <2>6, ShortOps, QuietMove
  <1>4. CASE ColdCancel(a)
    <2>1. Doing(a, "coldCancel") /\ "coldCancel" \in OfTask
      BY <1>4 DEF ColdCancel, OfTask
    <2>2. PICK t \in Tasks : Arg(a) = <<t>>
      BY <1>0, <2>1, ArgTask
    <2>3. st' \in [Tasks -> TaskStates]
      BY <1>0, <1>4, <2>2 DEF ColdCancel, TaskStates
    <2>4. Types' /\ slot' = slot /\ set' = set /\ fatal' = fatal
      BY <1>0, <1>4, <2>3, TypesKept DEF ColdCancel, registry, host
    <2>5. Op("terminal", <<t, "canceled">>) \in Below
      BY MadeOps DEF Terminal
    <2>6. Continue(a, <<>>) \/ Continue(a, <<Op("terminal", <<t, "canceled">>)>>)
      BY <1>4, <2>2 DEF ColdCancel
    <2> QED BY <2>1, <2>4, <2>5, <2>6, ShortOps, QuietMove
  <1>5. CASE PublishTerminal(a)
    <2>1. Doing(a, "terminal")
      BY <1>5 DEF PublishTerminal
    <2>2. PICK t \in Tasks, v \in Terminal : Arg(a) = <<t, v>>
      BY <1>0, <2>1, ArgState
    <2>3. st' \in [Tasks -> TaskStates]
      BY <1>0, <1>5, <2>2 DEF PublishTerminal, TaskStates, Terminal
    <2>4. held' \in [Tasks -> SUBSET (Slots \X Nat)]
      BY <1>5, <2>2 DEF PublishTerminal, RegistryInv, Types
    <2>5. Types' /\ slot' = slot /\ set' = set /\ fatal' = fatal
      BY <1>5, <2>3, <2>4 DEF PublishTerminal, registry, RegistryInv, Types
    <2>6. Op("cancelActive", <<t>>) \in Below /\ Op("reap", <<t>>) \in Below
      BY MadeOps DEF OfTask
    <2>7. Continue(a, <<Op("cancelActive", <<t>>), Op("reap", <<t>>)>>)
      BY <1>5, <2>2 DEF PublishTerminal
    <2> QED BY <2>1, <2>5, <2>6, <2>7, ShortOps, QuietMove
  <1> QED BY <1>1, <1>2, <1>3, <1>4, <1>5

\* No operation, slot or set changes.
LEMMA StillStep ==
    ASSUME RegistryInv, Types', todo' = todo, slot' = slot, set' = set, fatal' = fatal
    PROVE  RegistryInv'
  <1>1. \A i \in Sets : Helpers(i)' = Helpers(i) /\ Members(i)' = Members(i)
    BY DEF Helpers, Doing, Arg, Members
  <1>2. Available' = Available
    BY DEF Available
  <1>3. AllocInv'
    BY <1>2 DEF AllocInv, RegistryInv, Doing, Arg
  <1>4. RefsInv' /\ SetInv' /\ SlotInv'
    BY <1>1 DEF RegistryInv, RefsInv, SetInv, SlotInv, Pending
  <1> QED BY <1>3, <1>4 DEF RegistryInv, Stacks

\* The executor takes a ready task.
LEMMA PopStep == ASSUME RegistryInv, PopReady PROVE RegistryInv'
  <1>1. st' \in [Tasks -> TaskStates]
    <2>1. st' = st \/ st' = [st EXCEPT ![Head(queue).task] = "running"]
      BY DEF PopReady
    <2> QED BY <2>1 DEF RegistryInv, Types, TaskStates
  <1>2. Types' /\ todo' = todo /\ slot' = slot /\ set' = set /\ fatal' = fatal
    BY <1>1 DEF PopReady, registry, RegistryInv, Types
  <1> QED BY <1>2, StillStep

-----------------------------------------------------------------------------
(* The running task and the callers from outside.                          *)

\* A suspension begins when the slots it needs are free.
LEMMA PrepareStep ==
    ASSUME RegistryInv, NEW t \in Tasks, NEW kind \in {"single", "pair"}, NEW b,
           PrepareSuspend(t, kind, b)
    PROVE  RegistryInv'
  <1> DEFINE o == Op("allocate", <<t, kind>>)
  <1>0. /\ Exec \in Actors /\ todo[Exec] = <<>> /\ o \in Above
        /\ todo \in [Actors -> Seq(Below \cup Above)]
        /\ \A c \in Actors : StackOK(todo[c])
    BY MadeOps DEF Actors, PrepareSuspend, Runs, RegistryInv, Stacks
  <1>1. o.op = "allocate" /\ o.arg = <<t, kind>>
    BY DEF Op
  <1>2. /\ slot' = slot /\ set' = set /\ fatal' = fatal
        /\ todo' = [todo EXCEPT ![Exec] = <<o>>]
    BY DEF PrepareSuspend, registry, Call
  <1> HIDE DEF o
  <1>3. Others(Exec) /\ todo'[Exec] = <<o>>
    BY <1>0, <1>2 DEF Others
  <1>4. Doing(Exec, "allocate")' /\ ~Doing(Exec, "helpCommit")' /\ ~Doing(Exec, "helpCommit")
    BY <1>0, <1>1, <1>3 DEF Doing
  <1>5. Arg(Exec)' = <<t, kind>>
    BY <1>1, <1>3 DEF Arg
  <1>6. Stacks'
    <2>1. StackOK(<<o>>)
      BY <1>0, ShortOps DEF StackOK
    <2> QED BY <1>0, <1>2, <2>1 DEF Stacks
  <1>7. Types'
    BY <1>2 DEF PrepareSuspend, RegistryInv, Types, registry, host, TaskStates
  <1>8. \A i \in Sets : Helpers(i)' = Helpers(i) /\ Members(i)' = Members(i)
    BY <1>0, <1>2, <1>3, <1>4, SameHelpers DEF Members
  <1>9. AllocInv'
    <2>1. Available' = Available
      BY <1>2 DEF Available
    <2>2. Cardinality(Available') >= SlotsFor(kind)
      BY <2>1 DEF PrepareSuspend
    <2> SUFFICES ASSUME NEW c \in Actors, Doing(c, "allocate")'
                 PROVE  c = Exec /\ Cardinality(Available') >= SlotsFor(Arg(c)'[2])
      BY DEF AllocInv
    <2>3. CASE c = Exec
      BY <1>5, <2>2, <2>3
    <2>4. CASE c # Exec
      BY <1>3, <2>1, <2>4 DEF Others, Doing, Arg, RegistryInv, AllocInv
    <2> QED BY <2>3, <2>4
  <1>10. RefsInv' /\ SetInv' /\ SlotInv'
    BY <1>2, <1>8 DEF RegistryInv, RefsInv, SetInv, SlotInv, Pending
  <1> QED BY <1>2, <1>6, <1>7, <1>9, <1>10 DEF RegistryInv

\* What the code of the running task may do.
LEMMA UserSteps == ASSUME RegistryInv, NEW t \in Tasks, User(t) PROVE RegistryInv'
  <1>0. /\ Exec \in Actors /\ st \in [Tasks -> TaskStates] /\ gen \in [Tasks -> Int]
        /\ held \in [Tasks -> SUBSET (Slots \X Nat)]
    BY DEF Actors, RegistryInv, Types
  <1>1. CASE \E kind \in Kinds \ {"plain"} : PrepareSuspend(t, kind, TRUE)
    <2>1. Kinds \ {"plain"} \subseteq {"single", "pair"}
      BY ConstantsAssumption DEF ConstantsAssumption
    <2> QED BY <1>1, <2>1, PrepareStep
  <1>2. CASE "single" \in Kinds /\ PrepareSuspend(t, "single", FALSE)
    BY <1>2, PrepareStep
  <1>3. CASE PlainSuspend(t)
    <2>1. Types' /\ slot' = slot /\ set' = set /\ fatal' = fatal /\ todo[Exec] = <<>>
      BY <1>0, <1>3, TypesKept DEF PlainSuspend, Runs, registry, host, tcb
    <2>2. Op("register", <<t>>) \in Below /\ Op("clearCurrent", <<t>>) \in Below
      BY MadeOps DEF OfTask
    <2>3. Call(Exec, <<Op("register", <<t>>), Op("clearCurrent", <<t>>)>>)
      BY <1>3 DEF PlainSuspend
    <2> QED BY <1>0, <2>1, <2>2, <2>3, ShortOps, CallMove
  <1>4. CASE ReadOutcome(t)
    <2>1. PICK tok \in held[t] :
             /\ held' = [held EXCEPT ![t] = @ \ {tok}]
             /\ Call(Exec, <<Op("isWinner", tok), Op("release", tok)>>)
      BY <1>4 DEF ReadOutcome
    <2>2. PICK s \in Slots, g \in Nat : tok = <<s, g>>
      BY <1>0, <2>1
    <2>3. held' \in [Tasks -> SUBSET (Slots \X Nat)]
      BY <1>0, <2>1
    <2>4. Types' /\ slot' = slot /\ set' = set /\ fatal' = fatal /\ todo[Exec] = <<>>
      BY <1>4, <2>3 DEF ReadOutcome, Runs, registry, tcb, RegistryInv, Types
    <2>5. Op("isWinner", tok) \in Below /\ Op("release", tok) \in Below
      BY <2>2, MadeOps
    <2> QED BY <1>0, <2>1, <2>4, <2>5, ShortOps, CallMove
  <1>5. CASE MarkHandled(t)
    <2>1. Types' /\ todo' = todo /\ slot' = slot /\ set' = set /\ fatal' = fatal
      BY <1>0, <1>5, TypesKept DEF MarkHandled, registry, host
    <2> QED BY <2>1, StillStep
  <1>6. CASE Complete(t)
    <2>1. Types' /\ slot' = slot /\ set' = set /\ fatal' = fatal /\ todo[Exec] = <<>>
      BY <1>0, <1>6, TypesKept DEF Complete, Runs, registry, host, tcb
    <2>2. Op("terminal", <<t, "completed">>) \in Below /\ Op("clearCurrent", <<t>>) \in Below
      BY MadeOps DEF OfTask, Terminal
    <2>3. Call(Exec, <<Op("terminal", <<t, "completed">>), Op("clearCurrent", <<t>>)>>)
      BY <1>6 DEF Complete
    <2> QED BY <1>0, <2>1, <2>2, <2>3, ShortOps, CallMove
  <1> QED BY <1>1, <1>2, <1>3, <1>4, <1>5, <1>6 DEF User

\* A call from outside.
LEMMA ExternalStep ==
    ASSUME RegistryInv, NEW a \in Actors, NEW kind, NEW o \in Below,
           External(a, kind, <<o>>)
    PROVE  RegistryInv'
  <1>1. gen \in [Tasks -> Int] /\ st \in [Tasks -> TaskStates]
    BY DEF RegistryInv, Types
  <1>2. Types' /\ slot' = slot /\ set' = set /\ fatal' = fatal /\ todo[a] = <<>>
    BY <1>1, TypesKept DEF External, registry, tcb
  <1>3. Call(a, <<o>>)
    BY DEF External
  <1> QED BY <1>2, <1>3, ShortOps, CallMove

\* Starts, wake-ups, cancellations and schedules by whoever calls them.
LEMMA OutsideSteps == ASSUME RegistryInv, NEW a \in Actors, Outside(a) PROVE RegistryInv'
  <1>0. gen \in [Tasks -> Int] /\ st \in [Tasks -> TaskStates]
    BY DEF RegistryInv, Types
  <1>1. ASSUME NEW t \in Tasks, CallStart(a, t) PROVE RegistryInv'
    <2>1. Types' /\ slot' = slot /\ set' = set /\ fatal' = fatal /\ todo[a] = <<>>
      BY <1>0, <1>1, TypesKept DEF CallStart, registry, host, tcb
    <2>2. Op("start", <<t>>) \in Below
      BY MadeOps DEF OfTask
    <2>3. Call(a, <<Op("start", <<t>>)>>)
      BY <1>1 DEF CallStart
    <2> QED BY <2>1, <2>2, <2>3, ShortOps, CallMove
  <1>2. ASSUME NEW t \in Tasks, CallCancel(a, t) PROVE RegistryInv'
    <2>1. Op("cancel", <<t>>) \in Below
      BY MadeOps DEF OfTask
    <2>2. External(a, "cancel", <<Op("cancel", <<t>>)>>)
      BY <1>2 DEF CallCancel
    <2> QED BY <2>1, <2>2, ExternalStep
  <1>3. ASSUME NEW tok \in Issued, CallWake(a, tok) PROVE RegistryInv'
    <2>1. MaxSlotGen \in Nat
      BY ConstantsAssumption DEF ConstantsAssumption
    <2>2. PICK s \in Slots, g \in Nat : tok = <<s, g>>
      BY <2>1 DEF Issued
    <2>3. PICK m \in {"release", "keep"} : m = IF a = Exec THEN "release" ELSE "keep"
      OBVIOUS
    <2>4. Op("wake", <<s, g, m>>) \in Below
      BY MadeOps
    <2>5. External(a, "wake", <<Op("wake", <<s, g, m>>)>>)
      BY <1>3, <2>2, <2>3 DEF CallWake
    <2> QED BY <2>4, <2>5, ExternalStep
  <1>4. ASSUME NEW t \in Tasks, NEW g \in 1 .. Min({gen[t], MaxGen}), CallSchedule(a, t, g)
        PROVE  RegistryInv'
    <2>1. g \in Int
      OBVIOUS
    <2>2. Op("schedule", <<t, g>>) \in Below
      BY <2>1, MadeOps DEF OfEpoch
    <2>3. External(a, "schedule", <<Op("schedule", <<t, g>>)>>)
      BY <1>4 DEF CallSchedule
    <2> QED BY <2>2, <2>3, ExternalStep
  <1> QED BY <1>1, <1>2, <1>3, <1>4 DEF Outside

-----------------------------------------------------------------------------
(* The steps on the registry.                                              *)

\* An operation is replaced by the help of the winner of set j.
LEMMA HelpMove ==
    ASSUME RegistryInv, NEW a \in Actors, NEW name, Doing(a, name), NEW j \in Sets,
           NEW ops \in Seq(Below), Continue(a, <<Op("helpCommit", <<j>>)>> \o ops)
    PROVE  Stacks' /\ Others(a) /\ Doing(a, "helpCommit")' /\ Arg(a)' = <<j>>
  <1> DEFINE o == Op("helpCommit", <<j>>)
  <1>1. o \in Above /\ o.op = "helpCommit" /\ o.arg = <<j>>
    BY MadeOps DEF Op
  <1>2. Continue(a, <<o>> \o ops)
    OBVIOUS
  <1>3. Stacks /\ todo[a] # <<>>
    BY DEF RegistryInv, Doing
  <1> HIDE DEF o
  <1>4. Stacks' /\ Others(a) /\ todo'[a] # <<>> /\ Head(todo'[a]) = o
    BY <1>1, <1>2, <1>3, TopOps DEF Others
  <1> QED BY <1>1, <1>4 DEF Doing, Arg

\* A helper takes its reference and nothing else changes.
LEMMA HelpBegins ==
    ASSUME RegistryInv, NEW a \in Actors, NEW name, Doing(a, name), name # "helpCommit",
           NEW j \in Sets, set[j].state = "wonPending", NEW ops \in Seq(Below),
           Continue(a, <<Op("helpCommit", <<j>>)>> \o ops),
           set' = [set EXCEPT ![j] = Retained(@, 1)],
           slot' = slot, fatal' = fatal, wait' = wait, held' = held,
           gen' = gen, st' = st
    PROVE  RegistryInv'
  <1>1. Stacks' /\ Others(a) /\ Doing(a, "helpCommit")' /\ Arg(a)' = <<j>>
    BY HelpMove
  <1>2. ~Doing(a, "helpCommit")
    BY DEF Doing
  <1>3. /\ set' \in [Sets -> SetRec]
        /\ SlotInv' /\ SetInv' /\ RefsInv' /\ AllocInv' /\ ~fatal'
    BY <1>1, <1>2, RetainStep
  <1>4. Types'
    BY <1>3 DEF RegistryInv, Types
  <1> QED BY <1>1, <1>3, <1>4 DEF RegistryInv

\* A loop of the scheduler helps a selected winner of its task, or goes on.
LEMMA HelpOrStep ==
    ASSUME RegistryInv, NEW a \in Actors, NEW name, Doing(a, name), name # "helpCommit",
           NEW t \in Tasks, NEW again \in Seq(Below), NEW next \in Seq(Below),
           HelpOr(a, t, again, next), slot' = slot, fatal' = fatal, wait' = wait,
           held' = held, gen' = gen, st' = st
    PROVE  RegistryInv'
  <1>0. /\ slot \in [Slots -> SlotRec] /\ wait \in [Tasks -> WaitRec]
        /\ gen \in [Tasks -> Int] /\ st \in [Tasks -> TaskStates]
    BY DEF RegistryInv, Types
  <1>1. CASE PendingSet(t) # NoSet
    <2>1. PICK s : s = wait[t].slot
      OBVIOUS
    <2>2. /\ s # NoSlot /\ PendingSet(t) = slot[s].set /\ slot[s].set # NoSet
          /\ set[slot[s].set].state = "wonPending"
      BY <1>1, <2>1 DEF PendingSet
    <2>3. s \in Slots
      BY <1>0, <2>1, <2>2, Finite DEF WaitRec, NoSlot, Slots
    <2>4. PICK j \in Sets : j = PendingSet(t) /\ set[j].state = "wonPending"
      BY <1>0, <2>2, <2>3, SetOf
    <2>5. /\ set' = [set EXCEPT ![j] = Retained(@, 1)]
          /\ Continue(a, <<Op("helpCommit", <<j>>)>> \o again)
      BY <1>1, <2>4 DEF HelpOr
    <2> QED BY <2>4, <2>5, HelpBegins
  <1>2. CASE PendingSet(t) = NoSet
    <2>1. Continue(a, next) /\ set' = set
      BY <1>2 DEF HelpOr
    <2>2. Types'
      BY <1>0, <2>1, TypesKept
    <2> QED BY <2>1, <2>2, QuietMove
  <1> QED BY <1>1, <1>2

\* The first sections of commit, abort, schedule and cancel_active.
LEMMA HelpingSteps ==
    ASSUME RegistryInv, NEW a \in Actors,
           CommitSuspend(a) \/ AbortSuspend(a) \/ ScheduleLoop(a) \/ CancelActive(a)
    PROVE  RegistryInv'
  <1>0. Stacks /\ <<>> \in Seq(Below)
    BY ShortOps DEF RegistryInv
  <1>1. CASE CommitSuspend(a)
    <2>1. Doing(a, "commit") /\ "commit" \in OfTask
      BY <1>1 DEF CommitSuspend, OfTask
    <2>2. PICK t \in Tasks : Arg(a) = <<t>>
      BY <1>0, <2>1, ArgTask
    <2>3. <<Op("commit", <<t>>)>> \in Seq(Below) /\ <<Op("commitState", <<t>>)>> \in Seq(Below)
      BY MadeOps, ShortOps DEF OfTask
    <2>4. /\ HelpOr(a, t, <<Op("commit", <<t>>)>>, <<Op("commitState", <<t>>)>>)
          /\ slot' = slot /\ fatal' = fatal /\ wait' = wait /\ held' = held
          /\ gen' = gen /\ st' = st
      BY <1>1, <2>2 DEF CommitSuspend, tcb, host
    <2> QED BY <2>1, <2>3, <2>4, HelpOrStep
  <1>2. CASE AbortSuspend(a)
    <2>1. Doing(a, "abort") /\ "abort" \in OfTask
      BY <1>2 DEF AbortSuspend, OfTask
    <2>2. PICK t \in Tasks : Arg(a) = <<t>>
      BY <1>0, <2>1, ArgTask
    <2>3. <<Op("abort", <<t>>)>> \in Seq(Below) /\ <<Op("abortState", <<t>>)>> \in Seq(Below)
      BY MadeOps, ShortOps DEF OfTask
    <2>4. /\ HelpOr(a, t, <<Op("abort", <<t>>)>>, <<Op("abortState", <<t>>)>>)
          /\ slot' = slot /\ fatal' = fatal /\ wait' = wait /\ held' = held
          /\ gen' = gen /\ st' = st
      BY <1>2, <2>2 DEF AbortSuspend, tcb, host
    <2> QED BY <2>1, <2>3, <2>4, HelpOrStep
  <1>3. CASE ScheduleLoop(a)
    <2>1. Doing(a, "scheduleLoop") /\ "scheduleLoop" \in OfEpoch
      BY <1>3 DEF ScheduleLoop, OfEpoch
    <2>2. PICK t \in Tasks, g \in Int : Arg(a) = <<t, g>>
      BY <1>0, <2>1, ArgEpoch
    <2>3. /\ <<Op("scheduleLoop", <<t, g>>)>> \in Seq(Below)
          /\ <<Op("scheduleState", <<t, g>>)>> \in Seq(Below)
      BY MadeOps, ShortOps DEF OfEpoch
    <2>4. /\ HelpOr(a, t, <<Op("scheduleLoop", <<t, g>>)>>, <<Op("scheduleState", <<t, g>>)>>)
          /\ slot' = slot /\ fatal' = fatal /\ wait' = wait /\ held' = held
          /\ gen' = gen /\ st' = st
      BY <1>3, <2>2 DEF ScheduleLoop, tcb, host
    <2> QED BY <2>1, <2>3, <2>4, HelpOrStep
  <1>4. CASE CancelActive(a)
    <2>1. Doing(a, "cancelActive") /\ "cancelActive" \in OfTask
      BY <1>4 DEF CancelActive, OfTask
    <2>2. PICK t \in Tasks : Arg(a) = <<t>>
      BY <1>0, <2>1, ArgTask
    <2>3. <<Op("cancelWait", <<t>>)>> \in Seq(Below)
      BY MadeOps, ShortOps DEF OfTask
    <2>4. /\ HelpOr(a, t, <<>>, <<Op("cancelWait", <<t>>)>>)
          /\ slot' = slot /\ fatal' = fatal /\ wait' = wait /\ held' = held
          /\ gen' = gen /\ st' = st
      BY <1>4, <2>2 DEF CancelActive, tcb, host
    <2> QED BY <1>0, <2>1, <2>3, <2>4, HelpOrStep
  <1> QED BY <1>1, <1>2, <1>3, <1>4

\* Nothing is below the topmost operation.
LEMMA NothingBelow ==
    \A i \in Sets : <<Op("helpCommit", <<i>>)>> \o <<>> = <<Op("helpCommit", <<i>>)>>
  <1> SUFFICES ASSUME NEW i \in Sets
               PROVE  <<Op("helpCommit", <<i>>)>> \o <<>> = <<Op("helpCommit", <<i>>)>>
    OBVIOUS
  <1> DEFINE o == Op("helpCommit", <<i>>)
  <1>1. <<o>> \in Seq({o})
    OBVIOUS
  <1> QED BY <1>1, ConcatEmptySeq

\* toka_wait_registry_is_winner helps a selected winner.
LEMMA IsWinnerStep == ASSUME RegistryInv, NEW a \in Actors, IsWinner(a) PROVE RegistryInv'
  <1>0. /\ Stacks /\ slot \in [Slots -> SlotRec] /\ gen \in [Tasks -> Int]
        /\ st \in [Tasks -> TaskStates]
    BY DEF RegistryInv, Types
  <1>1. Doing(a, "isWinner")
    BY DEF IsWinner
  <1>2. PICK s \in Slots, g \in Nat : Arg(a) = <<s, g>>
    BY <1>0, <1>1, ArgToken
  <1>3. PICK i : i = slot[s].set
    OBVIOUS
  <1>4. /\ slot' = slot /\ fatal' = fatal /\ wait' = wait /\ held' = held
        /\ gen' = gen /\ st' = st
    BY DEF IsWinner, tcb, host
  <1>5. CASE Names(s, g) /\ i # NoSet /\ set[i].state = "wonPending"
    <2>1. i \in Sets
      BY <1>0, <1>3, <1>5, SetOf
    <2>2. /\ set' = [set EXCEPT ![i] = Retained(@, 1)]
          /\ Continue(a, <<Op("helpCommit", <<i>>)>>)
      BY <1>2, <1>3, <1>5 DEF IsWinner
    <2>3. Continue(a, <<Op("helpCommit", <<i>>)>> \o <<>>)
      BY <2>1, <2>2, NothingBelow
    <2> QED BY <1>1, <1>4, <1>5, <2>1, <2>2, <2>3, ShortOps, HelpBegins
  <1>6. CASE ~(Names(s, g) /\ i # NoSet /\ set[i].state = "wonPending")
    <2>1. Continue(a, <<>>) /\ set' = set
      BY <1>2, <1>3, <1>6 DEF IsWinner
    <2>2. Types'
      BY <1>0, <1>4, <2>1, TypesKept
    <2> QED BY <1>1, <1>4, <2>1, <2>2, ShortOps, QuietMove
  <1> QED BY <1>5, <1>6

\* The link of a task whose single wait ends is cleared.
LEMMA Unlinked ==
    ASSUME RegistryInv, NEW t \in Tasks,
           wait' = [wait EXCEPT ![t].slot = NoSlot, ![t].gen = 0]
    PROVE  wait' \in [Tasks -> WaitRec]
  <1> DEFINE w == [wait[t] EXCEPT !.slot = NoSlot]
             v == [w EXCEPT !.gen = 0]
  <1>1. wait \in [Tasks -> WaitRec] /\ wait[t] \in WaitRec
    BY DEF RegistryInv, Types
  <1>2. w \in WaitRec
    BY <1>1, Finite DEF WaitRec, NoSlot
  <1>3. wait' = [wait EXCEPT ![t] = v]
    BY <1>1
  <1> HIDE DEF w
  <1>4. v \in WaitRec
    BY <1>2 DEF WaitRec
  <1> HIDE DEF v
  <1> QED BY <1>1, <1>3, <1>4

\* toka_wait_registry_try_wake: a stale token, a decided set, the choice of a
\* winner, or a wait on one source.
LEMMA TryWakeStep == ASSUME RegistryInv, NEW a \in Actors, TryWake(a) PROVE RegistryInv'
  <1>0. /\ Stacks /\ slot \in [Slots -> SlotRec] /\ gen \in [Tasks -> Int]
        /\ st \in [Tasks -> TaskStates] /\ SlotInv
    BY DEF RegistryInv, Types
  <1>1. Doing(a, "wake") /\ ~Doing(a, "helpCommit")
    BY DEF TryWake, Doing
  <1>2. PICK s \in Slots, g \in Nat, m \in {"release", "keep"} : Arg(a) = <<s, g, m>>
    BY <1>0, <1>1, ArgWake
  <1>3. PICK i : i = slot[s].set
    OBVIOUS
  <1>4. PICK lost \in Seq(Below) :
           lost = IF m = "release" THEN <<Op("release", <<s, g>>)>> ELSE <<>>
    BY MadeOps, ShortOps
  <1>5. gen' = gen /\ st' = st /\ held' = held
    BY DEF TryWake, tcb, host
  <1>6. CASE ~Names(s, g)
    <2>1. Continue(a, <<>>) /\ slot' = slot /\ set' = set /\ wait' = wait /\ fatal' = fatal
      BY <1>2, <1>6 DEF TryWake
    <2>2. Types'
      BY <1>0, <1>5, <2>1, TypesKept
    <2> QED BY <1>1, <2>1, <2>2, ShortOps, QuietMove
  <1>7. CASE Names(s, g) /\ ~slot[s].active
    <2>1. slot[s].inUse /\ i # NoSet
      BY <1>0, <1>3, <1>7 DEF Names, SlotInv
    <2>2. i \in Sets
      BY <1>0, <1>3, <2>1, SetOf
    <2>3. PICK after \in Seq(Below) : after = IF slot[s].state = "won" THEN <<>> ELSE lost
      BY ShortOps
    <2>4. /\ slot' = slot /\ wait' = wait /\ fatal' = fatal
          /\ IF set[i].state = "wonPending"
               THEN /\ set' = [set EXCEPT ![i] = Retained(@, 1)]
                    /\ Continue(a, <<Op("helpCommit", <<i>>)>> \o after)
               ELSE Continue(a, after) /\ UNCHANGED set
      BY <1>2, <1>3, <1>4, <1>7, <2>3 DEF TryWake
    <2>5. CASE set[i].state = "wonPending"
      BY <1>1, <1>5, <2>2, <2>4, <2>5, HelpBegins
    <2>6. CASE set[i].state # "wonPending"
      <3>1. Types'
        BY <1>0, <1>5, <2>4, <2>6, TypesKept
      <3> QED BY <1>1, <2>4, <2>6, <3>1, QuietMove
    <2> QED BY <2>5, <2>6
  <1>8. CASE Names(s, g) /\ slot[s].active /\ i # NoSet
    <2>1. i \in Sets
      BY <1>0, <1>3, <1>8, SetOf
    <2>2. /\ wait' = wait
          /\ IF Selectable(s, i) /\ set[i].state = "waiting"
               THEN /\ set' = [set EXCEPT ![i] = WonSet(i, s)]
                    /\ slot' = Selected(i, s)
                    /\ fatal' = (fatal \/ set[i].commitRef)
                    /\ Continue(a, <<Op("helpCommit", <<i>>)>>)
               ELSE /\ Continue(a, IF Selectable(s, i) THEN lost ELSE <<>>)
                    /\ UNCHANGED <<slot, set, fatal>>
      BY <1>2, <1>3, <1>4, <1>8 DEF TryWake
    <2>3. CASE Selectable(s, i) /\ set[i].state = "waiting"
      <3>1. Continue(a, <<Op("helpCommit", <<i>>)>> \o <<>>)
        BY <2>1, <2>2, <2>3, NothingBelow
      <3>2. Stacks' /\ Others(a) /\ Doing(a, "helpCommit")' /\ Arg(a)' = <<i>>
        BY <1>1, <2>1, <3>1, ShortOps, HelpMove
      <3>3. /\ set' \in [Sets -> SetRec] /\ slot' \in [Slots -> SlotRec]
            /\ SlotInv' /\ SetInv' /\ RefsInv' /\ AllocInv' /\ ~fatal'
        BY <1>1, <2>1, <2>2, <2>3, <3>2, WonStep
      <3>4. Types'
        BY <1>5, <2>2, <3>3 DEF RegistryInv, Types
      <3> QED BY <3>2, <3>3, <3>4 DEF RegistryInv
    <2>4. CASE ~(Selectable(s, i) /\ set[i].state = "waiting")
      <3>1. slot' = slot /\ set' = set /\ fatal' = fatal
        BY <2>2, <2>4
      <3>2. Types'
        BY <1>0, <1>5, <2>2, <3>1, TypesKept
      <3>3. PICK ops \in Seq(Below) : Continue(a, ops)
        BY <2>2, <2>4, ShortOps
      <3> QED BY <1>1, <3>1, <3>2, <3>3, QuietMove
    <2> QED BY <2>3, <2>4
  <1>9. CASE Names(s, g) /\ slot[s].active /\ i = NoSet
    <2>1. PICK t : t = slot[s].task
      OBVIOUS
    <2>2. t \in Tasks /\ slot[s].inUse /\ slot[s].epoch \in Int
      BY <1>0, <1>9, <2>1 DEF Names, SlotInv, SlotRec
    <2>3. /\ slot' = [slot EXCEPT ![s] = Recycled(@)] /\ set' = set /\ fatal' = fatal
          /\ wait' = [wait EXCEPT ![t].slot = NoSlot, ![t].gen = 0]
          /\ Continue(a, <<Op("schedule", <<t, slot[s].epoch>>)>>)
      <3>0. Arg(a)[1] = s /\ Arg(a)[2] = g
        BY <1>2
      <3>1. Names(Arg(a)[1], Arg(a)[2]) /\ slot[Arg(a)[1]].active
              /\ slot[Arg(a)[1]].set = NoSet
        BY <1>3, <1>9, <3>0, Zenon
      <3>2. /\ slot' = [slot EXCEPT ![Arg(a)[1]] = Recycled(@)] /\ set' = set /\ fatal' = fatal
            /\ wait' = [wait EXCEPT ![slot[Arg(a)[1]].task].slot = NoSlot,
                                    ![slot[Arg(a)[1]].task].gen = 0]
            /\ Continue(a, <<Op("schedule", <<slot[Arg(a)[1]].task, slot[Arg(a)[1]].epoch>>)>>)
        BY <3>1, Zenon DEF TryWake
      <3> QED BY <2>1, <3>0, <3>2, Zenon
    <2>4. <<Op("schedule", <<t, slot[s].epoch>>)>> \in Seq(Below)
      BY <2>2, MadeOps, ShortOps DEF OfEpoch
    <2>5. Stacks' /\ Others(a) /\ Settled(a)'
      BY <1>1, <2>3, <2>4, PlainMove
    <2>6. /\ slot' \in [Slots -> SlotRec]
          /\ SlotInv' /\ SetInv' /\ RefsInv' /\ AllocInv' /\ ~fatal'
      BY <1>1, <1>3, <1>9, <2>2, <2>3, <2>5, SingleStep
    <2>7. wait' \in [Tasks -> WaitRec]
      BY <2>2, <2>3, Unlinked
    <2>8. Types'
      BY <1>5, <2>3, <2>6, <2>7 DEF RegistryInv, Types
    <2> QED BY <2>5, <2>6, <2>8 DEF RegistryInv
  <1> QED BY <1>6, <1>7, <1>8, <1>9

\* The link of a task to set i is cleared, if it has one.
LEMMA LinkCleared ==
    ASSUME RegistryInv, NEW t \in Tasks, NEW i,
           wait' = [wait EXCEPT ![t] = ClearedLink(t, i)]
    PROVE  wait' \in [Tasks -> WaitRec]
  <1>1. wait \in [Tasks -> WaitRec] /\ wait[t] \in WaitRec
    BY DEF RegistryInv, Types
  <1>2. NoWait \in WaitRec
    BY Finite DEF NoWait, WaitRec, NoSlot, NoSet
  <1>3. ClearedLink(t, i) \in WaitRec
    BY <1>1, <1>2 DEF ClearedLink
  <1> QED BY <1>1, <1>3

\* toka_wait_set_commit_winner_locked, as it acts on the task and on the stack.
LEMMA CommitMove ==
    ASSUME RegistryInv, NEW a \in Actors, NEW name, Doing(a, name), NEW i \in Sets,
           CommitWinner(a, i, <<>>)
    PROVE  /\ Stacks' /\ Others(a) /\ Settled(a)'
           /\ wait' \in [Tasks -> WaitRec] /\ st' \in [Tasks -> TaskStates]
  <1>0. /\ wait \in [Tasks -> WaitRec] /\ st \in [Tasks -> TaskStates]
        /\ set[i] \in SetRec
    BY DEF RegistryInv, Types
  <1>1. CASE set[i].state # "wonPending"
    <2>1. Continue(a, <<>>) /\ wait' = wait /\ st' = st
      BY <1>1 DEF CommitWinner
    <2> QED BY <1>0, <2>1, ShortOps, PlainMove
  <1>2. CASE set[i].state = "wonPending"
    <2>1. PICK t, g : t = set[i].task /\ g = set[i].epoch
      OBVIOUS
    <2>2. t \in Tasks
      BY <1>2, <2>1 DEF RegistryInv, SetInv
    <2>3. g \in Int
      BY <1>0, <2>1 DEF SetRec
    <2>4. wait' = [wait EXCEPT ![t] = ClearedLink(t, i)]
      BY <1>2, <2>1 DEF CommitWinner
    <2>5. wait' \in [Tasks -> WaitRec]
      BY <2>2, <2>4, LinkCleared
    <2>6. st' = st \/ st' = [st EXCEPT ![t] = "queued"]
      BY <1>2, <2>1 DEF CommitWinner
    <2>7. st' \in [Tasks -> TaskStates]
      BY <1>0, <2>6 DEF TaskStates
    <2> DEFINE o == Op("pendWake", <<t>>)
               p == Op("publish", <<t, g>>)
    <2>8. o \in Below /\ p \in Below
      BY <2>2, <2>3, MadeOps DEF OfTask, OfEpoch
    <2>9. \/ Continue(a, <<o>> \o <<>>) \/ Continue(a, <<p>> \o <<>>) \/ Continue(a, <<>>)
      BY <1>2, <2>1 DEF CommitWinner
    <2> HIDE DEF o, p
    <2>10. /\ <<o>> \in Seq(Below) /\ <<p>> \in Seq(Below) /\ <<>> \in Seq(Below)
      BY <2>8, ShortOps
    <2>11. <<o>> \o <<>> = <<o>> /\ <<p>> \o <<>> = <<p>>
      BY <2>10, ConcatEmptySeq
    <2> QED BY <2>5, <2>7, <2>9, <2>10, <2>11, PlainMove
  <1> QED BY <1>1, <1>2

\* toka_wait_set_help_commit_with_ref
LEMMA HelpCommitStep == ASSUME RegistryInv, NEW a \in Actors, HelpCommit(a) PROVE RegistryInv'
  <1>0. Stacks /\ Doing(a, "helpCommit")
    BY DEF RegistryInv, HelpCommit
  <1>1. PICK i \in Sets : Arg(a) = <<i>>
    BY <1>0, ArgTop
  <1>2. /\ CommitWinner(a, i, <<>>)
        /\ set' = [set EXCEPT ![i] = Dropped(Committed(i), 1)]
        /\ fatal' = (fatal \/ CommitAborts(i) \/ Committed(i).refs < 1)
        /\ slot' = slot /\ gen' = gen /\ held' = held
    BY <1>1 DEF HelpCommit, host
  <1>3. /\ Stacks' /\ Others(a) /\ Settled(a)'
        /\ wait' \in [Tasks -> WaitRec] /\ st' \in [Tasks -> TaskStates]
    BY <1>0, <1>2, CommitMove
  <1>4. /\ set' \in [Sets -> SetRec]
        /\ SlotInv' /\ SetInv' /\ RefsInv' /\ AllocInv' /\ ~fatal'
    BY <1>0, <1>1, <1>2, <1>3, HelpStep
  <1>5. Types'
    BY <1>2, <1>3, <1>4 DEF RegistryInv, Types
  <1> QED BY <1>3, <1>4, <1>5 DEF RegistryInv

\* A group is cancelled by an operation that goes on with the publication of
\* the task it made ready, or with a second half on its state.
LEMMA CancelGroupMove ==
    ASSUME RegistryInv, NEW a \in Actors, NEW name, Doing(a, name),
           name # "helpCommit", NEW ops \in Seq(Below), Continue(a, ops),
           NEW j \in Sets, CancelGroup(j), gen' = gen, held' = held
    PROVE  RegistryInv'
  <1>1. Stacks' /\ Others(a) /\ Settled(a)'
    BY PlainMove
  <1>2. ~Doing(a, "helpCommit")
    BY DEF Doing
  <1>3. /\ set' \in [Sets -> SetRec] /\ slot' \in [Slots -> SlotRec]
        /\ SlotInv' /\ SetInv' /\ RefsInv' /\ AllocInv' /\ ~fatal'
    BY <1>1, <1>2, CancelGroupStep
  <1>4. /\ wait \in [Tasks -> WaitRec] /\ st \in [Tasks -> TaskStates]
    BY DEF RegistryInv, Types
  <1>5. wait' \in [Tasks -> WaitRec] /\ st' \in [Tasks -> TaskStates]
    <2>1. CASE ~CanCancelGroup(j)
      BY <1>4, <2>1 DEF CancelGroup
    <2>2. CASE CanCancelGroup(j)
      <3>1. PICK t : t = set[j].task
        OBVIOUS
      <3>2. t \in Tasks
        BY <2>2, <3>1 DEF CanCancelGroup, RegistryInv, SetInv
      <3>3. wait' = [wait EXCEPT ![t] = ClearedLink(t, j)]
        BY <2>2, <3>1 DEF CancelGroup
      <3>4. st' = [st EXCEPT ![t] = IF @ = "suspended" THEN "queued" ELSE @]
        BY <2>2, <3>1 DEF CancelGroup
      <3>5. st' \in [Tasks -> TaskStates]
        BY <1>4, <3>2, <3>4 DEF TaskStates
      <3> QED BY <3>2, <3>3, <3>5, LinkCleared
    <2> QED BY <2>1, <2>2
  <1>6. Types'
    BY <1>3, <1>5 DEF RegistryInv, Types
  <1> QED BY <1>1, <1>3, <1>6 DEF RegistryInv

\* What follows a cancelled group.
LEMMA AfterCancelOps ==
    ASSUME RegistryInv, NEW j \in Sets PROVE AfterCancelGroup(j) \in Seq(Below)
  <1>1. CASE CanCancelGroup(j) /\ st[set[j].task] = "suspended"
    <2>1. PICK t : t = set[j].task
      OBVIOUS
    <2>2. t \in Tasks
      BY <1>1, <2>1 DEF CanCancelGroup, RegistryInv, SetInv
    <2>3. gen[t] \in Int
      BY <2>2 DEF RegistryInv, Types
    <2>4. Op("publish", <<t, gen[t]>>) \in Below
      BY <2>2, <2>3, MadeOps DEF OfEpoch
    <2>5. AfterCancelGroup(j) = <<Op("publish", <<t, gen[t]>>)>>
      BY <1>1, <2>1 DEF AfterCancelGroup
    <2> QED BY <2>4, <2>5, ShortOps
  <1>2. CASE ~(CanCancelGroup(j) /\ st[set[j].task] = "suspended")
    BY <1>2, ShortOps DEF AfterCancelGroup
  <1> QED BY <1>1, <1>2

\* toka_wait_registry_release
LEMMA ReleaseSteps == ASSUME RegistryInv, NEW a \in Actors, Release(a) PROVE RegistryInv'
  <1>0. /\ Stacks /\ slot \in [Slots -> SlotRec] /\ gen \in [Tasks -> Int]
        /\ st \in [Tasks -> TaskStates] /\ SlotInv
    BY DEF RegistryInv, Types
  <1>1. Doing(a, "release") /\ ~Doing(a, "helpCommit")
    BY DEF Release, Doing
  <1>2. PICK s \in Slots, g \in Nat : Arg(a) = <<s, g>>
    BY <1>0, <1>1, ArgToken
  <1>3. PICK i : i = slot[s].set
    OBVIOUS
  <1>4. gen' = gen /\ held' = held
    BY DEF Release, host
  <1>5. Arg(a)[1] = s /\ Arg(a)[2] = g
    BY <1>2
  <1>6. CASE ~Names(s, g)
    <2>1. /\ Continue(a, <<>>) /\ slot' = slot /\ set' = set /\ wait' = wait
          /\ fatal' = fatal /\ st' = st
      BY <1>5, <1>6 DEF Release
    <2>2. Types'
      BY <1>0, <1>4, <2>1, TypesKept
    <2> QED BY <1>1, <2>1, <2>2, ShortOps, QuietMove
  <1>7. CASE Names(s, g) /\ i # NoSet /\ slot[s].active
    <2>1. i \in Sets
      BY <1>0, <1>3, <1>7, SetOf
    <2>2. CancelGroup(i) /\ Continue(a, AfterCancelGroup(i))
      BY <1>3, <1>5, <1>7 DEF Release
    <2>3. AfterCancelGroup(i) \in Seq(Below)
      BY <2>1, AfterCancelOps
    <2> QED BY <1>1, <1>4, <2>1, <2>2, <2>3, CancelGroupMove
  <1>8. CASE Names(s, g) /\ i # NoSet /\ ~slot[s].active
    <2>1. i \in Sets
      BY <1>0, <1>3, <1>8, SetOf
    <2>2. /\ CommitWinner(a, i, <<>>)
          /\ slot' = [slot EXCEPT ![s] = Recycled(@)]
          /\ set' = [set EXCEPT ![i] = Dropped(Committed(i), 1)]
          /\ fatal' = (fatal \/ CommitAborts(i) \/ Committed(i).state # "inactive"
                             \/ Committed(i).refs < 1)
      BY <1>3, <1>5, <1>8 DEF Release
    <2>3. /\ Stacks' /\ Others(a) /\ Settled(a)'
          /\ wait' \in [Tasks -> WaitRec] /\ st' \in [Tasks -> TaskStates]
      BY <1>1, <2>1, <2>2, CommitMove
    <2>4. slot[s].inUse
      BY <1>8 DEF Names
    <2>5. /\ set' \in [Sets -> SetRec] /\ slot' \in [Slots -> SlotRec]
          /\ SlotInv' /\ SetInv' /\ RefsInv' /\ AllocInv' /\ ~fatal'
      BY <1>1, <1>3, <1>8, <2>1, <2>2, <2>3, <2>4, ReleaseStep
    <2>6. Types'
      BY <1>4, <2>3, <2>5 DEF RegistryInv, Types
    <2> QED BY <2>3, <2>5, <2>6 DEF RegistryInv
  <1>9. CASE Names(s, g) /\ i = NoSet
    <2>1. PICK t : t = slot[s].task
      OBVIOUS
    <2>2. t \in Tasks /\ slot[s].inUse
      BY <1>0, <1>9, <2>1 DEF Names, SlotInv
    <2>3. Names(Arg(a)[1], Arg(a)[2]) /\ slot[Arg(a)[1]].set = NoSet
      BY <1>3, <1>5, <1>9, Zenon
    <2>4. /\ slot' = [slot EXCEPT ![Arg(a)[1]] = Recycled(@)] /\ set' = set /\ fatal' = fatal
          /\ wait' = [wait EXCEPT ![slot[Arg(a)[1]].task].slot = NoSlot,
                                  ![slot[Arg(a)[1]].task].gen = 0]
          /\ Continue(a, <<>>) /\ st' = st
      BY <2>3, Zenon DEF Release
    <2>5. /\ slot' = [slot EXCEPT ![s] = Recycled(@)]
          /\ wait' = [wait EXCEPT ![t].slot = NoSlot, ![t].gen = 0]
      BY <1>5, <2>1, <2>4, Zenon
    <2>6. Stacks' /\ Others(a) /\ Settled(a)'
      BY <1>1, <2>4, ShortOps, PlainMove
    <2>7. /\ slot' \in [Slots -> SlotRec]
          /\ SlotInv' /\ SetInv' /\ RefsInv' /\ AllocInv' /\ ~fatal'
      BY <1>1, <1>3, <1>9, <2>2, <2>4, <2>5, <2>6, SingleStep
    <2>8. wait' \in [Tasks -> WaitRec]
      BY <2>2, <2>5, Unlinked
    <2>9. Types'
      BY <1>4, <2>4, <2>7, <2>8 DEF RegistryInv, Types
    <2> QED BY <2>6, <2>7, <2>9 DEF RegistryInv
  <1> QED BY <1>6, <1>7, <1>8, <1>9

\* The link of a task names a slot of the registry, or none.
LEMMA LinkedSlot ==
    ASSUME RegistryInv, NEW t \in Tasks
    PROVE  /\ wait[t].slot # NoSlot => wait[t].slot \in Slots
           /\ wait[t].gen \in Nat
  <1>1. wait[t] \in WaitRec
    BY DEF RegistryInv, Types
  <1> QED BY <1>1, Finite DEF WaitRec, NoSlot, Slots

\* The second section of toka_wait_registry_cancel_active.
LEMMA CancelWaitStep == ASSUME RegistryInv, NEW a \in Actors, CancelWait(a) PROVE RegistryInv'
  <1>0. /\ Stacks /\ slot \in [Slots -> SlotRec] /\ gen \in [Tasks -> Int]
        /\ st \in [Tasks -> TaskStates]
    BY DEF RegistryInv, Types
  <1>1. Doing(a, "cancelWait") /\ "cancelWait" \in OfTask
    BY DEF CancelWait, OfTask
  <1>2. PICK t \in Tasks : Arg(a) = <<t>>
    BY <1>0, <1>1, ArgTask
  <1>3. PICK s, g : s = wait[t].slot /\ g = wait[t].gen
    OBVIOUS
  <1>4. (s # NoSlot => s \in Slots) /\ g \in Nat
    BY <1>3, LinkedSlot
  <1>5. gen' = gen /\ held' = held /\ Arg(a)[1] = t
    BY <1>2 DEF CancelWait, host
  <1>6. CASE s # NoSlot /\ Names(s, g) /\ slot[s].active /\ slot[s].set # NoSet
    <2>1. PICK j \in Sets : j = slot[s].set
      BY <1>0, <1>4, <1>6, SetOf
    <2>2. CancelGroup(j) /\ Continue(a, AfterCancelGroup(j))
      BY <1>3, <1>5, <1>6, <2>1 DEF CancelWait
    <2>3. AfterCancelGroup(j) \in Seq(Below)
      BY <2>1, AfterCancelOps
    <2> QED BY <1>1, <1>5, <2>1, <2>2, <2>3, CancelGroupMove
  <1>7. CASE ~(s # NoSlot /\ Names(s, g) /\ slot[s].active /\ slot[s].set # NoSet)
    <2>1. /\ slot' = slot /\ set' = set /\ fatal' = fatal /\ wait' = wait /\ st' = st
          /\ Continue(a, IF s # NoSlot /\ Names(s, g) /\ slot[s].active
                           THEN <<Op("release", <<s, g>>)>> ELSE <<>>)
      BY <1>3, <1>5, <1>7 DEF CancelWait
    <2>2. s \in Slots => <<Op("release", <<s, g>>)>> \in Seq(Below)
      BY <1>4, MadeOps, ShortOps
    <2>3. PICK ops \in Seq(Below) : Continue(a, ops)
      BY <1>4, <2>1, <2>2, ShortOps
    <2>4. Types'
      BY <1>0, <1>5, <2>1, TypesKept
    <2> QED BY <1>1, <2>1, <2>3, <2>4, QuietMove
  <1> QED BY <1>6, <1>7

\* The last critical section of toka_task_request_cancel.
LEMMA CancelArbiterStep ==
    ASSUME RegistryInv, NEW a \in Actors, CancelArbiter(a) PROVE RegistryInv'
  <1>0. /\ Stacks /\ slot \in [Slots -> SlotRec] /\ gen \in [Tasks -> Int]
        /\ st \in [Tasks -> TaskStates]
    BY DEF RegistryInv, Types
  <1>1. Doing(a, "cancelArbiter") /\ "cancelArbiter" \in OfTask
    BY DEF CancelArbiter, OfTask
  <1>2. PICK t \in Tasks : Arg(a) = <<t>>
    BY <1>0, <1>1, ArgTask
  <1>3. PICK s, g : s = wait[t].slot /\ g = wait[t].gen
    OBVIOUS
  <1>4. (s # NoSlot => s \in Slots) /\ g \in Nat
    BY <1>3, LinkedSlot
  <1>5. gen' = gen /\ held' = held /\ Arg(a)[1] = t
    BY <1>2 DEF CancelArbiter, host
  <1> DEFINE o == <<Op("pendWake", <<t>>)>>
  <1>6. o \in Seq(Below)
    BY MadeOps, ShortOps DEF OfTask
  <1>7. CASE st[t] # "created" /\ s # NoSlot /\ slot[s].active /\ slot[s].set # NoSet
    <2>1. PICK j \in Sets : j = slot[s].set
      BY <1>0, <1>4, <1>7, SetOf
    <2>2. CancelGroup(j) /\ (Continue(a, AfterCancelGroup(j)) \/ Continue(a, o))
      BY <1>3, <1>5, <1>7, <2>1 DEF CancelArbiter
    <2>3. AfterCancelGroup(j) \in Seq(Below)
      BY <2>1, AfterCancelOps
    <2>4. PICK ops \in Seq(Below) : Continue(a, ops)
      BY <1>6, <2>2, <2>3
    <2> QED BY <1>1, <1>5, <2>1, <2>2, <2>4, CancelGroupMove
  <1>8. CASE ~(st[t] # "created" /\ s # NoSlot /\ slot[s].active /\ slot[s].set # NoSet)
    <2>1. /\ slot' = slot /\ set' = set /\ fatal' = fatal /\ wait' = wait /\ st' = st
          /\ Continue(a, o) \/ Continue(a, CancelUngrouped(t))
      BY <1>3, <1>5, <1>8 DEF CancelArbiter
    <2>2. CancelUngrouped(t) \in Seq(Below)
      <3>1. /\ <<Op("coldCancel", <<t>>)>> \in Seq(Below)
            /\ <<Op("cancelLoad", <<t>>)>> \in Seq(Below)
        BY MadeOps, ShortOps DEF OfTask
      <3>2. s # NoSlot => <<Op("wake", <<s, g, "keep">>)>> \in Seq(Below)
        BY <1>4, MadeOps, ShortOps
      <3> QED BY <1>3, <3>1, <3>2, ShortOps DEF CancelUngrouped
    <2>3. PICK ops \in Seq(Below) : Continue(a, ops)
      BY <1>6, <2>1, <2>2
    <2>4. Types'
      BY <1>0, <1>5, <2>1, TypesKept
    <2> QED BY <1>1, <2>1, <2>3, <2>4, QuietMove
  <1> QED BY <1>7, <1>8

\* toka_wait_registry_reap_terminal_outcomes
LEMMA ReapSteps ==
    ASSUME RegistryInv, NEW a \in Actors, ReapTerminalOutcomes(a) PROVE RegistryInv'
  <1>0. Stacks /\ slot \in [Slots -> SlotRec]
    BY DEF RegistryInv, Types
  <1>1. Doing(a, "reap") /\ ~Doing(a, "helpCommit") /\ Continue(a, <<>>)
    BY DEF ReapTerminalOutcomes, Doing
  <1>2. gen' = gen /\ st' = st /\ held' = held /\ wait' = wait
    BY DEF ReapTerminalOutcomes, tcb, host
  <1>3. Stacks' /\ Others(a) /\ Settled(a)'
    BY <1>1, ShortOps, PlainMove
  <1> DEFINE G == Unread(Arg(a)[1])
  <1>4. /\ G \subseteq Slots
        /\ \A r \in G : /\ slot[r].inUse /\ ~slot[r].active /\ slot[r].set # NoSet
                        /\ set[slot[r].set].state = "inactive"
    BY DEF Unread
  <1>5. /\ Recycle(G)
        /\ set' = [i \in Sets |-> IF {r \in G : slot[r].set = i} = {} THEN set[i]
                     ELSE Dropped(set[i], Cardinality({r \in G : slot[r].set = i}))]
        /\ fatal' = (fatal \/ \E i \in Sets :
                                Underflow(i, Cardinality({r \in G : slot[r].set = i})))
    BY DEF ReapTerminalOutcomes, Recycle
  <1> HIDE DEF G
  <1>6. /\ set' \in [Sets -> SetRec] /\ slot' \in [Slots -> SlotRec]
        /\ SlotInv' /\ SetInv' /\ RefsInv' /\ AllocInv' /\ ~fatal'
    BY <1>1, <1>3, <1>4, <1>5, ReapStep
  <1>7. Types'
    BY <1>2, <1>6 DEF RegistryInv, Types
  <1> QED BY <1>3, <1>6, <1>7 DEF RegistryInv

\* After an installation the sources are armed, or the tokens are given back.
LEMMA ArmedMove ==
    ASSUME RegistryInv, NEW a \in Actors, NEW name, Doing(a, name), NEW t \in Tasks,
           NEW toks \in Seq(Slots \X Nat), ArmedOrRolledBack(a, t, toks)
    PROVE  Stacks' /\ Others(a) /\ Settled(a)'
  <1> DEFINE back == [k \in 1 .. Len(toks) |-> Op("release", toks[k])]
             arm == <<Op("commit", <<t>>), Op("register", <<t>>), Op("clearCurrent", <<t>>)>>
             undo == <<Op("abort", <<t>>)>>
  <1>1. arm \in Seq(Below) /\ undo \in Seq(Below)
    BY MadeOps, ShortOps DEF OfTask
  <1>2. back \in Seq(Below)
    <2>1. Len(toks) \in Nat
      OBVIOUS
    <2>2. \A k \in 1 .. Len(toks) : Op("release", toks[k]) \in Below
      <3> SUFFICES ASSUME NEW k \in 1 .. Len(toks) PROVE Op("release", toks[k]) \in Below
        OBVIOUS
      <3>1. toks[k] \in Slots \X Nat
        OBVIOUS
      <3>2. PICK s \in Slots, g \in Nat : toks[k] = <<s, g>>
        BY <3>1
      <3> QED BY <3>2, MadeOps
    <2>3. back \in [1 .. Len(toks) -> Below]
      BY <2>2
    <2> DEFINE n == Len(toks)
               B == Below
    <2>4. n \in Nat /\ back \in [1 .. n -> B]
      BY <2>1, <2>3
    <2> HIDE DEF back, n, B
    <2>5. back \in Seq(B)
      BY <2>4
    <2> QED BY <2>5 DEF B
  <1>3. Continue(a, arm) \/ Continue(a, back \o undo)
    BY DEF ArmedOrRolledBack
  <1> HIDE DEF arm, back, undo
  <1>4. back \o undo \in Seq(Below)
    BY <1>1, <1>2
  <1> QED BY <1>1, <1>3, <1>4, PlainMove

\* A token is a slot and the generation it has now.
LEMMA TokenOf ==
    ASSUME RegistryInv, NEW s \in Slots
    PROVE  slot[s].gen \in Nat /\ s \in 0 .. NumSlots
  <1>1. slot[s] \in SlotRec
    BY DEF RegistryInv, Types
  <1> QED BY <1>1, Finite DEF SlotRec, Slots

\* A task registers with one source.
LEMMA AllocateSingleStep ==
    ASSUME RegistryInv, NEW a \in Actors, Doing(a, "allocate"), a = Exec,
           Cardinality(Available) >= 1, NEW t \in Tasks, AllocateSingle(a, t),
           gen' = gen, st' = st, fatal' = fatal
    PROVE  RegistryInv'
  <1> DEFINE S == Lowest(1)
  <1>1. S \subseteq Available /\ Cardinality(S) = 1
    BY LowestIs
  <1>2. Available \subseteq Slots /\ Slots \subseteq Nat
    BY Finite DEF Available
  <1> HIDE DEF S
  <1>3. S # {} /\ S \subseteq Nat
    <2>1. S # {}
      BY <1>1, FS_EmptySet
    <2> QED BY <1>1, <1>2, <2>1
  <1>4. Min(S) \in S
    BY <1>3, MinIn
  <1>5. PICK s \in Available : s = Min(S)
    BY <1>1, <1>4
  <1>6. PICK g : g = slot[s].gen
    OBVIOUS
  <1>7. s \in Slots /\ g \in Nat /\ s \in 0 .. NumSlots
    BY <1>2, <1>6, TokenOf
  <1>8. /\ slot' = [slot EXCEPT ![s] = Installed(t, NoSet, s)]
        /\ wait' = [wait EXCEPT ![t] = [slot |-> s, gen |-> g, set |-> NoSet]]
        /\ held' = [held EXCEPT ![t] = @ \cup {<<s, g>>}]
        /\ ArmedOrRolledBack(a, t, <<<<s, g>>>>) /\ set' = set
    BY <1>5, <1>6 DEF AllocateSingle, S
  <1>9. <<<<s, g>>>> \in Seq(Slots \X Nat)
    BY <1>7
  <1>10. Stacks' /\ Others(a) /\ Settled(a)'
    BY <1>8, <1>9, ArmedMove
  <1>11. ~Doing(a, "helpCommit")
    BY DEF Doing
  <1>12. /\ slot' \in [Slots -> SlotRec]
         /\ SlotInv' /\ SetInv' /\ RefsInv' /\ AllocInv' /\ ~fatal'
    BY <1>8, <1>10, <1>11, InstallSingle
  <1>13. wait' \in [Tasks -> WaitRec]
    <2>1. [slot |-> s, gen |-> g, set |-> NoSet] \in WaitRec
      BY <1>7, Finite DEF WaitRec, NoSet
    <2> QED BY <1>8, <2>1 DEF RegistryInv, Types
  <1>14. held' \in [Tasks -> SUBSET (Slots \X Nat)]
    <2>1. held \in [Tasks -> SUBSET (Slots \X Nat)] /\ <<s, g>> \in Slots \X Nat
      BY <1>7 DEF RegistryInv, Types
    <2> QED BY <1>8, <2>1
  <1>15. Types'
    BY <1>8, <1>12, <1>13, <1>14 DEF RegistryInv, Types
  <1> QED BY <1>10, <1>12, <1>15 DEF RegistryInv

\* A task registers with two sources in one set.
LEMMA AllocatePairStep ==
    ASSUME RegistryInv, NEW a \in Actors, Doing(a, "allocate"), a = Exec,
           Cardinality(Available) >= 2, NEW t \in Tasks, AllocatePair(a, t),
           ~(Continue(a, <<Op("abort", <<t>>)>>) /\ UNCHANGED <<slot, set, wait, held>>),
           gen' = gen, st' = st, fatal' = fatal
    PROVE  RegistryInv'
  <1>1. PICK S, j : S = Lowest(2) /\ j = Min(UnusedSets)
    OBVIOUS
  <1>2. PICK one, two : one = Min(S) /\ two = Max(S)
    OBVIOUS
  <1>3. PICK g, h : g = slot[one].gen /\ h = slot[two].gen
    OBVIOUS
  <1> DEFINE toks == <<<<one, g>>, <<two, h>>>>
  <1>4. toks[1] = <<one, g>> /\ toks[2] = <<two, h>>
    OBVIOUS
  <1>5. /\ UnusedSets # {}
        /\ slot' = [s \in Slots |-> IF s \in S THEN Installed(t, j, s) ELSE slot[s]]
        /\ set' = [set EXCEPT ![j] = [NewSet EXCEPT !.state = "waiting", !.refs = 2,
                                                    !.task = t, !.epoch = gen[t]]]
        /\ wait' = [wait EXCEPT ![t] = [slot |-> one, gen |-> g, set |-> j]]
        /\ held' = [held EXCEPT ![t] = @ \cup {toks[1], toks[2]}]
        /\ ArmedOrRolledBack(a, t, toks)
    BY <1>1, <1>2, <1>3, Zenon DEF AllocatePair
  <1>6. held' = [held EXCEPT ![t] = @ \cup {<<one, g>>, <<two, h>>}]
    BY <1>4, <1>5, Zenon
  <1>7. S \subseteq Available /\ Cardinality(S) = 2
    BY <1>1, LowestIs
  <1>8. Available \subseteq Slots /\ Slots \subseteq Nat
    BY Finite DEF Available
  <1>9. IsFiniteSet(S) /\ S \subseteq Nat
    BY <1>7, <1>8, PartSize
  <1>10. one \in S /\ two \in S
    BY <1>2, <1>7, <1>9, MinMaxOfPair
  <1>11. one \in Slots /\ two \in Slots
    BY <1>7, <1>8, <1>10
  <1>12. g \in Nat /\ h \in Nat /\ one \in 0 .. NumSlots
    BY <1>3, <1>11, TokenOf
  <1>13. j \in Sets /\ set[j].state = "none" /\ j \in 0 .. MaxSets
    <2>1. UnusedSets \subseteq Nat /\ UnusedSets \subseteq Sets
      BY Finite DEF UnusedSets
    <2>2. j \in UnusedSets
      BY <1>1, <1>5, <2>1, MinIn
    <2> QED BY <2>2, Finite DEF UnusedSets, Sets
  <1>14. toks \in Seq(Slots \X Nat)
    BY <1>11, <1>12
  <1> HIDE DEF toks
  <1>15. Stacks' /\ Others(a) /\ Settled(a)'
    BY <1>5, <1>14, ArmedMove
  <1>16. ~Doing(a, "helpCommit")
    BY DEF Doing
  <1>17. /\ slot' \in [Slots -> SlotRec] /\ set' \in [Sets -> SetRec]
         /\ SlotInv' /\ SetInv' /\ RefsInv' /\ AllocInv' /\ ~fatal'
    BY <1>5, <1>7, <1>13, <1>15, <1>16, InstallPair
  <1>18. wait' \in [Tasks -> WaitRec]
    <2>1. [slot |-> one, gen |-> g, set |-> j] \in WaitRec
      BY <1>12, <1>13 DEF WaitRec
    <2> QED BY <1>5, <2>1 DEF RegistryInv, Types
  <1>19. held' \in [Tasks -> SUBSET (Slots \X Nat)]
    <2>1. /\ held \in [Tasks -> SUBSET (Slots \X Nat)]
          /\ <<one, g>> \in Slots \X Nat /\ <<two, h>> \in Slots \X Nat
      BY <1>11, <1>12 DEF RegistryInv, Types
    <2> QED BY <1>6, <2>1
  <1>20. Types'
    BY <1>17, <1>18, <1>19 DEF RegistryInv, Types
  <1> QED BY <1>15, <1>17, <1>20 DEF RegistryInv

\* toka_wait_registry_register and toka_wait_set_register_pair
LEMMA AllocateStep == ASSUME RegistryInv, NEW a \in Actors, Allocate(a) PROVE RegistryInv'
  <1>0. /\ Stacks /\ gen \in [Tasks -> Int] /\ st \in [Tasks -> TaskStates]
    BY DEF RegistryInv, Types
  <1>1. Doing(a, "allocate")
    BY DEF Allocate
  <1>2. PICK t \in Tasks, kind \in {"single", "pair"} : Arg(a) = <<t, kind>>
    BY <1>0, <1>1, ArgTop
  <1>3. Arg(a)[1] = t /\ Arg(a)[2] = kind
    BY <1>2
  <1>4. a = Exec /\ Cardinality(Available) >= SlotsFor(kind)
    BY <1>1, <1>3 DEF RegistryInv, AllocInv
  <1>5. gen' = gen /\ st' = st /\ fatal' = fatal
    BY DEF Allocate, tcb
  <1>6. <<Op("abort", <<t>>)>> \in Seq(Below)
    BY MadeOps, ShortOps DEF OfTask
  <1>7. ASSUME Continue(a, <<Op("abort", <<t>>)>>), slot' = slot, set' = set,
               wait' = wait, held' = held
        PROVE  RegistryInv'
    <2>1. Types'
      BY <1>0, <1>5, <1>7, TypesKept
    <2> QED BY <1>1, <1>5, <1>6, <1>7, <2>1, QuietMove
  <1>8. CASE ~CanInstall(t)
    BY <1>3, <1>7, <1>8 DEF Allocate
  <1>9. CASE CanInstall(t) /\ kind = "single" /\ AllocateSingle(a, t)
    <2>1. Cardinality(Available) >= 1
      BY <1>4, <1>9 DEF SlotsFor
    <2> QED BY <1>1, <1>4, <1>5, <1>9, <2>1, AllocateSingleStep
  <1>10. CASE CanInstall(t) /\ kind = "pair" /\ AllocatePair(a, t)
    <2>1. Cardinality(Available) >= 2
      BY <1>4, <1>10 DEF SlotsFor
    <2>2. CASE /\ Continue(a, <<Op("abort", <<t>>)>>)
               /\ UNCHANGED <<slot, set, wait, held>>
      BY <1>7, <2>2
    <2>3. CASE ~(/\ Continue(a, <<Op("abort", <<t>>)>>)
                 /\ UNCHANGED <<slot, set, wait, held>>)
      BY <1>1, <1>4, <1>5, <1>10, <2>1, <2>3, AllocatePairStep
    <2> QED BY <2>2, <2>3
  <1> QED BY <1>3, <1>8, <1>9, <1>10 DEF Allocate

-----------------------------------------------------------------------------
(* The theorems.                                                           *)

\* At the start every slot is free and no set exists.
LEMMA RegistryInit == Init => RegistryInv
  <1> SUFFICES ASSUME Init PROVE RegistryInv
    OBVIOUS
  <1> DEFINE fs == FreeSlot(1, FALSE)
  <1>0. /\ \A s \in Slots : slot[s] = fs
        /\ \A i \in Sets : set[i] = NewSet
        /\ \A a \in Actors : todo[a] = <<>>
    BY DEF Init
  <1>1. fs \in SlotRec /\ ~fs.inUse /\ ~fs.active /\ fs.set = NoSet
    BY Finite DEF FreeSlot, SlotRec, NoSet
  <1>2. /\ NewSet \in SetRec /\ NewSet.commitRef = FALSE /\ NewSet.state = "none"
        /\ NewSet.refs = 0
    BY Finite DEF NewSet, SetRec, NoSlot
  <1>3. NoWait \in WaitRec
    BY Finite DEF NoWait, WaitRec, NoSlot, NoSet
  <1>4. slot \in [Slots -> SlotRec] /\ set \in [Sets -> SetRec]
    BY <1>1, <1>2 DEF Init
  <1> HIDE DEF fs
  <1>5. Types
    <2>1. st \in [Tasks -> TaskStates]
      BY DEF Init, TaskStates
    <2>2. gen \in [Tasks -> Int]
      BY DEF Init
    <2>3. wait \in [Tasks -> WaitRec]
      BY <1>3 DEF Init
    <2>4. held \in [Tasks -> SUBSET (Slots \X Nat)]
      BY DEF Init
    <2> QED BY <1>4, <2>1, <2>2, <2>3, <2>4 DEF Types
  <1>6. Stacks
    <2>1. StackOK(<<>>)
      BY DEF StackOK
    <2>2. todo \in [Actors -> Seq(Below \cup Above)]
      BY DEF Init
    <2> QED BY <1>0, <2>1, <2>2 DEF Stacks
  <1>7. \A i \in Sets : Helpers(i) = {} /\ Members(i) = {}
    BY <1>0, <1>1, Finite DEF Helpers, Doing, Members, NoSet
  <1>8. SlotInv /\ SetInv
    BY <1>0, <1>1, <1>2, <1>7 DEF SlotInv, SetInv
  <1>9. RefsInv
    <2> SUFFICES ASSUME NEW i \in Sets
                 PROVE  set[i].refs = Cardinality(Members(i)) + Cardinality(Helpers(i))
                                        + Pending(set[i])
      BY DEF RefsInv
    <2>1. Pending(set[i]) = 0 /\ set[i].refs = 0
      BY <1>0, <1>2 DEF Pending
    <2>2. Cardinality(Members(i)) = 0 /\ Cardinality(Helpers(i)) = 0
      BY <1>7, FS_EmptySet
    <2> QED BY <2>1, <2>2
  <1>10. AllocInv /\ ~fatal
    BY <1>0 DEF Init, AllocInv, Doing
  <1> QED BY <1>5, <1>6, <1>8, <1>9, <1>10 DEF RegistryInv

\* Every step of every actor keeps the registry consistent.
LEMMA RegistryNext == RegistryInv /\ [Next]_vars => RegistryInv'
  <1> SUFFICES ASSUME RegistryInv, [Next]_vars PROVE RegistryInv'
    OBVIOUS
  <1>1. CASE PopReady
    BY <1>1, PopStep
  <1>2. ASSUME NEW a \in Actors, Step(a) PROVE RegistryInv'
    <2>1. CASE \/ Publish(a) \/ Start(a) \/ ClearCurrent(a) \/ PendWake(a)
               \/ CommitState(a) \/ AbortState(a) \/ AbortCas(a)
               \/ SuspendAndRegister(a) \/ TakeBackGeneration(a)
               \/ TrySchedule(a) \/ ScheduleState(a)
      BY <2>1, SchedulerSteps
    <2>2. CASE \/ RequestCancel(a) \/ CancelLoad(a) \/ CancelClaim(a)
               \/ ColdCancel(a) \/ PublishTerminal(a)
      BY <2>2, CancellationSteps
    <2>3. CASE CommitSuspend(a) \/ AbortSuspend(a) \/ ScheduleLoop(a) \/ CancelActive(a)
      BY <2>3, HelpingSteps
    <2>4. CASE Allocate(a)
      BY <2>4, AllocateStep
    <2>5. CASE HelpCommit(a)
      BY <2>5, HelpCommitStep
    <2>6. CASE TryWake(a)
      BY <2>6, TryWakeStep
    <2>7. CASE Release(a)
      BY <2>7, ReleaseSteps
    <2>8. CASE CancelWait(a)
      BY <2>8, CancelWaitStep
    <2>9. CASE IsWinner(a)
      BY <2>9, IsWinnerStep
    <2>10. CASE CancelArbiter(a)
      BY <2>10, CancelArbiterStep
    <2>11. CASE ReapTerminalOutcomes(a)
      BY <2>11, ReapSteps
    <2> QED BY <1>2, <2>1, <2>2, <2>3, <2>4, <2>5, <2>6, <2>7, <2>8, <2>9, <2>10, <2>11
            DEF Step
  <1>3. ASSUME NEW a \in Actors, Outside(a) PROVE RegistryInv'
    BY <1>3, OutsideSteps
  <1>4. ASSUME NEW t \in Tasks, User(t) PROVE RegistryInv'
    BY <1>4, UserSteps
  <1>5. CASE UNCHANGED vars
    <2>1. todo' = todo /\ slot' = slot /\ set' = set /\ fatal' = fatal
      BY <1>5 DEF vars, registry
    <2>2. Types'
      BY <1>5 DEF vars, registry, tcb, host, RegistryInv, Types
    <2> QED BY <2>1, <2>2, StillStep
  <1> QED BY <1>1, <1>2, <1>3, <1>4, <1>5 DEF Next

\* The wait registry is consistent in every reachable state.
THEOREM RegistryInvHolds == Spec => []RegistryInv
  BY RegistryInit, RegistryNext, PTL DEF Spec

\* The reference count of a wait set is the number of its outcome slots, its
\* helpers and its uncommitted winner, for every number of actors, tasks, slots
\* and sets: the count that toka_wait_set_retain_locked and
\* toka_wait_set_drop_refs_locked keep is exact, and a set is freed exactly when
\* nobody can reach it any more.
THEOREM WaitSetRefsHolds == Spec => []WaitSetRefs
  <1>1. RegistryInv => WaitSetRefs
    <2> SUFFICES ASSUME RegistryInv, NEW i \in Sets
                 PROVE  /\ set[i].refs = Cardinality({s \in Slots : slot[s].set = i})
                                         + Cardinality(Helpers(i))
                                         + (IF set[i].commitRef THEN 1 ELSE 0)
                        /\ set[i].state = "freed" => set[i].refs = 0
      BY DEF WaitSetRefs
    <2>1. set[i].refs = Cardinality(Members(i)) + Cardinality(Helpers(i)) + Pending(set[i])
      BY DEF RegistryInv, RefsInv
    <2>2. set[i].state = "freed" => set[i].refs = 0
      BY DEF RegistryInv, SetInv
    <2> QED BY <2>1, <2>2 DEF Members, Pending
  <1> QED BY <1>1, RegistryInvHolds, PTL

\* No consistency check of the wait registry ends in abort(): not the commit of a
\* winner without its private reference, not a count that would go below zero,
\* not a group whose count is not the number of its members.
THEOREM WaitNeverAborts == Spec => []NoAbort
  <1>1. RegistryInv => NoAbort
    BY DEF RegistryInv, NoAbort
  <1> QED BY <1>1, RegistryInvHolds, PTL

-----------------------------------------------------------------------------
(* Suspensions on one source.  The hypothesis of what follows: no task     *)
(* waits for two sources, so there are no wait sets.                       *)

OneSource == "pair" \notin Kinds

NoSets ==
    /\ \A i \in Sets : set[i].state = "none"
    /\ \A s \in Slots : slot[s].set = NoSet
    /\ \A t \in Tasks : wait[t].set = NoSet
NoPairs == \A a \in Actors : Doing(a, "allocate") => Arg(a)[2] = "single"

\* The parts of the scheduler that the registry says nothing of.
TicketTypes ==
    /\ ticket \in [Tasks -> [gen : Int, pub : BOOLEAN]]
    /\ queue \in Seq([task : Tasks, gen : Int])
    /\ pushed \in [Tasks -> [1 .. MaxGen -> Nat]]

\* suspend_and_register has advanced the generation of t and will take it back:
\* the epoch of t is still the one before.
Undone(t) == \E a \in Actors : Doing(a, "unregister") /\ Arg(a)[1] = t
Epoch(t) == IF Undone(t) THEN gen[t] - 1 ELSE gen[t]

\* It does so in one critical section.
LockInv ==
    \A a \in Actors :
        /\ Doing(a, "unregister") => lock = a
        /\ \A k \in 2 .. Len(todo[a]) : todo[a][k].op # "unregister"

\* The operations that advance a generation are on tasks that were started.
Advancing(o, t) == o.op \in {"allocate", "register", "unregister"} /\ o.arg[1] = t
Advances(t) ==
    current = t \/ \E a \in Actors : \E k \in 1 .. Len(todo[a]) : Advancing(todo[a][k], t)
Cold(t) == st[t] = "created" => gen[t] = 0 /\ ~Advances(t)

\* An epoch is not in the queue before its suspension ends.
Sleepy == {"preparing", "pending", "suspended"}
Unqueued(t) == st[t] \in Sleepy \/ (st[t] = "queued" /\ ~ticket[t].pub)
Pushes(t) ==
    \A g \in 1 .. MaxGen :
        /\ pushed[t][g] <= 1
        /\ g > Epoch(t) \/ (g = Epoch(t) /\ Unqueued(t)) => pushed[t][g] = 0

\* A queued task has the ticket of its epoch, and its entry is in the queue or an
\* actor is on its way to insert it.
Publishes(t, g) ==
    \E a \in Actors : \E k \in 1 .. Len(todo[a]) : todo[a][k] = Op("publish", <<t, g>>)
Entered(t, g) == \E k \in 1 .. Len(queue) : queue[k].task = t /\ queue[k].gen = g
Ticket(t) ==
    st[t] = "queued" =>
        /\ ticket[t].gen = Epoch(t)
        /\ ticket[t].pub => Entered(t, Epoch(t))
        /\ ~ticket[t].pub => Publishes(t, Epoch(t))

TicketInv ==
    /\ NoSets /\ NoPairs /\ TicketTypes /\ LockInv
    /\ \A t \in Tasks : Cold(t) /\ Pushes(t) /\ Ticket(t)

-----------------------------------------------------------------------------
(* What a new stack of operations means for the tasks.                     *)

\* An operation that may be pushed: it does not take a generation back, and it
\* advances one only for a task of which that is known.
Fit(o) ==
    /\ o \in Below \cup Above /\ o.op \notin {"unregister", "helpCommit"}
    /\ o.op \in {"register", "allocate"} => Advances(o.arg[1])
    /\ o.op = "allocate" => o.arg[2] = "single"
Fits(ops) == ops \in Seq(Below \cup Above) /\ \A k \in 1 .. Len(ops) : Fit(ops[k])

\* Most operations fit.
LEMMA PlainFit ==
    ASSUME NEW o \in Below, o.op \notin {"register", "unregister"}
    PROVE  Fit(o)
  BY BelowNames DEF Fit

\* Short stacks.
LEMMA ShortFits ==
    /\ Fits(<<>>)
    /\ \A o : Fit(o) => Fits(<<o>>)
    /\ \A o, p : Fit(o) /\ Fit(p) => Fits(<<o, p>>)
    /\ \A o, p, q : Fit(o) /\ Fit(p) /\ Fit(q) => Fits(<<o, p, q>>)
  <1> DEFINE B == Below \cup Above
  <1>1. \A o : Fit(o) => o \in B
    BY DEF Fit
  <1> HIDE DEF B
  <1>2. /\ <<>> \in Seq(B)
        /\ \A o \in B : <<o>> \in Seq(B)
        /\ \A o, p \in B : <<o, p>> \in Seq(B)
        /\ \A o, p, q \in B : <<o, p, q>> \in Seq(B)
    OBVIOUS
  <1>3. Fits(<<>>)
    BY <1>2 DEF Fits, B
  <1>4. ASSUME NEW o, Fit(o) PROVE Fits(<<o>>)
    <2>1. \A k \in 1 .. Len(<<o>>) : <<o>>[k] = o
      OBVIOUS
    <2> QED BY <1>1, <1>2, <1>4, <2>1 DEF Fits, B
  <1>5. ASSUME NEW o, NEW p, Fit(o), Fit(p) PROVE Fits(<<o, p>>)
    <2>1. \A k \in 1 .. Len(<<o, p>>) : <<o, p>>[k] \in {o, p}
      OBVIOUS
    <2> QED BY <1>1, <1>2, <1>5, <2>1 DEF Fits, B
  <1>6. ASSUME NEW o, NEW p, NEW q, Fit(o), Fit(p), Fit(q) PROVE Fits(<<o, p, q>>)
    <2>1. \A k \in 1 .. Len(<<o, p, q>>) : <<o, p, q>>[k] \in {o, p, q}
      OBVIOUS
    <2> QED BY <1>1, <1>2, <1>6, <2>1 DEF Fits, B
  <1> QED BY <1>3, <1>4, <1>5, <1>6

\* The elements of a stack r that is q with its topmost operation replaced by ops.
Replaced(B, q, ops, r) ==
    /\ r \in Seq(B)
    /\ \A k \in 1 .. Len(ops) : k \in 1 .. Len(r) /\ r[k] = ops[k]
    /\ \A k \in 2 .. Len(q) : \E j \in 1 .. Len(r) : r[j] = q[k]
    /\ \A j \in 1 .. Len(r) : \/ j \in 1 .. Len(ops) /\ r[j] = ops[j]
                              \/ \E k \in 2 .. Len(q) : r[j] = q[k]
    /\ Head(q) = q[1]

\* A Continue replaces the topmost operation.
LEMMA Elements ==
    ASSUME NEW B, NEW q \in Seq(B), q # <<>>, NEW ops \in Seq(B)
    PROVE  Replaced(B, q, ops, ops \o Tail(q))
  <1>0. PICK r : r = ops \o Tail(q)
    OBVIOUS
  <1>1. Tail(q) \in Seq(B) /\ Len(Tail(q)) = Len(q) - 1 /\ Len(q) \in Nat /\ Len(q) >= 1
        /\ Len(ops) \in Nat
    OBVIOUS
  <1>2. \A k \in 1 .. Len(q) - 1 : Tail(q)[k] = q[k + 1]
    OBVIOUS
  <1>3. r \in Seq(B) /\ Len(r) = Len(ops) + (Len(q) - 1)
    BY <1>0, <1>1
  <1>4. \A k \in 1 .. Len(ops) : r[k] = ops[k]
    BY <1>0, <1>1
  <1>5. \A k \in 2 .. Len(q) : r[Len(ops) + (k - 1)] = q[k]
    BY <1>0, <1>1, <1>2
  <1>6. \A j \in 1 .. Len(r) : j > Len(ops) => r[j] = q[j - Len(ops) + 1]
                                              /\ j - Len(ops) + 1 \in 2 .. Len(q)
    BY <1>0, <1>1, <1>2, <1>3
  <1>7. \A k \in 2 .. Len(q) : Len(ops) + (k - 1) \in 1 .. Len(r)
    BY <1>1, <1>3
  <1>8. \A k \in 2 .. Len(q) : \E j \in 1 .. Len(r) : r[j] = q[k]
    BY <1>5, <1>7
  <1>9. \A j \in 1 .. Len(r) : j \in 1 .. Len(ops) \/ j > Len(ops)
    BY <1>1, <1>3
  <1>10. \A k \in 1 .. Len(ops) : k \in 1 .. Len(r)
    BY <1>1, <1>3
  <1>11. Replaced(B, q, ops, r)
    BY <1>3, <1>4, <1>6, <1>8, <1>9, <1>10 DEF Replaced
  <1> QED BY <1>0, <1>11

\* Nobody but a advances or takes back a generation, or is about to, who was not
\* before.
Steady(a) ==
    /\ \A t : Undone(t)' <=> Undone(t)
    /\ \A t : Advances(t)' => Advances(t) \/ current' = t
    /\ NoPairs => NoPairs'
    /\ lock' = lock \/ lock = NoActor \/ lock = a => LockInv'
Kept(t, g) == Publishes(t, g) => Publishes(t, g)'
Begun(ops) ==
    \A k \in 1 .. Len(ops) : \A t, g : ops[k] = Op("publish", <<t, g>>) => Publishes(t, g)'

\* Operations that fit replace the topmost one.  A publication that was pending is
\* still pending, or was the one executed.
LEMMA MoveKeeps ==
    ASSUME RegistryInv, LockInv, NEW a \in Actors, NEW name, Doing(a, name),
           name # "unregister", NEW ops, Fits(ops), Continue(a, ops)
    PROVE  /\ \A t, g : Kept(t, g) \/ (name = "publish" /\ Arg(a) = <<t, g>>)
           /\ Begun(ops) /\ Steady(a)
  <1> DEFINE B == Below \cup Above
             q == todo[a]
  <1>1. q \in Seq(B) /\ Tail(q) \in Seq(Below) /\ q # <<>> /\ todo \in [Actors -> Seq(B)]
    BY DEF RegistryInv, Stacks, StackOK, Doing
  <1>2. ops \in Seq(B) /\ \A k \in 1 .. Len(ops) : Fit(ops[k])
    BY DEF Fits
  <1>3. PICK r : r = ops \o Tail(q)
    OBVIOUS
  <1>4. todo' = [todo EXCEPT ![a] = r]
    BY <1>3 DEF Continue
  <1>5. Head(q).op = name /\ Arg(a) = Head(q).arg
    BY DEF Doing, Arg
  <1>q. \A k \in 2 .. Len(q) : q[k] \in Below /\ q[k].op # "unregister"
    <2>1. \A k \in 1 .. Len(Tail(q)) : Tail(q)[k] \in Below
      <3> DEFINE S == Below
                 w == Tail(q)
      <3>1. w \in Seq(S)
        BY <1>1
      <3> HIDE DEF S, w
      <3>2. \A k \in 1 .. Len(w) : w[k] \in S
        BY <3>1
      <3> QED BY <3>2 DEF S, w
    <2> HIDE DEF B
    <2>2. \A k \in 2 .. Len(q) : k - 1 \in 1 .. Len(Tail(q)) /\ q[k] = Tail(q)[k - 1]
      BY <1>1
    <2>3. \A k \in 2 .. Len(q) : q[k] \in Below
      BY <2>1, <2>2
    <2> QED BY <2>3 DEF LockInv
  <1> HIDE DEF B, q
  <1>6. /\ r \in Seq(B)
        /\ \A k \in 1 .. Len(ops) : k \in 1 .. Len(r) /\ r[k] = ops[k]
        /\ \A k \in 2 .. Len(q) : \E j \in 1 .. Len(r) : r[j] = q[k]
        /\ \A j \in 1 .. Len(r) : \/ j \in 1 .. Len(ops) /\ r[j] = ops[j]
                                  \/ \E k \in 2 .. Len(q) : r[j] = q[k]
        /\ Head(q) = q[1]
    <2>1. Replaced(B, q, ops, r)
      BY <1>1, <1>2, <1>3, Elements
    <2> QED BY <2>1 DEF Replaced
  <1>7. todo'[a] = r /\ \A b \in Actors : b # a => todo'[b] = todo[b]
    BY <1>1, <1>4
  <1>8. \A j \in 1 .. Len(r) : r[j].op # "unregister"
    BY <1>2, <1>6, <1>q DEF Fit
  <1>9. r # <<>> => Head(r) = r[1] /\ 1 \in 1 .. Len(r)
    BY <1>6
  <1>10. ASSUME NEW t, NEW g, Publishes(t, g)
         PROVE  Publishes(t, g)' \/ (name = "publish" /\ Arg(a) = <<t, g>>)
    <2>1. PICK b \in Actors : \E k \in 1 .. Len(todo[b]) : todo[b][k] = Op("publish", <<t, g>>)
      BY <1>10 DEF Publishes
    <2>2. PICK k \in 1 .. Len(todo[b]) : todo[b][k] = Op("publish", <<t, g>>)
      BY <2>1
    <2>3. CASE b # a
      BY <1>7, <2>2, <2>3 DEF Publishes
    <2>4. CASE b = a /\ k = 1
      <3>1. Head(q) = Op("publish", <<t, g>>)
        BY <1>6, <2>2, <2>4 DEF q
      <3> QED BY <1>5, <3>1 DEF Op
    <2>5. CASE b = a /\ k # 1
      <3>1. k \in 2 .. Len(q)
        BY <2>2, <2>5, <1>1 DEF q
      <3>2. \E j \in 1 .. Len(r) : r[j] = Op("publish", <<t, g>>)
        BY <1>6, <2>2, <2>5, <3>1 DEF q
      <3> QED BY <1>7, <3>2 DEF Publishes
    <2> QED BY <2>3, <2>4, <2>5
  <1>11. ASSUME NEW k \in 1 .. Len(ops), NEW t, NEW g, ops[k] = Op("publish", <<t, g>>)
         PROVE  Publishes(t, g)'
    BY <1>6, <1>7, <1>11 DEF Publishes
  <1>12. ~Doing(a, "unregister")' /\ ~Doing(a, "unregister")
    BY <1>5, <1>7, <1>8, <1>9 DEF Doing, q
  <1>13. \A b \in Actors : b # a =>
            \A n : (Doing(b, n)' <=> Doing(b, n)) /\ Arg(b)' = Arg(b)
    BY <1>7 DEF Doing, Arg
  <1>14. ASSUME NEW t PROVE Undone(t)' <=> Undone(t)
    BY <1>12, <1>13 DEF Undone
  <1>15. ASSUME NEW t, Advances(t)' PROVE Advances(t) \/ current' = t
    <2>1. SUFFICES ASSUME current' # t PROVE Advances(t)
      OBVIOUS
    <2>2. PICK b \in Actors : \E k \in 1 .. Len(todo'[b]) : Advancing(todo'[b][k], t)
      BY <1>15, <2>1 DEF Advances, Advancing
    <2>3. PICK k \in 1 .. Len(todo'[b]) : Advancing(todo'[b][k], t)
      BY <2>2
    <2>4. CASE b # a
      BY <1>7, <2>3, <2>4 DEF Advances
    <2>5. CASE b = a
      <3>1. k \in 1 .. Len(r) /\ Advancing(r[k], t)
        BY <1>7, <2>3, <2>5
      <3>2. CASE k \in 1 .. Len(ops) /\ r[k] = ops[k]
        <4>1. Fit(r[k])
          BY <1>2, <3>2
        <4> QED BY <3>1, <4>1 DEF Fit, Advancing
      <3>3. ASSUME NEW j \in 2 .. Len(q), r[k] = q[j] PROVE Advances(t)
        <4>1. j \in 1 .. Len(todo[a]) /\ Advancing(todo[a][j], t)
          BY <1>1, <3>1, <3>3 DEF q
        <4> QED BY <4>1 DEF Advances
      <3> QED BY <1>6, <3>1, <3>2, <3>3
    <2> QED BY <2>4, <2>5
  <1>16. ASSUME NoPairs, NEW b \in Actors, Doing(b, "allocate")'
         PROVE  Arg(b)'[2] = "single"
    <2>1. CASE b # a
      BY <1>13, <1>16, <2>1 DEF NoPairs
    <2>2. CASE b = a
      <3>1. r # <<>> /\ Head(r).op = "allocate" /\ Arg(b)' = Head(r).arg
        BY <1>7, <1>16, <2>2 DEF Doing, Arg
      <3>2. 1 \in 1 .. Len(r) /\ r[1].op = "allocate" /\ Arg(b)' = r[1].arg
        BY <1>9, <3>1
      <3>3. CASE 1 \in 1 .. Len(ops) /\ r[1] = ops[1]
        BY <1>2, <3>2, <3>3 DEF Fit
      <3>4. ASSUME NEW k \in 2 .. Len(q), r[1] = q[k] PROVE FALSE
        BY <1>q, <3>2, <3>4, BelowNames
      <3> QED BY <1>6, <3>2, <3>3, <3>4
    <2> QED BY <2>1, <2>2
  <1>17. ASSUME lock' = lock \/ lock = NoActor \/ lock = a PROVE LockInv'
    <2> SUFFICES ASSUME NEW b \in Actors
                 PROVE  /\ Doing(b, "unregister")' => lock' = b
                        /\ \A k \in 2 .. Len(todo'[b]) : todo'[b][k].op # "unregister"
      BY DEF LockInv
    <2>1. CASE b = a
      <3>1. \A k \in 2 .. Len(r) : k \in 1 .. Len(r)
        OBVIOUS
      <3> QED BY <1>7, <1>8, <1>12, <2>1, <3>1
    <2>2. CASE b # a
      BY <1>7, <1>13, <1>17, <2>2, MarksAssumption DEF LockInv, MarksAssumption
    <2> QED BY <2>1, <2>2
  <1>18. NoPairs => NoPairs'
    BY <1>16 DEF NoPairs
  <1>19. Steady(a)
    BY <1>14, <1>15, <1>17, <1>18 DEF Steady
  <1>20. Begun(ops)
    BY <1>11 DEF Begun
  <1> QED BY <1>10, <1>19, <1>20 DEF Kept

\* A call by an actor that was doing nothing.
LEMMA CallKeeps ==
    ASSUME RegistryInv, LockInv, NEW a \in Actors, todo[a] = <<>>, NEW ops, Fits(ops),
           Call(a, ops)
    PROVE  (\A t, g : Kept(t, g)) /\ Steady(a)
  <1>1. /\ todo \in [Actors -> Seq(Below \cup Above)]
        /\ ops \in Seq(Below \cup Above) /\ \A k \in 1 .. Len(ops) : Fit(ops[k])
    BY DEF RegistryInv, Stacks, Fits
  <1>2. todo'[a] = ops /\ \A b \in Actors : b # a => todo'[b] = todo[b]
    BY <1>1 DEF Call
  <1>3. ops # <<>> => Head(ops) = ops[1] /\ 1 \in 1 .. Len(ops)
    <2> DEFINE B == Below \cup Above
    <2>1. ops \in Seq(B)
      BY <1>1
    <2> HIDE DEF B
    <2> QED BY <2>1
  <1>4. \A b \in Actors : b # a =>
            \A n : (Doing(b, n)' <=> Doing(b, n)) /\ Arg(b)' = Arg(b)
    BY <1>2 DEF Doing, Arg
  <1>5. ~Doing(a, "unregister")' /\ ~Doing(a, "unregister")
    <2>1. ops # <<>> => Fit(Head(ops))
      BY <1>1, <1>3
    <2> QED BY <1>2, <2>1 DEF Doing, Fit
  <1>6. ASSUME NEW t, NEW g PROVE Kept(t, g)
    <2> SUFFICES ASSUME Publishes(t, g) PROVE Publishes(t, g)'
      BY DEF Kept
    <2>1. PICK b \in Actors : \E k \in 1 .. Len(todo[b]) : todo[b][k] = Op("publish", <<t, g>>)
      BY DEF Publishes
    <2>2. b # a
      BY <2>1
    <2> QED BY <1>2, <2>1, <2>2 DEF Publishes
  <1>7. \A t : Undone(t)' <=> Undone(t)
    BY <1>4, <1>5 DEF Undone
  <1>8. ASSUME NEW t, Advances(t)', current' # t PROVE Advances(t)
    <2>2. PICK b \in Actors : \E k \in 1 .. Len(todo'[b]) : Advancing(todo'[b][k], t)
      BY <1>8 DEF Advances, Advancing
    <2>3. PICK k \in 1 .. Len(todo'[b]) : Advancing(todo'[b][k], t)
      BY <2>2
    <2>4. CASE b # a
      BY <1>2, <2>3, <2>4 DEF Advances
    <2>5. CASE b = a
      <3>1. Fit(ops[k]) /\ Advancing(ops[k], t)
        BY <1>1, <1>2, <2>3, <2>5
      <3> QED BY <3>1 DEF Fit, Advancing
    <2> QED BY <2>4, <2>5
  <1>9. ASSUME NoPairs, NEW b \in Actors, Doing(b, "allocate")'
        PROVE  Arg(b)'[2] = "single"
    <2>1. CASE b # a
      BY <1>4, <1>9, <2>1 DEF NoPairs
    <2>2. CASE b = a
      <3>1. ops # <<>> /\ Head(ops).op = "allocate" /\ Arg(b)' = Head(ops).arg
        BY <1>2, <1>9, <2>2 DEF Doing, Arg
      <3>2. Fit(Head(ops))
        BY <1>1, <1>3, <3>1
      <3> QED BY <3>1, <3>2 DEF Fit
    <2> QED BY <2>1, <2>2
  <1>10. ASSUME lock' = lock \/ lock = NoActor \/ lock = a PROVE LockInv'
    <2> SUFFICES ASSUME NEW b \in Actors
                 PROVE  /\ Doing(b, "unregister")' => lock' = b
                        /\ \A k \in 2 .. Len(todo'[b]) : todo'[b][k].op # "unregister"
      BY DEF LockInv
    <2>1. CASE b = a
      <3>1. \A k \in 2 .. Len(ops) : k \in 1 .. Len(ops)
        OBVIOUS
      <3>2. \A k \in 2 .. Len(ops) : Fit(ops[k])
        BY <1>1, <3>1
      <3> QED BY <1>2, <1>5, <2>1, <3>2 DEF Fit
    <2>2. CASE b # a
      BY <1>2, <1>4, <1>10, <2>2, MarksAssumption DEF LockInv, MarksAssumption
    <2> QED BY <2>1, <2>2
  <1>11. NoPairs => NoPairs'
    BY <1>9 DEF NoPairs
  <1> QED BY <1>6, <1>7, <1>8, <1>10, <1>11 DEF Steady

\* The stacks stay.
LEMMA StillKeeps ==
    ASSUME todo' = todo, LockInv
    PROVE  /\ \A t, g : Kept(t, g)
           /\ \A t : Undone(t)' <=> Undone(t)
           /\ \A t : Advances(t)' => Advances(t) \/ current' = t
           /\ NoPairs => NoPairs'
           /\ lock' = lock => LockInv'
  BY DEF Kept, Publishes, Undone, Advances, NoPairs, LockInv, Doing, Arg

-----------------------------------------------------------------------------
(* What a step means for one task.                                         *)

\* Nothing about t changes but its state, which leaves the queue or goes to a
\* state of which nothing more is required.
LEMMA CalmTask ==
    ASSUME NEW t \in Tasks, Cold(t), Pushes(t), Ticket(t),
           Undone(t)' <=> Undone(t), Advances(t)' => Advances(t),
           \A g : Kept(t, g), \A g : Entered(t, g) /\ st'[t] = "queued" => Entered(t, g)',
           gen'[t] = gen[t], ticket'[t] = ticket[t], pushed'[t] = pushed[t],
           \/ st'[t] = st[t]
           \/ st'[t] \notin {"queued", "created"} /\ (st'[t] \in Sleepy => st[t] \in Sleepy)
    PROVE  Cold(t)' /\ Pushes(t)' /\ Ticket(t)'
  <1>1. Epoch(t)' = Epoch(t)
    BY DEF Epoch
  <1>2. Unqueued(t)' => Unqueued(t)
    BY DEF Unqueued, Sleepy
  <1>3. Cold(t)'
    BY DEF Cold
  <1>4. Pushes(t)'
    BY <1>1, <1>2 DEF Pushes
  <1>5. ASSUME st'[t] = "queued" PROVE st[t] = "queued"
    BY <1>5
  <1>6. PICK e : e = Epoch(t) /\ e = Epoch(t)'
    BY <1>1
  <1>7. ASSUME st'[t] = "queued"
        PROVE  /\ ticket'[t].gen = e /\ (ticket'[t].pub => Entered(t, e)')
               /\ ~ticket'[t].pub => Publishes(t, e)'
    <2>1. ticket[t].gen = e /\ (ticket[t].pub => Entered(t, e))
          /\ (~ticket[t].pub => Publishes(t, e))
      BY <1>5, <1>6, <1>7 DEF Ticket
    <2> QED BY <1>7, <2>1 DEF Kept
  <1>8. Ticket(t)'
    BY <1>6, <1>7 DEF Ticket, Entered, Publishes
  <1> QED BY <1>3, <1>4, <1>8

\* The suspension of t ends: it is queued with a ticket, and the actor that
\* claimed it is about to publish (toka_task_claim_queue_ticket).
LEMMA ClaimedTask ==
    ASSUME NEW t \in Tasks, NEW e, e = gen[t], Pushes(t), ~Undone(t), ~Undone(t)',
           st[t] \in Sleepy, st'[t] = "queued", gen'[t] = e,
           ticket'[t] = PreparedTicket(e), pushed'[t] = pushed[t], Publishes(t, e)'
    PROVE  Cold(t)' /\ Pushes(t)' /\ Ticket(t)'
  <1>1. Epoch(t)' = e /\ Epoch(t) = e
    BY DEF Epoch
  <1>2. ticket'[t].gen = e /\ ticket'[t].pub = FALSE
    BY DEF PreparedTicket
  <1>3. Cold(t)'
    BY DEF Cold
  <1>4. Pushes(t)'
    BY <1>1 DEF Pushes, Unqueued
  <1>5. Ticket(t)'
    BY <1>1, <1>2 DEF Ticket, Publishes
  <1> QED BY <1>3, <1>4, <1>5

-----------------------------------------------------------------------------
(* Steps that queue nothing.                                               *)

\* The state of a task stays, or leaves nothing to require of its ticket.
Settles ==
    \A t \in Tasks :
        \/ st'[t] = st[t]
        \/ st'[t] \notin {"queued", "created"} /\ (st'[t] \in Sleepy => st[t] \in Sleepy)

\* A step of actor a that queues nothing.
LEMMA CalmStep ==
    ASSUME TicketInv, NEW a \in Actors, \A t, g : Kept(t, g), Steady(a),
           lock' = lock \/ lock = NoActor \/ lock = a,
           current' = current \/ current' = NoTask, NoSets', Settles,
           gen' = gen, ticket' = ticket, queue' = queue, pushed' = pushed
    PROVE  TicketInv'
  <1>1. /\ NoPairs' /\ LockInv' /\ \A t : Undone(t)' <=> Undone(t)
        /\ \A t : Advances(t)' => Advances(t) \/ current' = t
    BY DEF Steady, TicketInv
  <1>2. \A t \in Tasks : current' = t => current = t
    BY MarksAssumption DEF MarksAssumption
  <1>3. ASSUME NEW t \in Tasks PROVE Cold(t)' /\ Pushes(t)' /\ Ticket(t)'
    <2>1. Advances(t)' => Advances(t)
      BY <1>1, <1>2 DEF Advances
    <2>2. \A g : Entered(t, g) => Entered(t, g)'
      BY DEF Entered
    <2>3. Cold(t) /\ Pushes(t) /\ Ticket(t)
      BY DEF TicketInv
    <2>4. \/ st'[t] = st[t]
          \/ st'[t] \notin {"queued", "created"} /\ (st'[t] \in Sleepy => st[t] \in Sleepy)
      BY DEF Settles
    <2> QED BY <1>1, <2>1, <2>2, <2>3, <2>4, CalmTask
  <1>4. TicketTypes'
    BY DEF TicketInv, TicketTypes
  <1> QED BY <1>1, <1>3, <1>4 DEF TicketInv

\* An operation that is neither a publication nor the end of a registration is
\* replaced by operations that fit.
LEMMA CalmMove ==
    ASSUME RegistryInv, TicketInv, NEW a \in Actors, NEW name, Doing(a, name),
           name \notin {"publish", "unregister"}, NEW ops, Fits(ops), Continue(a, ops),
           lock' = lock \/ lock = NoActor \/ lock = a,
           current' = current \/ current' = NoTask, NoSets', Settles,
           gen' = gen, ticket' = ticket, queue' = queue, pushed' = pushed
    PROVE  TicketInv'
  <1>1. (\A t, g : Kept(t, g)) /\ Steady(a)
    BY MoveKeeps DEF TicketInv
  <1> QED BY <1>1, CalmStep

\* A call queues nothing.
LEMMA CalmCall ==
    ASSUME RegistryInv, TicketInv, NEW a \in Actors, todo[a] = <<>>, NEW ops, Fits(ops),
           Call(a, ops), lock' = lock, current' = current, NoSets', st' = st,
           gen' = gen, ticket' = ticket, queue' = queue, pushed' = pushed
    PROVE  TicketInv'
  <1>1. (\A t, g : Kept(t, g)) /\ Steady(a)
    BY CallKeeps DEF TicketInv
  <1>2. Settles
    BY DEF Settles
  <1> QED BY <1>1, <1>2, CalmStep

\* There is no winner to help.
LEMMA NoHelp ==
    ASSUME RegistryInv, NoSets
    PROVE  /\ \A t \in Tasks : PendingSet(t) = NoSet
           /\ \A a \in Actors : ~Doing(a, "helpCommit")
           /\ \A s \in Slots : slot[s].inUse => slot[s].active
  <1>1. /\ wait \in [Tasks -> WaitRec]
        /\ \A s \in Slots : slot[s].inUse => slot[s].active
    BY DEF RegistryInv, Types, SlotInv, NoSets
  <1>2. ASSUME NEW t \in Tasks PROVE PendingSet(t) = NoSet
    <2>1. wait[t].slot # NoSlot => wait[t].slot \in Slots
      BY <1>1, Finite DEF WaitRec, Slots, NoSlot
    <2> QED BY <2>1 DEF PendingSet, NoSets
  <1>3. ASSUME NEW a \in Actors, Doing(a, "helpCommit") PROVE FALSE
    <2>1. PICK i \in Sets : Arg(a) = <<i>>
      BY <1>3, ArgTop DEF RegistryInv
    <2>2. a \in Helpers(i)
      BY <1>3, <2>1 DEF Helpers
    <2> QED BY <2>2 DEF RegistryInv, SetInv, NoSets
  <1> QED BY <1>1, <1>2, <1>3

\* The loops of the scheduler go on, and the operations of a cancellation.
LEMMA CalmLoops ==
    ASSUME RegistryInv, TicketInv, NEW a \in Actors,
           \/ CommitSuspend(a) \/ AbortSuspend(a) \/ ScheduleLoop(a) \/ CancelActive(a)
           \/ ClearCurrent(a) \/ AbortState(a) \/ TrySchedule(a) \/ RequestCancel(a)
           \/ CancelLoad(a)
    PROVE  TicketInv'
  <1>0. /\ Stacks /\ NoSets /\ gen \in [Tasks -> Int] /\ st \in [Tasks -> TaskStates]
        /\ \A t \in Tasks : PendingSet(t) = NoSet
    BY NoHelp DEF RegistryInv, Types, TicketInv
  <1>s. st' = st => Settles
    BY DEF Settles
  <1>n. set' = set /\ slot' = slot /\ wait' = wait => NoSets'
    BY <1>0 DEF NoSets
  <1>f. \A o \in Below : o.op \notin {"register", "unregister"} => Fits(<<o>>)
    BY PlainFit, ShortFits
  <1>h. \A t \in Tasks : \A again, next :
           HelpOr(a, t, again, next) => Continue(a, next) /\ set' = set
    BY <1>0 DEF HelpOr
  <1>1. CASE CommitSuspend(a)
    <2>1. Doing(a, "commit") /\ "commit" \in OfTask
      BY <1>1 DEF CommitSuspend, OfTask
    <2>2. PICK t \in Tasks : Arg(a) = <<t>>
      BY <1>0, <2>1, ArgTask
    <2>3. PICK o : o = Op("commitState", <<t>>)
      OBVIOUS
    <2>4. Fits(<<o>>)
      BY <1>f, <2>3, MadeOps DEF OfTask, Op
    <2>5. Continue(a, <<o>>) /\ set' = set
      BY <1>1, <1>h, <2>2, <2>3 DEF CommitSuspend
    <2>6. UNCHANGED <<tcb, ready, host, wait, slot, lock, fatal>>
      BY <1>1 DEF CommitSuspend
    <2> QED BY <1>s, <1>n, <2>1, <2>4, <2>5, <2>6, CalmMove DEF tcb, ready, host
  <1>2. CASE AbortSuspend(a)
    <2>1. Doing(a, "abort") /\ "abort" \in OfTask
      BY <1>2 DEF AbortSuspend, OfTask
    <2>2. PICK t \in Tasks : Arg(a) = <<t>>
      BY <1>0, <2>1, ArgTask
    <2>3. PICK o : o = Op("abortState", <<t>>)
      OBVIOUS
    <2>4. Fits(<<o>>)
      BY <1>f, <2>3, MadeOps DEF OfTask, Op
    <2>5. Continue(a, <<o>>) /\ set' = set
      BY <1>2, <1>h, <2>2, <2>3 DEF AbortSuspend
    <2>6. UNCHANGED <<tcb, ready, host, wait, slot, lock, fatal>>
      BY <1>2 DEF AbortSuspend
    <2> QED BY <1>s, <1>n, <2>1, <2>4, <2>5, <2>6, CalmMove DEF tcb, ready, host
  <1>3. CASE ScheduleLoop(a)
    <2>1. Doing(a, "scheduleLoop") /\ "scheduleLoop" \in OfEpoch
      BY <1>3 DEF ScheduleLoop, OfEpoch
    <2>2. PICK t \in Tasks, g \in Int : Arg(a) = <<t, g>>
      BY <1>0, <2>1, ArgEpoch
    <2>3. PICK o : o = Op("scheduleState", <<t, g>>)
      OBVIOUS
    <2>4. Fits(<<o>>)
      BY <1>f, <2>3, MadeOps DEF OfEpoch, Op
    <2>5. Continue(a, <<o>>) /\ set' = set
      BY <1>3, <1>h, <2>2, <2>3 DEF ScheduleLoop
    <2>6. UNCHANGED <<tcb, ready, host, wait, slot, lock, fatal>>
      BY <1>3 DEF ScheduleLoop
    <2> QED BY <1>s, <1>n, <2>1, <2>4, <2>5, <2>6, CalmMove DEF tcb, ready, host
  <1>4. CASE CancelActive(a)
    <2>1. Doing(a, "cancelActive") /\ "cancelActive" \in OfTask
      BY <1>4 DEF CancelActive, OfTask
    <2>2. PICK t \in Tasks : Arg(a) = <<t>>
      BY <1>0, <2>1, ArgTask
    <2>3. PICK o : o = Op("cancelWait", <<t>>)
      OBVIOUS
    <2>4. Fits(<<o>>)
      BY <1>f, <2>3, MadeOps DEF OfTask, Op
    <2>5. Continue(a, <<o>>) /\ set' = set
      BY <1>4, <1>h, <2>2, <2>3 DEF CancelActive
    <2>6. UNCHANGED <<tcb, ready, host, wait, slot, lock, fatal>>
      BY <1>4 DEF CancelActive
    <2> QED BY <1>s, <1>n, <2>1, <2>4, <2>5, <2>6, CalmMove DEF tcb, ready, host
  <1>5. CASE ClearCurrent(a)
    <2>1. Doing(a, "clearCurrent") /\ Continue(a, <<>>) /\ current' = NoTask
      BY <1>5 DEF ClearCurrent
    <2>2. UNCHANGED <<tcb, registry, ready, lock>>
      BY <1>5 DEF ClearCurrent
    <2> QED BY <1>s, <1>n, <2>1, <2>2, ShortFits, CalmMove DEF tcb, registry, ready
  <1>6. CASE AbortState(a)
    <2>1. Doing(a, "abortState") /\ "abortState" \in OfTask
      BY <1>6 DEF AbortState, OfTask
    <2>2. PICK t \in Tasks : Arg(a) = <<t>>
      BY <1>0, <2>1, ArgTask
    <2>3. PICK o, p : o = Op("cancelActive", <<t>>) /\ p = Op("abortCas", <<t, st[t]>>)
      OBVIOUS
    <2>4. o \in Below /\ p \in Below /\ o.op = "cancelActive" /\ p.op = "abortCas"
      BY <1>0, <2>3, MadeOps DEF OfTask, Op
    <2>5. Fits(<<o, p>>)
      BY <2>4, PlainFit, ShortFits
    <2>6. Continue(a, <<>>) \/ Continue(a, <<o, p>>)
      BY <1>6, <2>2, <2>3 DEF AbortState
    <2>7. UNCHANGED <<tcb, registry, ready, host, lock>>
      BY <1>6 DEF AbortState
    <2> QED BY <1>s, <1>n, <2>1, <2>5, <2>6, <2>7, ShortFits, CalmMove DEF tcb, registry, ready, host
  <1>7. CASE TrySchedule(a)
    <2>1. Doing(a, "schedule") /\ "schedule" \in OfEpoch
      BY <1>7 DEF TrySchedule, OfEpoch
    <2>2. PICK t \in Tasks, g \in Int : Arg(a) = <<t, g>>
      BY <1>0, <2>1, ArgEpoch
    <2>3. PICK o : o = Op("scheduleLoop", <<t, g>>)
      OBVIOUS
    <2>4. Fits(<<o>>)
      BY <1>f, <2>3, MadeOps DEF OfEpoch, Op
    <2>5. Continue(a, <<>>) \/ Continue(a, <<o>>)
      BY <1>7, <2>2, <2>3 DEF TrySchedule
    <2>6. UNCHANGED <<tcb, registry, ready, host, lock>>
      BY <1>7 DEF TrySchedule
    <2> QED BY <1>s, <1>n, <2>1, <2>4, <2>5, <2>6, ShortFits, CalmMove DEF tcb, registry, ready, host
  <1>8. CASE RequestCancel(a)
    <2>1. Doing(a, "cancel") /\ "cancel" \in OfTask
      BY <1>8 DEF RequestCancel, OfTask
    <2>2. PICK t \in Tasks : Arg(a) = <<t>>
      BY <1>0, <2>1, ArgTask
    <2>3. PICK o : o = Op("cancelArbiter", <<t>>)
      OBVIOUS
    <2>4. Fits(<<o>>)
      BY <1>f, <2>3, MadeOps DEF OfTask, Op
    <2>5. Continue(a, <<o>>)
      BY <1>8, <2>2, <2>3 DEF RequestCancel
    <2>6. UNCHANGED <<registry, ready, host, st, gen, ticket, lock>>
      BY <1>8 DEF RequestCancel
    <2> QED BY <1>s, <1>n, <2>1, <2>4, <2>5, <2>6, CalmMove DEF registry, ready, host
  <1>9. CASE CancelLoad(a)
    <2>1. Doing(a, "cancelLoad") /\ "cancelLoad" \in OfTask
      BY <1>9 DEF CancelLoad, OfTask
    <2>2. PICK t \in Tasks : Arg(a) = <<t>>
      BY <1>0, <2>1, ArgTask
    <2>3. PICK o : o = Op("cancelClaim", <<t, gen[t]>>)
      OBVIOUS
    <2>4. Fits(<<o>>)
      BY <1>0, <1>f, <2>3, MadeOps DEF OfEpoch, Op
    <2>5. Continue(a, <<o>>)
      BY <1>9, <2>2, <2>3 DEF CancelLoad
    <2>6. UNCHANGED <<tcb, registry, ready, host, lock>>
      BY <1>9 DEF CancelLoad
    <2> QED BY <1>s, <1>n, <2>1, <2>4, <2>5, <2>6, CalmMove DEF tcb, registry, ready, host
  <1> QED BY <1>1, <1>2, <1>3, <1>4, <1>5, <1>6, <1>7, <1>8, <1>9

\* A single wait ends: its slot is recycled and the link of its task cleared.
LEMMA SlotGone ==
    ASSUME RegistryInv, NoSets, NEW s \in Slots, NEW t \in Tasks, set' = set,
           slot' = [slot EXCEPT ![s] = Recycled(@)],
           wait' = [wait EXCEPT ![t].slot = NoSlot, ![t].gen = 0]
    PROVE  NoSets'
  <1>1. slot \in [Slots -> SlotRec] /\ wait \in [Tasks -> WaitRec] /\ wait[t] \in WaitRec
    BY DEF RegistryInv, Types
  <1>2. PICK r : r = Recycled(slot[s])
    OBVIOUS
  <1>3. r.set = NoSet
    BY <1>2 DEF Recycled, FreeSlot
  <1>4. slot' = [slot EXCEPT ![s] = r]
    BY <1>2
  <1>5. \A x \in Slots : slot'[x].set = NoSet
    BY <1>1, <1>3, <1>4 DEF NoSets
  <1>6. \A u \in Tasks : wait'[u].set = wait[u].set
    BY <1>1 DEF WaitRec
  <1> QED BY <1>5, <1>6 DEF NoSets

\* Waking, releasing and asking for the winner, where nothing is grouped.
LEMMA CalmTokens ==
    ASSUME RegistryInv, TicketInv, NEW a \in Actors,
           HelpCommit(a) \/ TryWake(a) \/ Release(a) \/ IsWinner(a)
    PROVE  TicketInv'
  <1>0. /\ Stacks /\ NoSets /\ slot \in [Slots -> SlotRec] /\ SlotInv
        /\ \A s \in Slots : slot[s].inUse => slot[s].active
        /\ ~Doing(a, "helpCommit") /\ \A s \in Slots : slot[s].set = NoSet
    BY NoHelp DEF RegistryInv, Types, TicketInv, NoSets
  <1>s. st' = st => Settles
    BY DEF Settles
  <1>n. set' = set /\ slot' = slot /\ wait' = wait => NoSets'
    BY <1>0 DEF NoSets
  <1>1. CASE HelpCommit(a)
    BY <1>0, <1>1 DEF HelpCommit
  <1>2. CASE IsWinner(a)
    <2>1. Doing(a, "isWinner")
      BY <1>2 DEF IsWinner
    <2>2. PICK s \in Slots, g \in Nat : Arg(a) = <<s, g>>
      BY <1>0, <2>1, ArgToken
    <2>3. Arg(a)[1] = s /\ slot[s].set = NoSet
      BY <1>0, <2>2
    <2>4. Continue(a, <<>>) /\ set' = set
      BY <1>2, <2>3 DEF IsWinner
    <2>5. UNCHANGED <<tcb, ready, host, wait, slot, lock, fatal>>
      BY <1>2 DEF IsWinner
    <2> QED BY <1>s, <1>n, <2>1, <2>4, <2>5, ShortFits, CalmMove DEF tcb, ready, host
  <1>3. CASE TryWake(a)
    <2>1. Doing(a, "wake")
      BY <1>3 DEF TryWake
    <2>2. PICK s \in Slots, g \in Nat, m \in {"release", "keep"} : Arg(a) = <<s, g, m>>
      BY <1>0, <2>1, ArgWake
    <2>3. Arg(a)[1] = s /\ Arg(a)[2] = g
      BY <2>2
    <2>4. UNCHANGED <<tcb, ready, host, lock>>
      BY <1>3 DEF TryWake
    <2>5. CASE ~Names(s, g)
      <3>1. Continue(a, <<>>) /\ slot' = slot /\ set' = set /\ wait' = wait
        BY <1>3, <2>3, <2>5 DEF TryWake
      <3> QED BY <1>s, <1>n, <2>1, <2>4, <3>1, ShortFits, CalmMove DEF tcb, ready, host
    <2>6. CASE Names(s, g)
      <3>1. slot[s].inUse /\ slot[s].active /\ slot[s].set = NoSet
        BY <1>0, <2>6 DEF Names
      <3>2. PICK t : t = slot[s].task
        OBVIOUS
      <3>3. t \in Tasks /\ slot[s].epoch \in Int
        BY <1>0, <3>1, <3>2 DEF SlotInv, SlotRec
      <3>4. /\ slot' = [slot EXCEPT ![Arg(a)[1]] = Recycled(@)] /\ set' = set
            /\ wait' = [wait EXCEPT ![slot[Arg(a)[1]].task].slot = NoSlot,
                                    ![slot[Arg(a)[1]].task].gen = 0]
            /\ Continue(a, <<Op("schedule", <<slot[Arg(a)[1]].task, slot[Arg(a)[1]].epoch>>)>>)
        <4>1. Names(Arg(a)[1], Arg(a)[2]) /\ slot[Arg(a)[1]].active
                /\ slot[Arg(a)[1]].set = NoSet
          BY <2>3, <2>6, <3>1, Zenon
        <4> QED BY <1>3, <4>1, Zenon DEF TryWake
      <3>5. /\ slot' = [slot EXCEPT ![s] = Recycled(@)] /\ set' = set
            /\ wait' = [wait EXCEPT ![t].slot = NoSlot, ![t].gen = 0]
            /\ Continue(a, <<Op("schedule", <<t, slot[s].epoch>>)>>)
        BY <2>3, <3>2, <3>4, Zenon
      <3>6. PICK o : o = Op("schedule", <<t, slot[s].epoch>>)
        OBVIOUS
      <3>7. Fits(<<o>>)
        BY <3>3, <3>6, MadeOps, PlainFit, ShortFits DEF OfEpoch, Op
      <3>8. NoSets'
        BY <1>0, <3>3, <3>5, SlotGone
      <3> QED BY <1>s, <2>1, <2>4, <3>5, <3>6, <3>7, <3>8, CalmMove DEF tcb, ready, host
    <2> QED BY <2>5, <2>6
  <1>4. CASE Release(a)
    <2>1. Doing(a, "release")
      BY <1>4 DEF Release
    <2>2. PICK s \in Slots, g \in Nat : Arg(a) = <<s, g>>
      BY <1>0, <2>1, ArgToken
    <2>3. Arg(a)[1] = s /\ Arg(a)[2] = g /\ slot[s].set = NoSet
      BY <1>0, <2>2
    <2>4. UNCHANGED <<ready, host, gen, cancel>>
      BY <1>4 DEF Release
    <2>5. CASE ~Names(s, g)
      <3>1. /\ Continue(a, <<>>) /\ slot' = slot /\ set' = set /\ wait' = wait
            /\ st' = st /\ ticket' = ticket /\ lock' = lock
        BY <1>4, <2>3, <2>5 DEF Release
      <3> QED BY <1>s, <1>n, <2>1, <2>4, <3>1, ShortFits, CalmMove DEF ready, host
    <2>6. CASE Names(s, g)
      <3>2. PICK t : t = slot[s].task
        OBVIOUS
      <3>3. t \in Tasks
        BY <1>0, <2>6, <3>2 DEF SlotInv, Names
      <3>4. /\ slot' = [slot EXCEPT ![Arg(a)[1]] = Recycled(@)] /\ set' = set
            /\ wait' = [wait EXCEPT ![slot[Arg(a)[1]].task].slot = NoSlot,
                                    ![slot[Arg(a)[1]].task].gen = 0]
            /\ Continue(a, <<>>) /\ st' = st /\ ticket' = ticket /\ lock' = lock
        <4>1. Names(Arg(a)[1], Arg(a)[2]) /\ slot[Arg(a)[1]].set = NoSet
          BY <2>3, <2>6, Zenon
        <4> QED BY <1>4, <4>1, Zenon DEF Release
      <3>5. /\ slot' = [slot EXCEPT ![s] = Recycled(@)] /\ set' = set
            /\ wait' = [wait EXCEPT ![t].slot = NoSlot, ![t].gen = 0]
        BY <2>3, <3>2, <3>4, Zenon
      <3>8. NoSets'
        BY <1>0, <3>3, <3>5, SlotGone
      <3> QED BY <1>s, <2>1, <2>4, <3>4, <3>8, ShortFits, CalmMove DEF ready, host
    <2> QED BY <2>5, <2>6
  <1> QED BY <1>1, <1>2, <1>3, <1>4

\* Tearing a wait down, and the arbiter of a cancellation.
LEMMA CalmCancels ==
    ASSUME RegistryInv, TicketInv, NEW a \in Actors,
           CancelWait(a) \/ CancelArbiter(a) \/ ReapTerminalOutcomes(a)
    PROVE  TicketInv'
  <1>0. /\ Stacks /\ NoSets /\ slot \in [Slots -> SlotRec] /\ set \in [Sets -> SetRec]
        /\ \A s \in Slots : slot[s].set = NoSet
    BY DEF RegistryInv, Types, TicketInv, NoSets
  <1>s. st' = st => Settles
    BY DEF Settles
  <1>n. set' = set /\ slot' = slot /\ wait' = wait => NoSets'
    BY <1>0 DEF NoSets
  <1>1. CASE CancelWait(a)
    <2>1. Doing(a, "cancelWait") /\ "cancelWait" \in OfTask
      BY <1>1 DEF CancelWait, OfTask
    <2>2. PICK t \in Tasks : Arg(a) = <<t>>
      BY <1>0, <2>1, ArgTask
    <2>3. PICK s, g : s = wait[t].slot /\ g = wait[t].gen
      OBVIOUS
    <2>4. (s # NoSlot => s \in Slots) /\ g \in Nat /\ Arg(a)[1] = t
      BY <2>2, <2>3, LinkedSlot
    <2>5. s # NoSlot => slot[s].set = NoSet
      BY <1>0, <2>4
    <2>6. PICK o : o = Op("release", <<s, g>>)
      OBVIOUS
    <2>7. /\ slot' = slot /\ set' = set /\ wait' = wait /\ ticket' = ticket /\ st' = st
          /\ Continue(a, IF s # NoSlot /\ Names(s, g) /\ slot[s].active
                           THEN <<o>> ELSE <<>>)
      BY <1>1, <2>3, <2>4, <2>5, <2>6 DEF CancelWait
    <2>8. s \in Slots => Fits(<<o>>)
      BY <2>4, <2>6, MadeOps, PlainFit, ShortFits DEF Op
    <2>9. PICK ops : Fits(ops) /\ Continue(a, ops)
      BY <2>4, <2>7, <2>8, ShortFits
    <2>10. UNCHANGED <<ready, host, gen, cancel, lock>>
      BY <1>1 DEF CancelWait
    <2> QED BY <1>s, <1>n, <2>1, <2>7, <2>9, <2>10, CalmMove DEF ready, host
  <1>2. CASE CancelArbiter(a)
    <2>1. Doing(a, "cancelArbiter") /\ "cancelArbiter" \in OfTask
      BY <1>2 DEF CancelArbiter, OfTask
    <2>2. PICK t \in Tasks : Arg(a) = <<t>>
      BY <1>0, <2>1, ArgTask
    <2>3. PICK s, g : s = wait[t].slot /\ g = wait[t].gen
      OBVIOUS
    <2>4. (s # NoSlot => s \in Slots) /\ g \in Nat /\ Arg(a)[1] = t
      BY <2>2, <2>3, LinkedSlot
    <2>5. s # NoSlot => slot[s].set = NoSet
      BY <1>0, <2>4
    <2>6. PICK o : o = Op("pendWake", <<t>>)
      OBVIOUS
    <2>7. /\ slot' = slot /\ set' = set /\ wait' = wait /\ ticket' = ticket /\ st' = st
          /\ \/ lock' = a /\ Continue(a, <<o>>)
             \/ lock' = lock /\ Continue(a, CancelUngrouped(t))
      BY <1>2, <2>3, <2>4, <2>5, <2>6 DEF CancelArbiter
    <2>8. Fits(<<o>>)
      BY <2>6, MadeOps, PlainFit, ShortFits DEF OfTask, Op
    <2>9. Fits(CancelUngrouped(t))
      <3>1. PICK x, y, z : /\ x = Op("coldCancel", <<t>>) /\ y = Op("cancelLoad", <<t>>)
                           /\ z = Op("wake", <<s, g, "keep">>)
        OBVIOUS
      <3>2. Fits(<<x>>) /\ Fits(<<y>>)
        BY <3>1, MadeOps, PlainFit, ShortFits DEF OfTask, Op
      <3>3. s # NoSlot => Fits(<<z>>)
        BY <2>4, <3>1, MadeOps, PlainFit, ShortFits DEF Op
      <3>4. CancelUngrouped(t) \in {<<>>, <<x>>, <<y>>}
              \/ (s # NoSlot /\ CancelUngrouped(t) = <<z>>)
        BY <2>3, <3>1 DEF CancelUngrouped
      <3> QED BY <3>2, <3>3, <3>4, ShortFits
    <2>10. UNCHANGED <<ready, host, gen, cancel>> /\ lock = NoActor
      BY <1>2 DEF CancelArbiter, Free
    <2>11. PICK ops : Fits(ops) /\ Continue(a, ops)
      BY <2>7, <2>8, <2>9
    <2> QED BY <1>s, <1>n, <2>1, <2>7, <2>10, <2>11, CalmMove DEF ready, host
  <1>3. CASE ReapTerminalOutcomes(a)
    <2>1. Doing(a, "reap") /\ Continue(a, <<>>) /\ UNCHANGED <<tcb, ready, host, wait, lock>>
      BY <1>3 DEF ReapTerminalOutcomes
    <2>2. Unread(Arg(a)[1]) = {}
      BY <1>0 DEF Unread
    <2>3. \A s \in Slots : slot'[s] = slot[s]
      BY <1>3, <2>2 DEF ReapTerminalOutcomes
    <2>4. \A i \in Sets : set'[i] = set[i]
      <3>1. set' = [i \in Sets |-> IF {s \in {} : slot[s].set = i} = {} THEN set[i]
                      ELSE Dropped(set[i], Cardinality({s \in {} : slot[s].set = i}))]
        BY <1>3, <2>2 DEF ReapTerminalOutcomes
      <3> QED BY <3>1
    <2>5. NoSets'
      BY <1>0, <2>1, <2>3, <2>4 DEF NoSets
    <2> QED BY <1>s, <2>1, <2>5, ShortFits, CalmMove DEF tcb, ready, host
  <1> QED BY <1>1, <1>2, <1>3

\* toka_wait_registry_register: the task that registers goes on to commit its
\* suspension, or gives its token back.
LEMMA CalmAllocate ==
    ASSUME RegistryInv, TicketInv, NEW a \in Actors, Allocate(a) PROVE TicketInv'
  <1>0. /\ Stacks /\ NoSets /\ NoPairs /\ slot \in [Slots -> SlotRec]
        /\ wait \in [Tasks -> WaitRec] /\ todo \in [Actors -> Seq(Below \cup Above)]
    BY DEF RegistryInv, Types, TicketInv, Stacks
  <1>1. Doing(a, "allocate")
    BY DEF Allocate
  <1>2. PICK t \in Tasks, kind \in {"single", "pair"} : Arg(a) = <<t, kind>>
    BY <1>0, <1>1, ArgTop
  <1>3. Arg(a)[1] = t /\ kind = "single"
    BY <1>0, <1>1, <1>2 DEF NoPairs
  <1>4. UNCHANGED <<tcb, ready, lock, current, fatal, calls>>
    BY DEF Allocate
  <1>5. Settles
    BY <1>4 DEF Settles, tcb
  <1>6. PICK x, y, z, w : /\ x = Op("commit", <<t>>) /\ y = Op("register", <<t>>)
                          /\ z = Op("clearCurrent", <<t>>) /\ w = Op("abort", <<t>>)
    OBVIOUS
  <1>7. Advances(t)
    <2>1. PICK q : q = todo[a]
      OBVIOUS
    <2>2. Head(q).op = "allocate" /\ Head(q).arg[1] = t /\ q # <<>>
      BY <1>1, <1>3, <2>1 DEF Doing, Arg
    <2>3. q \in Seq(Below \cup Above)
      BY <1>0, <2>1
    <2>4. 1 \in 1 .. Len(q) /\ Head(q) = q[1]
      <3> DEFINE B == Below \cup Above
      <3>1. q \in Seq(B)
        BY <2>3
      <3> HIDE DEF B
      <3> QED BY <2>2, <3>1
    <2> QED BY <2>1, <2>2, <2>4 DEF Advances, Advancing
  <1>8. Fit(x) /\ Fit(y) /\ Fit(z) /\ Fit(w)
    <2>1. x \in Below /\ y \in Below /\ z \in Below /\ w \in Below
      BY <1>6, MadeOps DEF OfTask
    <2>2. x.op = "commit" /\ y.op = "register" /\ z.op = "clearCurrent" /\ w.op = "abort"
          /\ y.arg[1] = t
      BY <1>6 DEF Op
    <2>3. Fit(y)
      BY <1>7, <2>1, <2>2 DEF Fit
    <2> QED BY <2>1, <2>2, <2>3, PlainFit
  <1>9. CASE ~CanInstall(t)
    <2>1. Continue(a, <<w>>) /\ slot' = slot /\ set' = set /\ wait' = wait
      BY <1>3, <1>6, <1>9 DEF Allocate
    <2>2. NoSets'
      BY <1>0, <2>1 DEF NoSets
    <2> QED BY <1>1, <1>4, <1>5, <1>8, <2>1, <2>2, ShortFits, CalmMove DEF tcb, ready
  <1>10. CASE AllocateSingle(a, t)
    <2>1. PICK s : s = Min(Lowest(1))
      OBVIOUS
    <2>2. PICK g : g = slot[s].gen
      OBVIOUS
    <2>3. /\ slot' = [slot EXCEPT ![s] = Installed(t, NoSet, s)]
          /\ wait' = [wait EXCEPT ![t] = [slot |-> s, gen |-> g, set |-> NoSet]]
          /\ ArmedOrRolledBack(a, t, <<<<s, g>>>>) /\ set' = set
      BY <1>10, <2>1, <2>2 DEF AllocateSingle
    <2>4. s \in Slots /\ g \in Nat
      <3>1. Cardinality(Available) >= 1
        BY <1>1, <1>2, <1>3 DEF RegistryInv, AllocInv, SlotsFor
      <3>2. Lowest(1) \subseteq Available /\ Cardinality(Lowest(1)) = 1
        BY <3>1, LowestIs
      <3>3. Lowest(1) # {} /\ Lowest(1) \subseteq Slots /\ Lowest(1) \subseteq Nat
        <4>1. Lowest(1) # {}
          BY <3>2, FS_EmptySet
        <4>2. Available \subseteq Slots /\ Slots \subseteq Nat
          BY Finite DEF Available
        <4> QED BY <3>2, <4>1, <4>2
      <3>4. s \in Slots
        BY <2>1, <3>3, MinIn
      <3> QED BY <2>2, <3>4, TokenOf
    <2>5. NoSets'
      <3>1. slot[s] \in SlotRec
        BY <1>0, <2>4
      <3>2. Installed(t, NoSet, s).set = NoSet
        BY <3>1 DEF Installed, SlotRec
      <3>3. PICK r : r = Installed(t, NoSet, s)
        OBVIOUS
      <3>4. PICK v : v = [slot |-> s, gen |-> g, set |-> NoSet]
        OBVIOUS
      <3>5. r.set = NoSet /\ v.set = NoSet
        BY <3>2, <3>3, <3>4
      <3>6. slot' = [slot EXCEPT ![s] = r] /\ wait' = [wait EXCEPT ![t] = v]
        BY <2>3, <3>3, <3>4
      <3>7. \A p \in Slots : slot'[p].set = NoSet
        BY <1>0, <3>5, <3>6 DEF NoSets
      <3>8. \A u \in Tasks : wait'[u].set = NoSet
        BY <1>0, <3>5, <3>6 DEF NoSets
      <3> QED BY <1>0, <2>3, <3>7, <3>8 DEF NoSets
    <2>6. PICK f : f = Op("release", <<s, g>>)
      OBVIOUS
    <2>7. Fit(f)
      BY <2>4, <2>6, MadeOps, PlainFit DEF Op
    <2>8. Continue(a, <<x, y, z>>) \/ Continue(a, <<f, w>>)
      <3>1. PICK back : back = [k \in 1 .. Len(<<<<s, g>>>>) |-> Op("release", <<<<s, g>>>>[k])]
        OBVIOUS
      <3>2. back = <<f>>
        BY <2>6, <3>1
      <3>3. <<f>> \o <<w>> = <<f, w>>
        <4>1. PICK S : S = {f, w}
          OBVIOUS
        <4>2. f \in S /\ w \in S
          BY <4>1
        <4>3. PICK u, v : u = <<f>> /\ v = <<w>>
          OBVIOUS
        <4>4. u \in Seq(S) /\ v \in Seq(S) /\ Len(u) = 1 /\ Len(v) = 1 /\ u[1] = f /\ v[1] = w
          BY <4>2, <4>3
        <4>5. PICK r, h : r = u \o v /\ h = <<f, w>>
          OBVIOUS
        <4>6. /\ r \in Seq(S) /\ Len(r) = Len(u) + Len(v)
              /\ \A i \in 1 .. Len(u) + Len(v) : r[i] = IF i <= Len(u) THEN u[i] ELSE v[i - Len(u)]
          BY <4>4, <4>5, ConcatProperties
        <4>7. Len(r) = 2 /\ r[1] = f /\ r[2] = w
          BY <4>4, <4>6
        <4>8. h \in Seq(S) /\ Len(h) = 2 /\ h[1] = f /\ h[2] = w
          BY <4>2, <4>5
        <4>9. \A i \in 1 .. Len(r) : r[i] = h[i]
          BY <4>7, <4>8
        <4>10. r = h
          BY <4>6, <4>7, <4>8, <4>9, SeqEqual
        <4> QED BY <4>3, <4>5, <4>10
      <3>4. Continue(a, <<x, y, z>>) \/ Continue(a, back \o <<w>>)
        BY <1>6, <2>3, <3>1 DEF ArmedOrRolledBack
      <3> QED BY <3>2, <3>3, <3>4
    <2>9. PICK ops : Fits(ops) /\ Continue(a, ops)
      BY <1>8, <2>7, <2>8, ShortFits
    <2> QED BY <1>1, <1>4, <1>5, <2>5, <2>9, CalmMove DEF tcb, ready
  <1> QED BY <1>2, <1>3, <1>9, <1>10 DEF Allocate

\* The state of one task is stored.
LEMMA StoredState ==
    ASSUME RegistryInv, NEW t \in Tasks, NEW v, st' = [st EXCEPT ![t] = v],
           v \notin {"queued", "created"}, v \in Sleepy => st[t] \in Sleepy
    PROVE  Settles
  <1>1. st \in [Tasks -> TaskStates]
    BY DEF RegistryInv, Types
  <1> QED BY <1>1 DEF Settles

\* The stores of a state that queue nothing.
LEMMA CalmStores ==
    ASSUME RegistryInv, TicketInv, NEW a \in Actors,
           PendWake(a) \/ AbortCas(a) \/ ColdCancel(a) \/ PublishTerminal(a)
    PROVE  TicketInv'
  <1>0. /\ Stacks /\ NoSets /\ gen \in [Tasks -> Int] /\ st \in [Tasks -> TaskStates]
    BY DEF RegistryInv, Types, TicketInv
  <1>s. st' = st => Settles
    BY DEF Settles
  <1>n. set' = set /\ slot' = slot /\ wait' = wait => NoSets'
    BY <1>0 DEF NoSets
  <1>1. CASE PendWake(a)
    <2>1. Doing(a, "pendWake") /\ "pendWake" \in OfTask /\ Continue(a, <<>>) /\ lock = a
      BY <1>1 DEF PendWake, OfTask
    <2>2. PICK t \in Tasks : Arg(a) = <<t>>
      BY <1>0, <2>1, ArgTask
    <2>3. st' = IF st[t] = "preparing" THEN [st EXCEPT ![t] = "pending"] ELSE st
      BY <1>1, <2>2 DEF PendWake
    <2>4. Settles
      BY <1>s, <2>3, StoredState DEF Sleepy
    <2>5. UNCHANGED <<registry, ready, host, gen, ticket, cancel>>
      BY <1>1 DEF PendWake
    <2> QED BY <1>n, <2>1, <2>4, <2>5, ShortFits, CalmMove DEF registry, ready, host
  <1>2. CASE AbortCas(a)
    <2>1. Doing(a, "abortCas")
      BY <1>2 DEF AbortCas
    <2>2. PICK t \in Tasks, v \in TaskStates : Arg(a) = <<t, v>>
      BY <1>0, <2>1, ArgState
    <2>3. PICK o : o = Op("abort", <<t>>)
      OBVIOUS
    <2>4. Fits(<<o>>)
      BY <2>3, MadeOps, PlainFit, ShortFits DEF OfTask, Op
    <2>5. \/ st' = [st EXCEPT ![t] = "running"] /\ Continue(a, <<>>)
          \/ st' = st /\ Continue(a, <<o>>)
      BY <1>2, <2>2, <2>3 DEF AbortCas
    <2>6. Settles
      BY <1>s, <2>5, StoredState DEF Sleepy
    <2>7. UNCHANGED <<registry, ready, host, gen, ticket, cancel, lock>>
      BY <1>2 DEF AbortCas
    <2>8. PICK ops : Fits(ops) /\ Continue(a, ops)
      BY <2>4, <2>5, ShortFits
    <2> QED BY <1>n, <2>1, <2>6, <2>7, <2>8, CalmMove DEF registry, ready, host
  <1>3. CASE ColdCancel(a)
    <2>1. Doing(a, "coldCancel") /\ "coldCancel" \in OfTask
      BY <1>3 DEF ColdCancel, OfTask
    <2>2. PICK t \in Tasks : Arg(a) = <<t>>
      BY <1>0, <2>1, ArgTask
    <2>3. PICK o : o = Op("terminal", <<t, "canceled">>)
      OBVIOUS
    <2>4. Fits(<<o>>)
      BY <2>3, MadeOps, PlainFit, ShortFits DEF Terminal, Op
    <2>5. \/ st' = [st EXCEPT ![t] = "finalizing"] /\ Continue(a, <<o>>)
          \/ st' = st /\ Continue(a, <<>>)
      BY <1>3, <2>2, <2>3 DEF ColdCancel
    <2>6. Settles
      BY <1>s, <2>5, StoredState DEF Sleepy
    <2>7. UNCHANGED <<registry, ready, host, gen, ticket, cancel, lock>>
      BY <1>3 DEF ColdCancel
    <2>8. PICK ops : Fits(ops) /\ Continue(a, ops)
      BY <2>4, <2>5, ShortFits
    <2> QED BY <1>n, <2>1, <2>6, <2>7, <2>8, CalmMove DEF registry, ready, host
  <1>4. CASE PublishTerminal(a)
    <2>1. Doing(a, "terminal")
      BY <1>4 DEF PublishTerminal
    <2>2. PICK t \in Tasks, v \in Terminal : Arg(a) = <<t, v>>
      BY <1>0, <2>1, ArgState
    <2>3. PICK o, p : o = Op("cancelActive", <<t>>) /\ p = Op("reap", <<t>>)
      OBVIOUS
    <2>4. Fits(<<o, p>>)
      BY <2>3, MadeOps, PlainFit, ShortFits DEF OfTask, Op
    <2>5. st' = [st EXCEPT ![t] = v] /\ Continue(a, <<o, p>>)
      BY <1>4, <2>2, <2>3 DEF PublishTerminal
    <2>6. Settles
      BY <2>5, StoredState DEF Sleepy, Terminal
    <2>7. UNCHANGED <<registry, ready, gen, ticket, cancel, lock, current, calls>>
      BY <1>4 DEF PublishTerminal
    <2> QED BY <1>n, <2>1, <2>4, <2>5, <2>6, <2>7, CalmMove DEF registry, ready
  <1> QED BY <1>1, <1>2, <1>3, <1>4

-----------------------------------------------------------------------------
(* Steps that queue a task, publish it, run it or advance its generation.  *)

\* While the arbiter can be entered, no generation is about to be taken back.
LEMMA FreeEpoch ==
    ASSUME LockInv, Free
    PROVE  \A t : ~Undone(t) /\ Epoch(t) = gen[t]
  <1>1. \A a \in Actors : ~Doing(a, "unregister")
    BY MarksAssumption DEF LockInv, Free, MarksAssumption
  <1> QED BY <1>1 DEF Undone, Epoch

\* A step that is about task t leaves every other task alone.
Apart(t) ==
    \A u \in Tasks : u # t =>
        /\ st'[u] = st[u] /\ gen'[u] = gen[u] /\ ticket'[u] = ticket[u]
        /\ pushed'[u] = pushed[u]
        /\ \A g : Entered(u, g) => Entered(u, g)'

\* What is left to show of a step that is about task t.
LEMMA OneTask ==
    ASSUME TicketInv, NEW t \in Tasks, Apart(t), NoSets', TicketTypes', NoPairs', LockInv',
           \A u \in Tasks : u # t =>
                /\ Undone(u)' <=> Undone(u)
                /\ Advances(u)' => Advances(u)
                /\ \A g : Kept(u, g),
           Cold(t)' /\ Pushes(t)' /\ Ticket(t)'
    PROVE  TicketInv'
  <1>1. ASSUME NEW u \in Tasks, u # t PROVE Cold(u)' /\ Pushes(u)' /\ Ticket(u)'
    <2>1. Cold(u) /\ Pushes(u) /\ Ticket(u)
      BY DEF TicketInv
    <2>2. /\ st'[u] = st[u] /\ gen'[u] = gen[u] /\ ticket'[u] = ticket[u]
          /\ pushed'[u] = pushed[u]
          /\ \A g : Entered(u, g) => Entered(u, g)'
      BY <1>1 DEF Apart
    <2> QED BY <1>1, <2>1, <2>2, CalmTask
  <1>2. \A u \in Tasks : Cold(u)' /\ Pushes(u)' /\ Ticket(u)'
    BY <1>1
  <1> QED BY <1>2 DEF TicketInv

\* The ticket of a task keeps its type.
LEMMA TicketStored ==
    ASSUME TicketTypes, NEW t \in Tasks, NEW g \in Int, NEW b \in BOOLEAN,
           ticket' = [ticket EXCEPT ![t] = [gen |-> g, pub |-> b]],
           queue' = queue, pushed' = pushed
    PROVE  TicketTypes'
  BY DEF TicketTypes

\* toka_task_claim_queue_ticket: the suspension of t ends, and the claimant goes
\* on to publish.
LEMMA ClaimStep ==
    ASSUME RegistryInv, TicketInv, Free, NEW a \in Actors, NEW name, Doing(a, name),
           name \notin {"publish", "unregister"}, NEW t \in Tasks, NEW e, e = gen[t],
           st[t] \in Sleepy, st' = [st EXCEPT ![t] = "queued"],
           ticket' = [ticket EXCEPT ![t] = PreparedTicket(e)],
           NEW ops, Fits(ops), Continue(a, ops),
           \E k \in 1 .. Len(ops) : ops[k] = Op("publish", <<t, e>>),
           gen' = gen, queue' = queue, pushed' = pushed, lock' = lock, current' = current,
           NoSets'
    PROVE  TicketInv'
  <1>0. /\ st \in [Tasks -> TaskStates] /\ gen \in [Tasks -> Int] /\ LockInv /\ TicketTypes
        /\ Pushes(t) /\ NoPairs /\ ticket \in [Tasks -> [gen : Int, pub : BOOLEAN]]
    BY DEF RegistryInv, Types, TicketInv, TicketTypes
  <1>1. (\A u, g : Kept(u, g)) /\ Begun(ops) /\ Steady(a)
    BY <1>0, MoveKeeps
  <1>2. /\ NoPairs' /\ LockInv' /\ \A u : Undone(u)' <=> Undone(u)
        /\ \A u : Advances(u)' => Advances(u) \/ current' = u
    BY <1>0, <1>1 DEF Steady
  <1>3. \A u : Advances(u)' => Advances(u)
    BY <1>2 DEF Advances
  <1>4. Publishes(t, e)'
    BY <1>1 DEF Begun
  <1>5. ~Undone(t) /\ ~Undone(t)'
    BY <1>0, <1>2, FreeEpoch
  <1>6. st'[t] = "queued" /\ ticket'[t] = PreparedTicket(e)
    BY <1>0
  <1>7. Cold(t)' /\ Pushes(t)' /\ Ticket(t)'
    BY <1>0, <1>4, <1>5, <1>6, ClaimedTask
  <1>8. Apart(t)
    <2>1. \A u, g : Entered(u, g) => Entered(u, g)'
      BY DEF Entered
    <2> QED BY <1>0, <2>1 DEF Apart
  <1>9. TicketTypes'
    BY <1>0, TicketStored DEF PreparedTicket
  <1> QED BY <1>1, <1>2, <1>3, <1>7, <1>8, <1>9, OneTask

\* The operations that may end a suspension: the commit of one that was woken
\* already, a schedule and a cancellation.
LEMMA ClaimSteps ==
    ASSUME RegistryInv, TicketInv, NEW a \in Actors,
           CommitState(a) \/ ScheduleState(a) \/ CancelClaim(a)
    PROVE  TicketInv'
  <1>0. /\ Stacks /\ NoSets /\ gen \in [Tasks -> Int] /\ st \in [Tasks -> TaskStates]
    BY DEF RegistryInv, Types, TicketInv
  <1>s. st' = st => Settles
    BY DEF Settles
  <1>n. UNCHANGED registry => NoSets'
    BY <1>0 DEF NoSets, registry
  <1>p. ASSUME NEW t \in Tasks, NEW g \in Int, NEW o, o = Op("publish", <<t, g>>)
        PROVE  Fit(o)
    BY <1>p, MadeOps, PlainFit DEF OfEpoch, Op
  <1>1. CASE CommitState(a)
    <2>1. Doing(a, "commitState") /\ "commitState" \in OfTask
      BY <1>1 DEF CommitState, OfTask
    <2>2. PICK t \in Tasks : Arg(a) = <<t>>
      BY <1>0, <2>1, ArgTask
    <2>3. UNCHANGED <<registry, ready, host, gen, cancel, lock>> /\ Arg(a)[1] = t
      BY <1>1, <2>2 DEF CommitState
    <2>4. CASE st[t] = "preparing"
      <3>1. st' = [st EXCEPT ![t] = "suspended"] /\ Continue(a, <<>>) /\ ticket' = ticket
        BY <1>1, <2>3, <2>4 DEF CommitState
      <3>2. Settles
        BY <2>4, <3>1, StoredState DEF Sleepy
      <3> QED BY <1>n, <2>1, <2>3, <3>1, <3>2, ShortFits, CalmMove DEF ready, host
    <2>5. CASE st[t] = "pending"
      <3>1. PICK e \in Int : e = gen[t]
        BY <1>0
      <3>2. PICK o, p : o = Op("cancelActive", <<t>>) /\ p = Op("publish", <<t, e>>)
        OBVIOUS
      <3>3. /\ Free /\ st' = [st EXCEPT ![t] = "queued"]
            /\ ticket' = [ticket EXCEPT ![t] = PreparedTicket(e)]
            /\ Continue(a, <<o, p>>)
        BY <1>1, <2>3, <2>5, <3>1, <3>2 DEF CommitState, Claim, AfterPendingClaim
      <3>4. Fit(o) /\ Fit(p)
        BY <1>p, <3>2, MadeOps, PlainFit DEF OfTask, Op
      <3>5. Fits(<<o, p>>) /\ \E k \in 1 .. Len(<<o, p>>) : <<o, p>>[k] = p
        BY <3>4, ShortFits
      <3> QED BY <1>n, <2>1, <2>3, <2>5, <3>1, <3>2, <3>3, <3>5, ClaimStep
              DEF ready, host, Sleepy
    <2>6. CASE st[t] \notin {"preparing", "pending"}
      <3>1. st' = st /\ Continue(a, <<>>) /\ ticket' = ticket
        BY <1>1, <2>3, <2>6 DEF CommitState, Claim
      <3> QED BY <1>n, <1>s, <2>1, <2>3, <3>1, ShortFits, CalmMove DEF ready, host
    <2> QED BY <2>4, <2>5, <2>6
  <1>2. CASE ScheduleState(a)
    <2>1. Doing(a, "scheduleState") /\ "scheduleState" \in OfEpoch
      BY <1>2 DEF ScheduleState, OfEpoch
    <2>2. PICK t \in Tasks, g \in Int : Arg(a) = <<t, g>>
      BY <1>0, <2>1, ArgEpoch
    <2>3. UNCHANGED <<registry, ready, host, gen, cancel, lock>> /\ Arg(a)[1] = t /\ Arg(a)[2] = g
      BY <1>2, <2>2 DEF ScheduleState
    <2>4. PICK o, p : o = Op("scheduleLoop", <<t, g>>) /\ p = Op("publish", <<t, g>>)
      OBVIOUS
    <2>5. Fits(<<o>>) /\ Fits(<<p>>)
      BY <1>p, <2>4, MadeOps, PlainFit, ShortFits DEF OfEpoch, Op
    <2>6. CASE st[t] = "preparing"
      <3>1. st' = [st EXCEPT ![t] = "pending"] /\ Continue(a, <<>>) /\ ticket' = ticket
        BY <1>2, <2>3, <2>6 DEF ScheduleState
      <3>2. Settles
        BY <2>6, <3>1, StoredState DEF Sleepy
      <3> QED BY <1>n, <2>1, <2>3, <3>1, <3>2, ShortFits, CalmMove DEF ready, host
    <2>7. CASE st[t] = "suspended" /\ gen[t] = g
      <3>1. /\ Free /\ st' = [st EXCEPT ![t] = "queued"]
            /\ ticket' = [ticket EXCEPT ![t] = PreparedTicket(g)]
            /\ Continue(a, <<p>>)
        BY <1>2, <2>3, <2>4, <2>7 DEF ScheduleState, Claim
      <3>2. \E k \in 1 .. Len(<<p>>) : <<p>>[k] = p
        OBVIOUS
      <3> QED BY <1>n, <2>1, <2>3, <2>4, <2>5, <2>7, <3>1, <3>2, ClaimStep
              DEF ready, host, Sleepy
    <2>8. CASE st[t] = "suspended" /\ gen[t] # g
      <3>1. st' = st /\ ticket' = ticket /\ Continue(a, <<o>>)
        BY <1>2, <2>3, <2>4, <2>8 DEF ScheduleState, Claim
      <3> QED BY <1>n, <1>s, <2>1, <2>3, <2>5, <3>1, CalmMove DEF ready, host
    <2>9. CASE st[t] \notin {"preparing", "suspended"}
      <3>1. st' = st /\ ticket' = ticket /\ (Continue(a, <<p>>) \/ Continue(a, <<>>))
        BY <1>2, <2>3, <2>4, <2>9 DEF ScheduleState
      <3>2. PICK ops : Fits(ops) /\ Continue(a, ops)
        BY <2>5, <3>1, ShortFits
      <3> QED BY <1>n, <1>s, <2>1, <2>3, <3>1, <3>2, CalmMove DEF ready, host
    <2> QED BY <2>6, <2>7, <2>8, <2>9
  <1>3. CASE CancelClaim(a)
    <2>1. Doing(a, "cancelClaim") /\ "cancelClaim" \in OfEpoch
      BY <1>3 DEF CancelClaim, OfEpoch
    <2>2. PICK t \in Tasks, g \in Int : Arg(a) = <<t, g>>
      BY <1>0, <2>1, ArgEpoch
    <2>3. UNCHANGED <<registry, ready, host, gen, cancel, lock>> /\ Arg(a)[1] = t /\ Arg(a)[2] = g
      BY <1>3, <2>2 DEF CancelClaim
    <2>4. PICK p : p = Op("publish", <<t, g>>)
      OBVIOUS
    <2>5. Fits(<<p>>)
      BY <1>p, <2>4, ShortFits
    <2>6. CASE st[t] = "suspended" /\ gen[t] = g
      <3>1. /\ Free /\ st' = [st EXCEPT ![t] = "queued"]
            /\ ticket' = [ticket EXCEPT ![t] = PreparedTicket(g)]
            /\ Continue(a, <<p>>)
        BY <1>3, <2>3, <2>4, <2>6 DEF CancelClaim, Claim
      <3>2. \E k \in 1 .. Len(<<p>>) : <<p>>[k] = p
        OBVIOUS
      <3> QED BY <1>n, <2>1, <2>3, <2>4, <2>5, <2>6, <3>1, <3>2, ClaimStep
              DEF ready, host, Sleepy
    <2>7. CASE ~(st[t] = "suspended" /\ gen[t] = g)
      <3>1. st' = st /\ ticket' = ticket /\ Continue(a, <<>>)
        BY <1>3, <2>3, <2>7 DEF CancelClaim, Claim
      <3> QED BY <1>n, <1>s, <2>1, <2>3, <3>1, ShortFits, CalmMove DEF ready, host
    <2> QED BY <2>6, <2>7
  <1> QED BY <1>1, <1>2, <1>3

\* suspend_and_register goes on to take a generation back, or is done.
LEMMA RegisterMove ==
    ASSUME RegistryInv, LockInv, NEW a \in Actors, NEW name \in {"register", "unregister"},
           Doing(a, name), NEW t \in Tasks, Arg(a) = <<t>>, NEW o, o = Op("unregister", <<t>>),
           NEW ops \in {<<>>, <<o>>}, Continue(a, ops), current' = current,
           lock \in {NoActor, a}, ops # <<>> => lock' = a
    PROVE  /\ \A u, g : Kept(u, g)
           /\ \A u : Advances(u)' => Advances(u)
           /\ NoPairs => NoPairs'
           /\ LockInv'
           /\ \A u : u # t => (Undone(u)' <=> Undone(u))
           /\ Undone(t)' <=> ops # <<>>
  <1> DEFINE B == Below \cup Above
             q == todo[a]
  <1>1. q \in Seq(B) /\ Tail(q) \in Seq(Below) /\ q # <<>> /\ todo \in [Actors -> Seq(B)]
    BY DEF RegistryInv, Stacks, StackOK, Doing
  <1>2. o \in Below /\ o.op = "unregister" /\ o.arg = <<t>> /\ o.arg[1] = t
    BY MadeOps DEF OfTask, Op
  <1>3. ops \in Seq(B)
    <2>1. o \in B
      BY <1>2
    <2> HIDE DEF B
    <2>2. <<>> \in Seq(B) /\ <<o>> \in Seq(B)
      BY <2>1
    <2>3. ops = <<>> \/ ops = <<o>>
      OBVIOUS
    <2> QED BY <2>2, <2>3
  <1>4. PICK r : r = ops \o Tail(q)
    OBVIOUS
  <1>5. todo' = [todo EXCEPT ![a] = r]
    BY <1>4 DEF Continue
  <1>6. Head(q).op = name /\ Head(q).arg = <<t>>
    BY DEF Doing, Arg
  <1>7. \A k \in 2 .. Len(q) : q[k] \in Below /\ q[k].op # "unregister"
    <2>1. \A k \in 1 .. Len(Tail(q)) : Tail(q)[k] \in Below
      <3> DEFINE S == Below
                 w == Tail(q)
      <3>1. w \in Seq(S)
        BY <1>1
      <3> HIDE DEF S, w
      <3>2. \A k \in 1 .. Len(w) : w[k] \in S
        BY <3>1
      <3> QED BY <3>2 DEF S, w
    <2> HIDE DEF B
    <2>2. \A k \in 2 .. Len(q) : k - 1 \in 1 .. Len(Tail(q)) /\ q[k] = Tail(q)[k - 1]
      BY <1>1
    <2>3. \A k \in 2 .. Len(q) : q[k] \in Below
      BY <2>1, <2>2
    <2> QED BY <2>3 DEF LockInv
  <1> HIDE DEF B, q
  <1>8. /\ r \in Seq(B)
        /\ \A k \in 1 .. Len(ops) : k \in 1 .. Len(r) /\ r[k] = ops[k]
        /\ \A k \in 2 .. Len(q) : \E j \in 1 .. Len(r) : r[j] = q[k]
        /\ \A j \in 1 .. Len(r) : \/ j \in 1 .. Len(ops) /\ r[j] = ops[j]
                                  \/ \E k \in 2 .. Len(q) : r[j] = q[k]
        /\ Head(q) = q[1]
    <2>1. Replaced(B, q, ops, r)
      BY <1>1, <1>3, <1>4, Elements
    <2> QED BY <2>1 DEF Replaced
  <1>9. todo'[a] = r /\ \A b \in Actors : b # a => todo'[b] = todo[b]
    BY <1>1, <1>5
  <1>10. /\ Len(ops) \in {0, 1} /\ (ops = <<>> <=> Len(ops) = 0)
         /\ \A j \in 1 .. Len(ops) : j = 1 /\ ops[j] = o
    OBVIOUS
  <1>11. r # <<>> => Head(r) = r[1] /\ 1 \in 1 .. Len(r)
    BY <1>8
  <1>12. \A j \in 2 .. Len(r) : j \in 1 .. Len(r) /\ j # 1
    OBVIOUS
  <1>13. \A j \in 2 .. Len(r) : r[j].op # "unregister"
    BY <1>7, <1>8, <1>10, <1>12
  <1>14. ops = <<>> => \A j \in 1 .. Len(r) : r[j].op # "unregister"
    BY <1>7, <1>8, <1>10
  <1>15. ops # <<>> => r # <<>> /\ Head(r) = o
    <2>1. ASSUME ops # <<>> PROVE r # <<>> /\ Head(r) = o
      <3>1. 1 \in 1 .. Len(ops) /\ ops[1] = o
        BY <1>10, <2>1
      <3>2. 1 \in 1 .. Len(r) /\ r[1] = o
        BY <1>8, <3>1
      <3>3. r # <<>>
        BY <3>2
      <3> QED BY <1>11, <3>2, <3>3
    <2> QED BY <2>1
  <1>16. /\ Doing(a, "unregister")' <=> ops # <<>>
         /\ ops # <<>> => Arg(a)' = <<t>>
         /\ Doing(a, "unregister") => Arg(a) = <<t>>
    BY <1>2, <1>9, <1>11, <1>14, <1>15 DEF Doing, Arg
  <1>17. \A b \in Actors : b # a => ~Doing(b, "unregister")
    BY MarksAssumption DEF LockInv, MarksAssumption
  <1>18. \A b \in Actors : b # a =>
            \A n : (Doing(b, n)' <=> Doing(b, n)) /\ Arg(b)' = Arg(b)
    BY <1>9 DEF Doing, Arg
  <1>19. ASSUME NEW u, NEW g PROVE Kept(u, g)
    <2> SUFFICES ASSUME Publishes(u, g) PROVE Publishes(u, g)'
      BY DEF Kept
    <2>1. PICK b \in Actors : \E k \in 1 .. Len(todo[b]) : todo[b][k] = Op("publish", <<u, g>>)
      BY DEF Publishes
    <2>2. PICK k \in 1 .. Len(todo[b]) : todo[b][k] = Op("publish", <<u, g>>)
      BY <2>1
    <2>3. CASE b # a
      BY <1>9, <2>2, <2>3 DEF Publishes
    <2>4. CASE b = a /\ k = 1
      BY <1>6, <1>8, <2>2, <2>4 DEF q, Op
    <2>5. CASE b = a /\ k # 1
      <3>1. k \in 2 .. Len(q)
        BY <1>1, <2>2, <2>5 DEF q
      <3>2. \E j \in 1 .. Len(r) : r[j] = Op("publish", <<u, g>>)
        BY <1>8, <2>2, <2>5, <3>1 DEF q
      <3> QED BY <1>9, <3>2 DEF Publishes
    <2> QED BY <2>3, <2>4, <2>5
  <1>20. ASSUME NEW u, Advances(u)' PROVE Advances(u)
    <2>1. SUFFICES ASSUME current # u PROVE Advances(u)
      BY DEF Advances
    <2>2. PICK b \in Actors : \E k \in 1 .. Len(todo'[b]) : Advancing(todo'[b][k], u)
      BY <1>20, <2>1 DEF Advances, Advancing
    <2>3. PICK k \in 1 .. Len(todo'[b]) : Advancing(todo'[b][k], u)
      BY <2>2
    <2>4. CASE b # a
      BY <1>9, <2>3, <2>4 DEF Advances
    <2>5. CASE b = a
      <3>1. k \in 1 .. Len(r) /\ Advancing(r[k], u)
        BY <1>9, <2>3, <2>5
      <3>2. CASE k \in 1 .. Len(ops) /\ r[k] = ops[k]
        <4>1. u = t
          BY <1>2, <1>10, <3>1, <3>2 DEF Advancing
        <4>2. Advancing(q[1], u) /\ 1 \in 1 .. Len(q)
          BY <1>1, <1>6, <1>8, <4>1 DEF Advancing
        <4> QED BY <4>2 DEF Advances, q
      <3>3. ASSUME NEW j \in 2 .. Len(q), r[k] = q[j] PROVE Advances(u)
        <4>1. j \in 1 .. Len(todo[a]) /\ Advancing(todo[a][j], u)
          BY <1>1, <3>1, <3>3 DEF q
        <4> QED BY <4>1 DEF Advances
      <3> QED BY <1>8, <3>1, <3>2, <3>3
    <2> QED BY <2>4, <2>5
  <1>21. ~Doing(a, "allocate")'
    <2> SUFFICES ASSUME r # <<>> PROVE Head(r).op # "allocate"
      BY <1>9 DEF Doing
    <2>1. CASE 1 \in 1 .. Len(ops) /\ r[1] = ops[1]
      BY <1>2, <1>10, <1>11, <2>1
    <2>2. ASSUME NEW k \in 2 .. Len(q), r[1] = q[k] PROVE Head(r).op # "allocate"
      BY <1>7, <1>11, <2>2, BelowNames
    <2> QED BY <1>8, <1>11, <2>1, <2>2
  <1>22. NoPairs => NoPairs'
    BY <1>18, <1>21 DEF NoPairs
  <1>23. LockInv'
    <2> SUFFICES ASSUME NEW b \in Actors
                 PROVE  /\ Doing(b, "unregister")' => lock' = b
                        /\ \A k \in 2 .. Len(todo'[b]) : todo'[b][k].op # "unregister"
      BY DEF LockInv
    <2>1. CASE b = a
      BY <1>9, <1>13, <1>16, <2>1
    <2>2. CASE b # a
      BY <1>9, <1>17, <1>18, <2>2 DEF LockInv
    <2> QED BY <2>1, <2>2
  <1>24. ASSUME NEW u, u # t PROVE Undone(u)' <=> Undone(u)
    <2>1. ~Undone(u)
      BY <1>16, <1>17, <1>24 DEF Undone
    <2>2. ~Undone(u)'
      BY <1>16, <1>17, <1>18, <1>24 DEF Undone
    <2> QED BY <2>1, <2>2
  <1>25. Undone(t)' <=> ops # <<>>
    <2>1. ops # <<>> => Undone(t)'
      BY <1>16 DEF Undone
    <2>2. Undone(t)' => ops # <<>>
      BY <1>16, <1>17, <1>18 DEF Undone
    <2> QED BY <2>1, <2>2
  <1> QED BY <1>19, <1>20, <1>22, <1>23, <1>24, <1>25

\* An operation on the stack of an actor that is about to advance a generation.
LEMMA TopAdvances ==
    ASSUME Stacks, NEW a \in Actors, NEW name \in {"allocate", "register", "unregister"},
           Doing(a, name), NEW t, Arg(a)[1] = t
    PROVE  Advances(t)
  <1> DEFINE B == Below \cup Above
             q == todo[a]
  <1>1. q \in Seq(B) /\ q # <<>> /\ Head(q).op = name /\ Head(q).arg[1] = t
    BY DEF Stacks, StackOK, Doing, Arg
  <1> HIDE DEF B, q
  <1>2. 1 \in 1 .. Len(q) /\ Head(q) = q[1]
    BY <1>1
  <1> QED BY <1>1, <1>2 DEF Advances, Advancing, q

\* toka_task_suspend_and_register: the generation of a task that was running is
\* advanced; that of any other is, and is taken back in the same section.
LEMMA RegisterSteps ==
    ASSUME RegistryInv, TicketInv, NEW a \in Actors,
           SuspendAndRegister(a) \/ TakeBackGeneration(a)
    PROVE  TicketInv'
  <1>0. /\ Stacks /\ NoSets /\ gen \in [Tasks -> Int] /\ st \in [Tasks -> TaskStates]
        /\ LockInv /\ NoPairs /\ TicketTypes
    BY DEF RegistryInv, Types, TicketInv
  <1>e. queue' = queue => \A u, g : Entered(u, g) => Entered(u, g)'
    BY DEF Entered
  <1>1. CASE SuspendAndRegister(a)
    <2>1. Doing(a, "register") /\ "register" \in OfTask /\ Free
      BY <1>1 DEF SuspendAndRegister, OfTask
    <2>2. PICK t \in Tasks : Arg(a) = <<t>>
      BY <1>0, <2>1, ArgTask
    <2>3. UNCHANGED <<registry, ready, host, ticket, cancel>> /\ Arg(a)[1] = t
      BY <1>1, <2>2 DEF SuspendAndRegister
    <2>4. gen' = [gen EXCEPT ![t] = @ + 1]
      BY <1>1, <2>2 DEF SuspendAndRegister
    <2>5. PICK o : o = Op("unregister", <<t>>)
      OBVIOUS
    <2>6. ~Undone(t) /\ Epoch(t) = gen[t] /\ Advances(t)
      BY <1>0, <2>1, <2>3, FreeEpoch, TopAdvances
    <2>7. NoSets' /\ TicketTypes' /\ queue' = queue /\ pushed' = pushed /\ ticket' = ticket
      BY <1>0, <2>3 DEF NoSets, TicketTypes, registry, ready
    <2>8. Cold(t) /\ Pushes(t) /\ Ticket(t)
      BY DEF TicketInv
    <2>9. PICK e \in Int : e = gen[t] /\ e + 1 = gen'[t]
      BY <1>0, <2>4
    <2>10. CASE st[t] = "running"
      <3>1. st' = [st EXCEPT ![t] = "suspended"] /\ Continue(a, <<>>) /\ lock' = lock
        BY <1>1, <2>2, <2>10 DEF SuspendAndRegister
      <3>2. /\ \A u, g : Kept(u, g)
            /\ \A u : Advances(u)' => Advances(u)
            /\ NoPairs' /\ LockInv' /\ ~Undone(t)'
            /\ \A u : u # t => (Undone(u)' <=> Undone(u))
        BY <1>0, <2>1, <2>2, <2>3, <2>5, <3>1, RegisterMove DEF host, Free
      <3>3. st'[t] = "suspended" /\ Epoch(t)' = e + 1 /\ Epoch(t) = e
        BY <1>0, <2>6, <2>9, <3>1, <3>2 DEF Epoch
      <3>4. Cold(t)' /\ Ticket(t)'
        BY <3>3 DEF Cold, Ticket
      <3>5. Pushes(t)'
        <4> SUFFICES ASSUME NEW g \in 1 .. MaxGen
                     PROVE  pushed[t][g] <= 1 /\ (g >= e + 1 => pushed[t][g] = 0)
          BY <2>7, <3>3 DEF Pushes
        <4>1. pushed[t][g] <= 1 /\ (g > e => pushed[t][g] = 0)
          BY <2>8, <3>3 DEF Pushes
        <4> QED BY <4>1
      <3>6. Apart(t)
        BY <1>0, <1>e, <2>4, <2>7, <3>1 DEF Apart
      <3> QED BY <2>7, <3>2, <3>4, <3>5, <3>6, OneTask
    <2>11. CASE st[t] # "running"
      <3>1. st' = st /\ Continue(a, <<o>>) /\ lock' = a
        BY <1>1, <2>2, <2>5, <2>11 DEF SuspendAndRegister
      <3>2. /\ \A u, g : Kept(u, g)
            /\ \A u : Advances(u)' => Advances(u)
            /\ NoPairs' /\ LockInv' /\ Undone(t)'
            /\ \A u : u # t => (Undone(u)' <=> Undone(u))
        BY <1>0, <2>1, <2>2, <2>3, <2>5, <3>1, RegisterMove DEF host, Free
      <3>3. Epoch(t)' = e /\ Epoch(t) = e /\ st[t] # "created"
        BY <2>6, <2>8, <2>9, <3>2 DEF Epoch, Cold
      <3>4. Cold(t)'
        BY <3>1, <3>3 DEF Cold
      <3>5. Pushes(t)'
        BY <2>7, <2>8, <3>1, <3>3 DEF Pushes, Unqueued
      <3>6. Ticket(t)'
        BY <1>e, <2>7, <2>8, <3>1, <3>2, <3>3 DEF Ticket, Kept, Entered, Publishes
      <3>7. Apart(t)
        BY <1>0, <1>e, <2>4, <2>7, <3>1 DEF Apart
      <3> QED BY <2>7, <3>2, <3>4, <3>5, <3>6, <3>7, OneTask
    <2> QED BY <2>10, <2>11
  <1>2. CASE TakeBackGeneration(a)
    <2>1. Doing(a, "unregister") /\ "unregister" \in OfTask /\ lock = a /\ lock' = NoActor
      BY <1>2 DEF TakeBackGeneration, OfTask
    <2>2. PICK t \in Tasks : Arg(a) = <<t>>
      BY <1>0, <2>1, ArgTask
    <2>3. UNCHANGED <<registry, ready, host, st, ticket, cancel>> /\ Arg(a)[1] = t
      BY <1>2, <2>2 DEF TakeBackGeneration
    <2>4. gen' = [gen EXCEPT ![t] = @ - 1] /\ Continue(a, <<>>)
      BY <1>2, <2>2 DEF TakeBackGeneration
    <2>5. PICK o : o = Op("unregister", <<t>>)
      OBVIOUS
    <2>6. Undone(t) /\ Advances(t)
      BY <1>0, <2>1, <2>3, TopAdvances DEF Undone
    <2>7. NoSets' /\ TicketTypes' /\ queue' = queue /\ pushed' = pushed /\ ticket' = ticket
      BY <1>0, <2>3 DEF NoSets, TicketTypes, registry, ready
    <2>8. Cold(t) /\ Pushes(t) /\ Ticket(t)
      BY DEF TicketInv
    <2>9. PICK e \in Int : e = gen[t] - 1 /\ e = gen'[t]
      BY <1>0, <2>4
    <2>10. /\ \A u, g : Kept(u, g)
           /\ \A u : Advances(u)' => Advances(u)
           /\ NoPairs' /\ LockInv' /\ ~Undone(t)'
           /\ \A u : u # t => (Undone(u)' <=> Undone(u))
      BY <1>0, <2>1, <2>2, <2>3, <2>4, <2>5, RegisterMove DEF host
    <2>11. Epoch(t)' = e /\ Epoch(t) = e /\ st[t] # "created"
      BY <2>6, <2>8, <2>9, <2>10 DEF Epoch, Cold
    <2>12. Cold(t)'
      BY <2>3, <2>11 DEF Cold
    <2>13. Pushes(t)'
      BY <2>3, <2>7, <2>8, <2>11 DEF Pushes, Unqueued
    <2>14. Ticket(t)'
      BY <1>e, <2>3, <2>7, <2>8, <2>10, <2>11 DEF Ticket, Kept, Entered, Publishes
    <2>15. Apart(t)
      BY <1>0, <1>e, <2>3, <2>4, <2>7 DEF Apart
    <2> QED BY <2>7, <2>10, <2>12, <2>13, <2>14, <2>15, OneTask
  <1> QED BY <1>1, <1>2

\* toka_task_start: the first epoch of a task that was created.
LEMMA StartStep == ASSUME RegistryInv, TicketInv, NEW a \in Actors, Start(a) PROVE TicketInv'
  <1>0. /\ Stacks /\ NoSets /\ gen \in [Tasks -> Int] /\ st \in [Tasks -> TaskStates]
        /\ LockInv /\ NoPairs /\ TicketTypes
        /\ ticket \in [Tasks -> [gen : Int, pub : BOOLEAN]]
    BY DEF RegistryInv, Types, TicketInv, TicketTypes
  <1>1. Doing(a, "start") /\ "start" \in OfTask /\ Free
    BY DEF Start, OfTask
  <1>2. PICK t \in Tasks : Arg(a) = <<t>>
    BY <1>0, <1>1, ArgTask
  <1>3. UNCHANGED <<registry, ready, host, cancel, lock>>
    BY DEF Start
  <1>4. NoSets'
    BY <1>0, <1>3 DEF NoSets, registry
  <1>5. PICK o : o = Op("publish", <<t, 1>>)
    OBVIOUS
  <1>6. Fits(<<o>>)
    BY <1>5, MadeOps, PlainFit, ShortFits DEF OfEpoch, Op
  <1>7. CASE st[t] # "created"
    <2>1. gen' = gen /\ ticket' = ticket /\ st' = st /\ Continue(a, <<>>)
      BY <1>2, <1>7 DEF Start
    <2>2. Settles
      BY <2>1 DEF Settles
    <2> QED BY <1>1, <1>3, <1>4, <2>1, <2>2, ShortFits, CalmMove DEF ready, host
  <1>8. CASE st[t] = "created"
    <2>1. /\ gen' = [gen EXCEPT ![t] = 1]
          /\ ticket' = [ticket EXCEPT ![t] = PreparedTicket(1)]
          /\ st' = [st EXCEPT ![t] = "queued"]
          /\ Continue(a, <<o>>)
      BY <1>2, <1>5, <1>8 DEF Start
    <2>2. (\A u, g : Kept(u, g)) /\ Begun(<<o>>) /\ Steady(a)
      BY <1>0, <1>1, <1>6, <2>1, MoveKeeps
    <2>3. /\ NoPairs' /\ LockInv' /\ \A u : Undone(u)' <=> Undone(u)
          /\ \A u : Advances(u)' => Advances(u) \/ current' = u
      BY <1>0, <1>3, <2>2 DEF Steady
    <2>4. \A u : Advances(u)' => Advances(u)
      BY <1>3, <2>3 DEF Advances, host
    <2>5. Publishes(t, 1)'
      <3>1. 1 \in 1 .. Len(<<o>>) /\ <<o>>[1] = Op("publish", <<t, 1>>)
        BY <1>5
      <3> QED BY <2>2, <3>1 DEF Begun
    <2>6. Cold(t) /\ Pushes(t)
      BY DEF TicketInv
    <2>7. gen[t] = 0 /\ Epoch(t) = 0 /\ ~Undone(t)
      BY <1>0, <1>1, <1>8, <2>6, FreeEpoch DEF Cold
    <2>8. st'[t] = "queued" /\ ticket'[t].gen = 1 /\ ticket'[t].pub = FALSE /\ gen'[t] = 1
      BY <1>0, <2>1 DEF PreparedTicket
    <2>9. Epoch(t)' = 1
      BY <2>3, <2>7, <2>8 DEF Epoch
    <2>10. Cold(t)' /\ Ticket(t)'
      BY <2>5, <2>8, <2>9 DEF Cold, Ticket, Publishes
    <2>11. Pushes(t)'
      <3>1. \A g \in 1 .. MaxGen : pushed[t][g] = 0
        BY <2>6, <2>7 DEF Pushes
      <3> QED BY <1>3, <3>1 DEF Pushes, ready
    <2>12. Apart(t)
      <3>1. \A u, g : Entered(u, g) => Entered(u, g)'
        BY <1>3 DEF Entered, ready
      <3> QED BY <1>0, <1>3, <2>1, <3>1 DEF Apart, ready
    <2>13. TicketTypes'
      <3>1. ticket' = [ticket EXCEPT ![t] = [gen |-> 1, pub |-> FALSE]]
        BY <2>1 DEF PreparedTicket
      <3>2. queue' = queue /\ pushed' = pushed /\ 1 \in Int /\ FALSE \in BOOLEAN
        BY <1>3 DEF ready
      <3> QED BY <1>0, <3>1, <3>2, TicketStored
    <2> QED BY <1>4, <2>2, <2>3, <2>4, <2>10, <2>11, <2>12, <2>13, OneTask
  <1> QED BY <1>7, <1>8

\* toka_task_publish_queue_ticket: an epoch is inserted by whoever comes first,
\* and a publication that inserts nothing is not the one a queued task waits for.
LEMMA PublishStep == ASSUME RegistryInv, TicketInv, NEW a \in Actors, Publish(a) PROVE TicketInv'
  <1>0. /\ Stacks /\ NoSets /\ gen \in [Tasks -> Int] /\ st \in [Tasks -> TaskStates]
        /\ LockInv /\ NoPairs /\ TicketTypes
        /\ ticket \in [Tasks -> [gen : Int, pub : BOOLEAN]]
        /\ queue \in Seq([task : Tasks, gen : Int])
        /\ pushed \in [Tasks -> [1 .. MaxGen -> Nat]]
    BY DEF RegistryInv, Types, TicketInv, TicketTypes
  <1>1. Doing(a, "publish") /\ "publish" \in OfEpoch /\ Free /\ Continue(a, <<>>)
    BY DEF Publish, OfEpoch
  <1>2. PICK t \in Tasks, g \in Int : Arg(a) = <<t, g>>
    BY <1>0, <1>1, ArgEpoch
  <1>3. UNCHANGED <<registry, host, st, gen, cancel, lock>>
    BY DEF Publish
  <1>4. NoSets'
    BY <1>0, <1>3 DEF NoSets, registry
  <1>5. (\A u, h : Kept(u, h) \/ Arg(a) = <<u, h>>) /\ Steady(a)
    BY <1>0, <1>1, ShortFits, MoveKeeps
  <1>6. /\ NoPairs' /\ LockInv' /\ \A u : Undone(u)' <=> Undone(u)
        /\ \A u : Advances(u)' => Advances(u) \/ current' = u
    BY <1>0, <1>3, <1>5 DEF Steady
  <1>7. \A u : Advances(u)' => Advances(u)
    BY <1>3, <1>6 DEF Advances, host
  <1>8. \A u, h : u # t \/ h # g => Kept(u, h)
    BY <1>2, <1>5
  <1>9. Cold(t) /\ Pushes(t) /\ Ticket(t) /\ Epoch(t) = gen[t] /\ ~Undone(t)
    BY <1>0, <1>1, FreeEpoch DEF TicketInv
  <1>10. Epoch(t)' = gen[t]
    BY <1>3, <1>6, <1>9 DEF Epoch
  <1>11. Cold(t)'
    BY <1>3, <1>7, <1>9 DEF Cold
  <1>12. CASE NeedsInsertion(t, g)
    <2>1. PICK x : x = [task |-> t, gen |-> g]
      OBVIOUS
    <2>2. /\ queue' = Append(queue, x)
          /\ ticket' = [ticket EXCEPT ![t].pub = TRUE]
          /\ pushed' = [pushed EXCEPT ![t][g] = @ + 1]
      BY <1>2, <1>12, <2>1 DEF Publish
    <2>3. st[t] = "queued" /\ gen[t] = g /\ ticket[t].gen = g /\ ~ticket[t].pub
      BY <1>12 DEF NeedsInsertion, CanPublish
    <2>4. ticket'[t].gen = g /\ ticket'[t].pub
      BY <1>0, <2>2, <2>3
    <2>5. x \in [task : Tasks, gen : Int] /\ x.task = t /\ x.gen = g
      BY <2>1
    <2>6. /\ Len(queue) \in Nat /\ Len(queue') = Len(queue) + 1 /\ queue'[Len(queue) + 1] = x
          /\ \A k \in 1 .. Len(queue) : queue'[k] = queue[k] /\ k \in 1 .. Len(queue')
          /\ queue' \in Seq([task : Tasks, gen : Int])
      BY <1>0, <2>2, <2>5
    <2>7. Entered(t, g)'
      <3>1. Len(queue) + 1 \in 1 .. Len(queue')
        BY <2>6
      <3> QED BY <2>5, <2>6, <3>1 DEF Entered
    <2>8. \A u, h : Entered(u, h) => Entered(u, h)'
      BY <2>6 DEF Entered
    <2>9. PICK p : p = [pushed[t] EXCEPT ![g] = @ + 1]
      OBVIOUS
    <2>10. pushed' = [pushed EXCEPT ![t] = p]
      BY <2>2, <2>9
    <2>11. pushed[t] \in [1 .. MaxGen -> Nat]
      BY <1>0
    <2>12. /\ p \in [1 .. MaxGen -> Nat]
           /\ \A h \in 1 .. MaxGen : p[h] = IF h = g THEN pushed[t][h] + 1 ELSE pushed[t][h]
      <3> DEFINE D == 1 .. MaxGen
                 f == pushed[t]
      <3>1. f \in [D -> Nat] /\ p = [f EXCEPT ![g] = f[g] + 1]
        BY <2>9, <2>11
      <3> HIDE DEF D, f
      <3>2. p = [h \in D |-> IF h = g THEN f[g] + 1 ELSE f[h]]
        BY <3>1
      <3>3. \A h \in D : p[h] = IF h = g THEN f[h] + 1 ELSE f[h]
        BY <3>2
      <3>4. \A h \in D : (IF h = g THEN f[g] + 1 ELSE f[h]) \in Nat
        BY <3>1
      <3>5. p \in [D -> Nat]
        BY <3>2, <3>4
      <3> QED BY <3>3, <3>5 DEF D, f
    <2>13. pushed' \in [Tasks -> [1 .. MaxGen -> Nat]] /\ pushed'[t] = p
      BY <1>0, <2>10, <2>12
    <2>14. Pushes(t)'
      <3> SUFFICES ASSUME NEW h \in 1 .. MaxGen
                   PROVE  p[h] <= 1 /\ (h > g => p[h] = 0)
        BY <1>3, <1>10, <2>3, <2>4, <2>13 DEF Pushes, Unqueued, Sleepy
      <3>1. /\ pushed[t][h] <= 1 /\ pushed[t][h] \in Nat
            /\ h >= g => pushed[t][h] = 0
        <4>1. Unqueued(t) /\ Epoch(t) = g /\ h \in Int
          BY <1>9, <2>3 DEF Unqueued
        <4>2. /\ pushed[t][h] <= 1
              /\ h > g \/ h = g => pushed[t][h] = 0
          BY <1>9, <4>1 DEF Pushes
        <4>3. h >= g => h > g \/ h = g
          BY <4>1
        <4> QED BY <2>11, <4>2, <4>3
      <3> QED BY <2>12, <3>1
    <2>15. Ticket(t)'
      BY <1>10, <2>3, <2>4, <2>7 DEF Ticket, Entered
    <2>16. ticket' \in [Tasks -> [gen : Int, pub : BOOLEAN]]
      BY <1>0, <2>2
    <2>17. TicketTypes'
      BY <2>6, <2>13, <2>16 DEF TicketTypes
    <2>18. Apart(t)
      BY <1>0, <1>3, <2>2, <2>8, <2>10 DEF Apart
    <2> QED BY <1>4, <1>6, <1>7, <1>8, <1>11, <2>14, <2>15, <2>17, <2>18, OneTask
  <1>13. CASE ~NeedsInsertion(t, g)
    <2>1. queue' = queue /\ ticket' = ticket /\ pushed' = pushed
      BY <1>2, <1>13 DEF Publish
    <2>2. Pushes(t)'
      BY <1>3, <1>9, <1>10, <2>1 DEF Pushes, Unqueued
    <2>e. PICK e : e = gen[t] /\ e = Epoch(t) /\ e = Epoch(t)'
      BY <1>9, <1>10
    <2>3. ASSUME st[t] = "queued", ~ticket[t].pub PROVE Publishes(t, e)'
      <3>1. ticket[t].gen = e /\ Publishes(t, e)
        BY <1>9, <2>e, <2>3 DEF Ticket
      <3>2. g # e
        BY <1>13, <2>e, <2>3, <3>1 DEF NeedsInsertion, CanPublish
      <3>3. Kept(t, e)
        BY <1>8, <3>2
      <3> QED BY <3>1, <3>3 DEF Kept
    <2>4. Ticket(t)'
      <3>1. st[t] = "queued" => ticket[t].gen = e /\ (ticket[t].pub => Entered(t, e))
        BY <1>9, <2>e DEF Ticket
      <3> QED BY <1>3, <2>1, <2>e, <2>3, <3>1 DEF Ticket, Entered, Publishes
    <2>5. Apart(t) /\ TicketTypes'
      <3>1. \A u, h : Entered(u, h) => Entered(u, h)'
        BY <2>1 DEF Entered
      <3> QED BY <1>0, <1>3, <2>1, <3>1 DEF Apart, TicketTypes
    <2> QED BY <1>4, <1>6, <1>7, <1>8, <1>11, <2>2, <2>4, <2>5, OneTask
  <1> QED BY <1>12, <1>13

\* toka_task_pop_ready: an entry that is dropped is not the one a queued task
\* waits for.
LEMMA PopTicket == ASSUME RegistryInv, TicketInv, PopReady PROVE TicketInv'
  <1>0. /\ NoSets /\ gen \in [Tasks -> Int] /\ st \in [Tasks -> TaskStates]
        /\ LockInv /\ NoPairs /\ TicketTypes
        /\ ticket \in [Tasks -> [gen : Int, pub : BOOLEAN]]
        /\ queue \in Seq([task : Tasks, gen : Int])
    BY DEF RegistryInv, Types, TicketInv, TicketTypes
  <1>1. /\ Free /\ queue # <<>> /\ queue' = Tail(queue) /\ todo' = todo
        /\ UNCHANGED <<registry, gen, cancel, lock, held, pushed, calls>>
    BY DEF PopReady
  <1>2. PICK x : x = Head(queue)
    OBVIOUS
  <1>3. /\ x \in [task : Tasks, gen : Int] /\ x = queue[1]
        /\ queue' \in Seq([task : Tasks, gen : Int])
        /\ \A k \in 2 .. Len(queue) : k - 1 \in 1 .. Len(queue') /\ queue'[k - 1] = queue[k]
        /\ \A k \in 1 .. Len(queue) : k = 1 \/ k \in 2 .. Len(queue)
    <2> DEFINE E == [task : Tasks, gen : Int]
               q == queue
    <2>1. q \in Seq(E) /\ q # <<>> /\ queue' = Tail(q) /\ x = Head(q)
      BY <1>0, <1>1, <1>2
    <2> HIDE DEF E, q
    <2>2. /\ x \in E /\ x = q[1] /\ Tail(q) \in Seq(E) /\ Len(Tail(q)) = Len(q) - 1
          /\ Len(q) \in Nat
      BY <2>1
    <2>3. \A k \in 2 .. Len(q) : k - 1 \in 1 .. Len(Tail(q)) /\ Tail(q)[k - 1] = q[k]
      BY <2>1, <2>2
    <2>4. \A k \in 1 .. Len(q) : k = 1 \/ k \in 2 .. Len(q)
      BY <2>2
    <2> QED BY <2>1, <2>2, <2>3, <2>4 DEF E, q
  <1>4. PICK t \in Tasks, g \in Int : t = x.task /\ g = x.gen
    BY <1>3
  <1>5. /\ \A u, h : Kept(u, h)
        /\ \A u : Undone(u)' <=> Undone(u)
        /\ \A u : Advances(u)' => Advances(u) \/ current' = u
        /\ NoPairs' /\ LockInv'
    BY <1>0, <1>1, StillKeeps
  <1>6. NoSets'
    BY <1>0, <1>1 DEF NoSets, registry
  <1>7. \A u, h : Entered(u, h) => Entered(u, h)' \/ (u = t /\ h = g)
    <2> SUFFICES ASSUME NEW u, NEW h, Entered(u, h), u # t \/ h # g PROVE Entered(u, h)'
      OBVIOUS
    <2>1. PICK k \in 1 .. Len(queue) : queue[k].task = u /\ queue[k].gen = h
      BY DEF Entered
    <2>2. k \in 2 .. Len(queue)
      BY <1>3, <1>4, <2>1
    <2>3. k - 1 \in 1 .. Len(queue') /\ queue'[k - 1] = queue[k]
      BY <1>3, <2>2
    <2> QED BY <2>1, <2>3 DEF Entered
  <1>8. Cold(t) /\ Pushes(t) /\ Ticket(t) /\ Epoch(t) = gen[t] /\ ~Undone(t)
    BY <1>0, <1>1, FreeEpoch DEF TicketInv
  <1>9. Epoch(t)' = gen[t]
    BY <1>1, <1>5, <1>8 DEF Epoch
  <1>10. CASE Claimable(x)
    <2>1. /\ st' = [st EXCEPT ![t] = "running"] /\ current' = t
          /\ ticket' = [ticket EXCEPT ![t] = NoTicket]
      BY <1>2, <1>4, <1>10 DEF PopReady
    <2>2. st'[t] = "running"
      BY <1>0, <2>1
    <2>3. Cold(t)' /\ Ticket(t)'
      BY <2>2 DEF Cold, Ticket
    <2>4. Pushes(t)'
      BY <1>1, <1>8, <1>9, <2>2 DEF Pushes, Unqueued, Sleepy
    <2>5. TicketTypes'
      <3>1. ticket' \in [Tasks -> [gen : Int, pub : BOOLEAN]]
        BY <1>0, <2>1 DEF NoTicket
      <3> QED BY <1>0, <1>1, <1>3, <3>1 DEF TicketTypes
    <2>6. Apart(t)
      BY <1>0, <1>1, <1>7, <2>1 DEF Apart
    <2>7. \A u \in Tasks : u # t => (Advances(u)' => Advances(u))
      BY <1>5, <2>1
    <2> QED BY <1>5, <1>6, <2>3, <2>4, <2>5, <2>6, <2>7, OneTask
  <1>11. CASE ~Claimable(x)
    <2>1. st' = st /\ current' = current /\ ticket' = ticket
      BY <1>2, <1>11 DEF PopReady
    <2>2. \A u : Advances(u)' => Advances(u)
      BY <1>5, <2>1 DEF Advances
    <2>3. Cold(t)' /\ Pushes(t)'
      BY <1>1, <1>8, <1>9, <2>1, <2>2 DEF Cold, Pushes, Unqueued
    <2>e. PICK e : e = gen[t] /\ e = Epoch(t) /\ e = Epoch(t)'
      BY <1>8, <1>9
    <2>4. ASSUME st[t] = "queued", ticket[t].pub PROVE Entered(t, e)'
      <3>1. ticket[t].gen = e /\ Entered(t, e)
        BY <1>8, <2>e, <2>4 DEF Ticket
      <3>2. ASSUME g = e PROVE FALSE
        <4>1. ticket[t] = [gen |-> g, pub |-> TRUE]
          BY <1>0, <2>4, <3>1, <3>2
        <4> QED BY <1>4, <1>11, <2>e, <2>4, <3>2, <4>1 DEF Claimable
      <3> QED BY <1>7, <3>1, <3>2
    <2>5. Ticket(t)'
      <3>1. ASSUME st[t] = "queued"
            PROVE  /\ ticket[t].gen = e /\ (ticket[t].pub => Entered(t, e)')
                   /\ ~ticket[t].pub => Publishes(t, e)'
        <4>1. ticket[t].gen = e /\ (~ticket[t].pub => Publishes(t, e))
          BY <1>8, <2>e, <3>1 DEF Ticket
        <4>2. Kept(t, e)
          BY <1>5
        <4> QED BY <2>4, <3>1, <4>1, <4>2 DEF Kept
      <3> QED BY <2>1, <2>e, <3>1 DEF Ticket, Entered, Publishes
    <2>6. TicketTypes' /\ Apart(t)
      BY <1>0, <1>1, <1>3, <1>7, <2>1 DEF TicketTypes, Apart
    <2> QED BY <1>5, <1>6, <2>2, <2>3, <2>5, <2>6, OneTask
  <1> QED BY <1>10, <1>11

-----------------------------------------------------------------------------
(* The running task, the callers from outside, and the theorems.           *)

\* A suspension on one source begins: the next epoch.
LEMMA PrepareTicket ==
    ASSUME RegistryInv, TicketInv, NEW t \in Tasks, NEW b, PrepareSuspend(t, "single", b)
    PROVE  TicketInv'
  <1>0. /\ NoSets /\ gen \in [Tasks -> Int] /\ st \in [Tasks -> TaskStates]
        /\ LockInv /\ NoPairs /\ TicketTypes /\ Exec \in Actors
    BY DEF RegistryInv, Types, TicketInv, Actors
  <1>1. /\ Free /\ current = t /\ todo[Exec] = <<>>
        /\ gen' = [gen EXCEPT ![t] = @ + 1]
        /\ UNCHANGED <<registry, ready, host, ticket, cancel, lock>>
    BY DEF PrepareSuspend, Runs
  <1>2. PICK v \in {"pending", "preparing"} : st' = [st EXCEPT ![t] = v]
    BY DEF PrepareSuspend
  <1>3. PICK o : o = Op("allocate", <<t, "single">>)
    OBVIOUS
  <1>4. Call(Exec, <<o>>)
    BY <1>3 DEF PrepareSuspend
  <1>5. Fits(<<o>>)
    <2>1. o \in Above /\ o.op = "allocate" /\ o.arg[1] = t /\ o.arg[2] = "single"
      BY <1>3, MadeOps DEF Op
    <2>2. Advances(t)
      BY <1>1 DEF Advances
    <2>3. Fit(o)
      BY <2>1, <2>2 DEF Fit
    <2> QED BY <2>3, ShortFits
  <1>6. (\A u, g : Kept(u, g)) /\ Steady(Exec)
    BY <1>0, <1>1, <1>4, <1>5, CallKeeps
  <1>7. /\ NoPairs' /\ LockInv' /\ \A u : Undone(u)' <=> Undone(u)
        /\ \A u : Advances(u)' => Advances(u) \/ current' = u
    BY <1>0, <1>1, <1>6 DEF Steady
  <1>8. \A u : Advances(u)' => Advances(u)
    BY <1>1, <1>7 DEF Advances, host
  <1>9. Pushes(t) /\ Epoch(t) = gen[t] /\ ~Undone(t)
    BY <1>0, <1>1, FreeEpoch DEF TicketInv
  <1>10. PICK e \in Int : e = gen[t] /\ e + 1 = gen'[t]
    BY <1>0, <1>1
  <1>11. Epoch(t)' = e + 1 /\ st'[t] = v
    BY <1>0, <1>2, <1>7, <1>9, <1>10 DEF Epoch
  <1>12. Cold(t)' /\ Ticket(t)'
    BY <1>11 DEF Cold, Ticket
  <1>13. Pushes(t)'
    <2> SUFFICES ASSUME NEW g \in 1 .. MaxGen
                 PROVE  pushed[t][g] <= 1 /\ (g >= e + 1 => pushed[t][g] = 0)
      BY <1>1, <1>11 DEF Pushes, ready
    <2>1. pushed[t][g] <= 1 /\ (g > e => pushed[t][g] = 0)
      BY <1>9, <1>10 DEF Pushes
    <2> QED BY <2>1
  <1>14. Apart(t) /\ TicketTypes'
    <2>1. \A u, g : Entered(u, g) => Entered(u, g)'
      BY <1>1 DEF Entered, ready
    <2> QED BY <1>0, <1>1, <1>2, <2>1 DEF Apart, TicketTypes, ready
  <1>15. NoSets'
    BY <1>0, <1>1 DEF NoSets, registry
  <1> QED BY <1>6, <1>7, <1>8, <1>12, <1>13, <1>14, <1>15, OneTask

\* What the code of the running task may do.
LEMMA UserTickets ==
    ASSUME OneSource, RegistryInv, TicketInv, NEW t \in Tasks, User(t) PROVE TicketInv'
  <1>0. /\ NoSets /\ Exec \in Actors /\ held \in [Tasks -> SUBSET (Slots \X Nat)]
        /\ LockInv
    BY DEF RegistryInv, Types, TicketInv, Actors
  <1>n. UNCHANGED registry => NoSets'
    BY <1>0 DEF NoSets, registry
  <1>1. CASE \E kind \in Kinds \ {"plain"} : PrepareSuspend(t, kind, TRUE)
    <2>1. Kinds \ {"plain"} \subseteq {"single"}
      BY ConstantsAssumption DEF ConstantsAssumption, OneSource
    <2> QED BY <1>1, <2>1, PrepareTicket
  <1>2. CASE PrepareSuspend(t, "single", FALSE)
    BY <1>2, PrepareTicket
  <1>3. CASE PlainSuspend(t)
    <2>1. current = t /\ todo[Exec] = <<>> /\ UNCHANGED <<tcb, registry, ready, host, lock>>
      BY <1>3 DEF PlainSuspend, Runs
    <2>2. PICK o, p : o = Op("register", <<t>>) /\ p = Op("clearCurrent", <<t>>)
      OBVIOUS
    <2>3. Call(Exec, <<o, p>>)
      BY <1>3, <2>2 DEF PlainSuspend
    <2>4. o \in Below /\ o.op = "register" /\ o.arg[1] = t /\ p \in Below /\ p.op = "clearCurrent"
      BY <2>2, MadeOps DEF OfTask, Op
    <2>5. Advances(t)
      BY <2>1 DEF Advances
    <2>6. Fits(<<o, p>>)
      BY <2>4, <2>5, PlainFit, ShortFits DEF Fit
    <2> QED BY <1>0, <1>n, <2>1, <2>3, <2>6, CalmCall DEF tcb, ready, host
  <1>4. CASE ReadOutcome(t)
    <2>1. PICK tok \in held[t] : Call(Exec, <<Op("isWinner", tok), Op("release", tok)>>)
      BY <1>4 DEF ReadOutcome
    <2>2. PICK s \in Slots, g \in Nat : tok = <<s, g>>
      BY <1>0, <2>1
    <2>3. PICK o, p : o = Op("isWinner", <<s, g>>) /\ p = Op("release", <<s, g>>)
      OBVIOUS
    <2>4. Fits(<<o, p>>)
      BY <2>3, MadeOps, PlainFit, ShortFits DEF Op
    <2>5. Call(Exec, <<o, p>>)
      BY <2>1, <2>2, <2>3
    <2>6. todo[Exec] = <<>> /\ UNCHANGED <<tcb, registry, ready, lock, current, calls>>
      BY <1>4 DEF ReadOutcome, Runs
    <2> QED BY <1>0, <1>n, <2>4, <2>5, <2>6, CalmCall DEF tcb, ready
  <1>5. CASE MarkHandled(t)
    <2>1. todo' = todo /\ UNCHANGED <<registry, ready, host, st, gen, ticket, lock>>
      BY <1>5 DEF MarkHandled
    <2>2. (\A u, g : Kept(u, g)) /\ Steady(Exec)
      BY <1>0, <2>1, StillKeeps DEF Steady
    <2>3. Settles
      BY <2>1 DEF Settles
    <2> QED BY <1>0, <1>n, <2>1, <2>2, <2>3, CalmStep DEF ready, host
  <1>6. CASE Complete(t)
    <2>1. todo[Exec] = <<>> /\ UNCHANGED <<tcb, registry, ready, host, lock>>
      BY <1>6 DEF Complete, Runs
    <2>2. PICK o, p : o = Op("terminal", <<t, "completed">>) /\ p = Op("clearCurrent", <<t>>)
      OBVIOUS
    <2>3. Call(Exec, <<o, p>>)
      BY <1>6, <2>2 DEF Complete
    <2>4. Fits(<<o, p>>)
      BY <2>2, MadeOps, PlainFit, ShortFits DEF OfTask, Terminal, Op
    <2> QED BY <1>0, <1>n, <2>1, <2>3, <2>4, CalmCall DEF tcb, ready, host
  <1> QED BY <1>1, <1>2, <1>3, <1>4, <1>5, <1>6 DEF User

\* Starts, wake-ups, cancellations and schedules by whoever calls them.
LEMMA OutsideTickets ==
    ASSUME RegistryInv, TicketInv, NEW a \in Actors, Outside(a) PROVE TicketInv'
  <1>0. NoSets
    BY DEF TicketInv
  <1>n. UNCHANGED registry => NoSets'
    BY <1>0 DEF NoSets, registry
  <1>x. ASSUME NEW kind, NEW o \in Below, o.op \notin {"register", "unregister"},
               External(a, kind, <<o>>)
        PROVE  TicketInv'
    <2>1. /\ todo[a] = <<>> /\ Call(a, <<o>>)
          /\ UNCHANGED <<tcb, registry, ready, lock, current, held>>
      BY <1>x DEF External
    <2>2. Fits(<<o>>)
      BY <1>x, PlainFit, ShortFits
    <2> QED BY <1>n, <2>1, <2>2, CalmCall DEF tcb, ready
  <1>1. ASSUME NEW t \in Tasks, CallStart(a, t) PROVE TicketInv'
    <2>1. PICK o : o = Op("start", <<t>>)
      OBVIOUS
    <2>2. Fits(<<o>>)
      BY <2>1, MadeOps, PlainFit, ShortFits DEF OfTask, Op
    <2>3. /\ todo[a] = <<>> /\ Call(a, <<o>>)
          /\ UNCHANGED <<tcb, registry, ready, host, lock>>
      BY <1>1, <2>1 DEF CallStart
    <2> QED BY <1>n, <2>2, <2>3, CalmCall DEF tcb, ready, host
  <1>2. ASSUME NEW t \in Tasks, CallCancel(a, t) PROVE TicketInv'
    <2>1. PICK o : o = Op("cancel", <<t>>)
      OBVIOUS
    <2>2. o \in Below /\ o.op = "cancel"
      BY <2>1, MadeOps DEF OfTask, Op
    <2>3. External(a, "cancel", <<o>>)
      BY <1>2, <2>1 DEF CallCancel
    <2> QED BY <1>x, <2>2, <2>3
  <1>3. ASSUME NEW tok \in Issued, CallWake(a, tok) PROVE TicketInv'
    <2>1. MaxSlotGen \in Nat
      BY ConstantsAssumption DEF ConstantsAssumption
    <2>2. PICK s \in Slots, g \in Nat : tok = <<s, g>>
      BY <2>1 DEF Issued
    <2>3. PICK m \in {"release", "keep"} : m = IF a = Exec THEN "release" ELSE "keep"
      OBVIOUS
    <2>4. PICK o : o = Op("wake", <<s, g, m>>)
      OBVIOUS
    <2>5. o \in Below /\ o.op = "wake"
      BY <2>4, MadeOps DEF Op
    <2>6. External(a, "wake", <<o>>)
      BY <1>3, <2>2, <2>3, <2>4 DEF CallWake
    <2> QED BY <1>x, <2>5, <2>6
  <1>4. ASSUME NEW t \in Tasks, NEW g \in 1 .. Min({gen[t], MaxGen}), CallSchedule(a, t, g)
        PROVE  TicketInv'
    <2>1. PICK o : o = Op("schedule", <<t, g>>)
      OBVIOUS
    <2>2. g \in Int
      OBVIOUS
    <2>3. o \in Below /\ o.op = "schedule"
      BY <2>1, <2>2, MadeOps DEF OfEpoch, Op
    <2>4. External(a, "schedule", <<o>>)
      BY <1>4, <2>1 DEF CallSchedule
    <2> QED BY <1>x, <2>3, <2>4
  <1> QED BY <1>1, <1>2, <1>3, <1>4 DEF Outside

\* At the start every task is cold.
LEMMA TicketInit == Init => TicketInv
  <1> SUFFICES ASSUME Init PROVE TicketInv
    OBVIOUS
  <1>1. /\ \A a \in Actors : todo[a] = <<>>
        /\ \A t \in Tasks : st[t] = "created" /\ gen[t] = 0
        /\ \A t \in Tasks : \A g \in 1 .. MaxGen : pushed[t][g] = 0
        /\ current = NoTask
    BY DEF Init
  <1>2. NoSets
    BY DEF Init, NoSets, NewSet, FreeSlot, NoWait
  <1>3. NoPairs /\ LockInv
    BY <1>1 DEF NoPairs, LockInv, Doing
  <1>4. TicketTypes
    BY DEF Init, TicketTypes, NoTicket
  <1>5. ASSUME NEW t \in Tasks PROVE Cold(t) /\ Pushes(t) /\ Ticket(t)
    <2>1. ~Advances(t)
      BY <1>1, MarksAssumption DEF Advances, MarksAssumption
    <2> QED BY <1>1, <2>1 DEF Cold, Pushes, Ticket
  <1> QED BY <1>2, <1>3, <1>4, <1>5 DEF TicketInv

\* Every step of every actor keeps the tickets.
LEMMA TicketNext == ASSUME OneSource, RegistryInv, TicketInv, [Next]_vars PROVE TicketInv'
  <1>1. CASE PopReady
    BY <1>1, PopTicket
  <1>2. ASSUME NEW a \in Actors, Step(a) PROVE TicketInv'
    <2>1. CASE \/ CommitSuspend(a) \/ AbortSuspend(a) \/ ScheduleLoop(a) \/ CancelActive(a)
               \/ ClearCurrent(a) \/ AbortState(a) \/ TrySchedule(a) \/ RequestCancel(a)
               \/ CancelLoad(a)
      BY <2>1, CalmLoops
    <2>2. CASE HelpCommit(a) \/ TryWake(a) \/ Release(a) \/ IsWinner(a)
      BY <2>2, CalmTokens
    <2>3. CASE CancelWait(a) \/ CancelArbiter(a) \/ ReapTerminalOutcomes(a)
      BY <2>3, CalmCancels
    <2>4. CASE Allocate(a)
      BY <2>4, CalmAllocate
    <2>5. CASE PendWake(a) \/ AbortCas(a) \/ ColdCancel(a) \/ PublishTerminal(a)
      BY <2>5, CalmStores
    <2>6. CASE CommitState(a) \/ ScheduleState(a) \/ CancelClaim(a)
      BY <2>6, ClaimSteps
    <2>7. CASE SuspendAndRegister(a) \/ TakeBackGeneration(a)
      BY <2>7, RegisterSteps
    <2>8. CASE Start(a)
      BY <2>8, StartStep
    <2>9. CASE Publish(a)
      BY <2>9, PublishStep
    <2> QED BY <1>2, <2>1, <2>2, <2>3, <2>4, <2>5, <2>6, <2>7, <2>8, <2>9 DEF Step
  <1>3. ASSUME NEW a \in Actors, Outside(a) PROVE TicketInv'
    BY <1>3, OutsideTickets
  <1>4. ASSUME NEW t \in Tasks, User(t) PROVE TicketInv'
    BY <1>4, UserTickets
  <1>5. CASE UNCHANGED vars
    <2>1. todo' = todo /\ UNCHANGED <<tcb, registry, ready, host, lock>> /\ Exec \in Actors
      BY <1>5 DEF vars, Actors
    <2>2. (\A u, g : Kept(u, g)) /\ Steady(Exec)
      BY <2>1, StillKeeps DEF Steady, TicketInv
    <2>3. Settles /\ NoSets'
      BY <2>1 DEF Settles, NoSets, TicketInv, tcb, registry
    <2> QED BY <2>1, <2>2, <2>3, CalmStep DEF tcb, ready, host
  <1> QED BY <1>1, <1>2, <1>3, <1>4, <1>5 DEF Next

\* Where no task waits for two sources, the tickets are kept in every reachable
\* state.
THEOREM TicketInvHolds == ASSUME OneSource PROVE Spec => []TicketInv
  <1>1. RegistryInv /\ TicketInv /\ [Next]_vars => TicketInv'
    BY TicketNext
  <1> QED BY <1>1, TicketInit, RegistryInvHolds, PTL DEF Spec

\* Exactly-once scheduling of tasks that wait for one source at a time: whatever
\* timers, reactor events, threads and cancellers race for it, one suspension
\* epoch enters the ready queue at most once, because
\* toka_task_publish_queue_ticket inserts only the published epoch that
\* toka_task_claim_queue_ticket prepared.
THEOREM EpochQueuedOnceHolds == ASSUME OneSource PROVE Spec => []EpochQueuedOnce
  <1>1. TicketInv => EpochQueuedOnce
    BY DEF TicketInv, Pushes, EpochQueuedOnce
  <1> QED BY <1>1, TicketInvHolds, PTL

\* No ticket of a task that waits for one source at a time is lost: when every
\* call has returned, a task in the state Queued has an entry in the ready queue
\* that toka_task_pop_ready accepts.
THEOREM QueuedIsClaimableHolds == ASSUME OneSource PROVE Spec => []QueuedIsClaimable
  <1>1. TicketInv => QueuedIsClaimable
    <2> SUFFICES ASSUME TicketInv, Idle, NEW t \in Tasks, st[t] = "queued"
                 PROVE  \E k \in 1 .. Len(queue) :
                            queue[k].task = t /\ Claimable(queue[k])
      BY DEF QueuedIsClaimable
    <2>1. Free /\ \A a \in Actors : todo[a] = <<>>
      BY DEF Idle, Free
    <2>2. Epoch(t) = gen[t]
      BY <2>1, FreeEpoch DEF TicketInv
    <2>3. ~Publishes(t, gen[t])
      BY <2>1 DEF Publishes
    <2>4. ticket[t].gen = gen[t] /\ ticket[t].pub /\ Entered(t, gen[t])
      BY <2>2, <2>3 DEF TicketInv, Ticket
    <2>5. PICK k \in 1 .. Len(queue) : queue[k].task = t /\ queue[k].gen = gen[t]
      BY <2>4 DEF Entered
    <2>6. ticket[t] = [gen |-> gen[t], pub |-> TRUE]
      BY <2>4 DEF TicketInv, TicketTypes
    <2> QED BY <2>5, <2>6 DEF Claimable
  <1> QED BY <1>1, TicketInvHolds, PTL
-----------------------------------------------------------------------------
(* The executor alone.  The hypothesis of what follows: no other thread    *)
(* enters the runtime and every suspension is prepared, as in the tasks of *)
(* the standard library.                                                   *)

Alone == Threads = {} /\ "plain" \notin Kinds

\* The operations on the executor's stack, and those below the topmost one.
On(o) == \E k \in 1 .. Len(todo[Exec]) : todo[Exec][k] = o
Under(o) == \E k \in 2 .. Len(todo[Exec]) : todo[Exec][k] = o

\* The registrations of t that can still win.
Live(t) == {s \in Slots : slot[s].active /\ slot[s].task = t}

\* They are of the current suspension of t, and t links to them; a link to
\* anything else is the one to a winner that is being committed.
Committing(t) ==
    /\ Doing(Exec, "helpCommit") /\ set[Arg(Exec)[1]].state = "wonPending"
    /\ set[Arg(Exec)[1]].task = t
Linked(t) ==
    /\ Live(t) # {} =>
        /\ wait[t].slot \in Live(t)
        /\ slot[wait[t].slot].gen = wait[t].gen
        /\ \A s \in Live(t) : /\ slot[s].epoch = Epoch(t)
                              /\ slot[s].set = wait[t].set
                              /\ slot[s].set = NoSet => s = wait[t].slot
    /\ wait[t].slot # NoSlot =>
        Live(t) # {} \/ (Committing(t) /\ wait[t].set = Arg(Exec)[1])

\* A task that is not on its way to sleep has no such registration, or the
\* topmost operation takes it away.
Clears(t) ==
    \/ Doing(Exec, "cancelActive") /\ Arg(Exec) = <<t>>
    \/ Doing(Exec, "cancelWait") /\ Arg(Exec) = <<t>>
    \/ /\ Doing(Exec, "release") /\ wait[t].slot # NoSlot /\ wait[t].set = NoSet
       /\ Arg(Exec) = <<wait[t].slot, wait[t].gen>>
Torn(t) == Live(t) = {} \/ Clears(t)
Quiet(t) == st[t] \notin Sleepy => Torn(t)

\* The coroutine of a task that is on its way to sleep has a call of the runtime
\* to return from.
Finishing(o, t) ==
    o.op \in {"allocate", "clearCurrent", "abort", "abortState", "abortCas"} /\ o.arg[1] = t
Returns(t) ==
    current = t /\ st[t] \in Sleepy => \E o : On(o) /\ Finishing(o, t)

\* A suspended task has a registration that can win, or it has won and the
\* executor is about to resume its task.
Scheduling == {"schedule", "scheduleLoop", "scheduleState"}
Woken(t) ==
    \/ \E name \in Scheduling : Doing(Exec, name) /\ Arg(Exec) = <<t, gen[t]>>
    \/ Committing(t)
Asleep(t) == st[t] = "suspended" => Live(t) # {} \/ Woken(t)

\* A token that a task holds names its own registration or none.
Held(t) ==
    \A tok \in held[t] :
        \/ tok[2] < slot[tok[1]].gen
        \/ /\ tok[2] = slot[tok[1]].gen
           /\ IF slot[tok[1]].inUse THEN slot[tok[1]].task = t ELSE slot[tok[1]].retired

\* A set and its members agree on the suspension, and on the winner once it is
\* known; the commit follows the selection at once.
Group ==
    \A s \in Slots : slot[s].set # NoSet =>
        set[slot[s].set].task = slot[s].task /\ set[slot[s].set].epoch = slot[s].epoch
Decided ==
    \A s \in Slots : slot[s].set # NoSet /\ ~slot[s].active =>
        /\ set[slot[s].set].winner # NoSlot
        /\ slot[s].state = "won" <=> s = set[slot[s].set].winner
Won ==
    \A i \in Sets : set[i].state = "wonPending" =>
        Doing(Exec, "helpCommit") /\ Arg(Exec) = <<i>> /\ Live(set[i].task) = {}

Data ==
    /\ \A t \in Tasks : Linked(t) /\ Asleep(t) /\ Held(t)
    /\ Group /\ Decided /\ Won

\* What an operation on the stack may count on.
Sound(o) ==
    /\ o.op \in Scheduling \cup {"abortCas"} => Torn(o.arg[1])
    /\ o.op \in {"abort", "abortState", "abortCas", "cancelActive", "cancelWait"}
         => st[o.arg[1]] # "suspended"
    /\ o.op = "release" /\ Names(o.arg[1], o.arg[2]) /\ slot[o.arg[1]].active
         => st[slot[o.arg[1]].task] # "suspended"
    /\ o.op = "register" => st[o.arg[1]] # "running"
    /\ o.op \notin {"cancelLoad", "cancelClaim"}

\* The operations that are topmost only, and what they may count on.
Committers == {"commit", "commitState"}
Tops == Committers \cup {"allocate", "unregister"}
TopInv ==
    /\ Doing(Exec, "unregister") => lock = Exec
    /\ Doing(Exec, "allocate") =>
         (\A o : ~Under(o)) /\ st[Arg(Exec)[1]] \in {"preparing", "pending"}
    /\ \A name \in Committers : Doing(Exec, name) =>
         /\ st[Arg(Exec)[1]] \in {"preparing", "pending"} /\ Live(Arg(Exec)[1]) # {}
         /\ \A o : Under(o) => o.op \in {"register", "clearCurrent"}

\* While a suspension is to be registered, nothing but the suspension is under way.
Registers == {"register", "unregister"}
Suspending == Committers \cup Registers
                \cup {"cancelActive", "cancelWait", "release", "publish", "clearCurrent"}
StackInv ==
    /\ \A o : On(o) => Sound(o)
    /\ \A o : Under(o) => o.op \notin Tops
    /\ TopInv
    /\ \A o, p : On(o) /\ On(p) /\ o.op \in Registers => p.op \in Suspending

AloneInv ==
    /\ Data /\ StackInv
    /\ \A t \in Tasks : Quiet(t) /\ Returns(t)

-----------------------------------------------------------------------------
(* What a new stack of the executor holds.                                 *)

LEMMA AloneActors == ASSUME Alone PROVE Actors = {Exec}
  BY DEF Alone, Actors

\* The stack of the executor holds operations; those below the topmost one are
\* none that are topmost only.
LEMMA OnStack ==
    ASSUME RegistryInv
    PROVE  /\ \A o : On(o) => o \in Below \cup Above
           /\ \A o : Under(o) => On(o) /\ o \in Below
           /\ \A o : On(o) => todo[Exec] # <<>> /\ (o = Head(todo[Exec]) \/ Under(o))
           /\ todo[Exec] # <<>> => On(Head(todo[Exec]))
  <1> DEFINE B == Below \cup Above
             q == todo[Exec]
  <1>1. q \in Seq(B) /\ (q # <<>> => Tail(q) \in Seq(Below))
    BY DEF RegistryInv, Stacks, StackOK, Actors
  <1> HIDE DEF B, q
  <1>2. \A k \in 1 .. Len(q) : q[k] \in B
    BY <1>1
  <1>3. q # <<>> => Head(q) = q[1] /\ 1 \in 1 .. Len(q)
    BY <1>1
  <1>4. \A k \in 2 .. Len(q) : k \in 1 .. Len(q) /\ q # <<>> /\ k - 1 \in 1 .. Len(Tail(q))
                                /\ q[k] = Tail(q)[k - 1]
    BY <1>1
  <1>5. \A k \in 1 .. Len(q) : q # <<>> /\ (k = 1 \/ k \in 2 .. Len(q))
    BY <1>1
  <1>6. \A k \in 2 .. Len(q) : q[k] \in Below
    <2> DEFINE S == Below
               w == Tail(q)
    <2>1. q # <<>> => w \in Seq(S)
      BY <1>1
    <2> HIDE DEF S, w
    <2>2. q # <<>> => \A k \in 1 .. Len(w) : w[k] \in S
      BY <2>1
    <2> QED BY <1>4, <2>2 DEF S, w
  <1> QED BY <1>2, <1>3, <1>4, <1>5, <1>6 DEF On, Under, B, q

\* The operations in N, fst topmost, come in the place of the topmost one.
Becomes(N, fst) ==
    /\ \A o : On(o)' <=> Under(o) \/ o \in N
    /\ \A o : Under(o)' => Under(o) \/ o \in N \ {fst}
    /\ N # {} => todo'[Exec] # <<>> /\ Head(todo'[Exec]) = fst
    /\ N = {} /\ todo'[Exec] # <<>> => Under(Head(todo'[Exec]))

\* A sequence that lists N, each operation once, fst first.
Lists(ops, N, fst) ==
    /\ \A o : o \in N <=> \E k \in 1 .. Len(ops) : ops[k] = o
    /\ \A k \in 2 .. Len(ops) : ops[k] # fst
    /\ N # {} => ops # <<>> /\ ops[1] = fst

LEMMA BecomesOf ==
    ASSUME RegistryInv, todo[Exec] # <<>>, NEW ops \in Seq(Below \cup Above),
           Continue(Exec, ops), NEW N, NEW fst, Lists(ops, N, fst)
    PROVE  Becomes(N, fst)
  <1> DEFINE B == Below \cup Above
             q == todo[Exec]
  <1>1. q \in Seq(B) /\ q # <<>> /\ Exec \in Actors /\ todo \in [Actors -> Seq(B)]
    BY DEF RegistryInv, Stacks, StackOK, Actors
  <1>2. PICK r : r = ops \o Tail(q)
    OBVIOUS
  <1>3. todo'[Exec] = r
    BY <1>1, <1>2 DEF Continue
  <1>4. ops \in Seq(B)
    OBVIOUS
  <1> HIDE DEF B, q
  <1>5. Tail(q) \in Seq(B) /\ Len(Tail(q)) = Len(q) - 1 /\ Len(q) \in Nat /\ Len(q) >= 1
        /\ Len(ops) \in Nat
    BY <1>1, <1>4
  <1>6. \A k \in 1 .. Len(q) - 1 : Tail(q)[k] = q[k + 1]
    BY <1>1
  <1>7. r \in Seq(B) /\ Len(r) = Len(ops) + (Len(q) - 1)
    BY <1>2, <1>4, <1>5
  <1>8. \A k \in 1 .. Len(ops) : r[k] = ops[k] /\ k \in 1 .. Len(r)
    BY <1>2, <1>4, <1>5, <1>7
  <1>9. \A k \in 2 .. Len(q) : r[Len(ops) + (k - 1)] = q[k]
                                /\ Len(ops) + (k - 1) \in 1 .. Len(r)
    BY <1>2, <1>4, <1>5, <1>6, <1>7
  <1>10. \A j \in 1 .. Len(r) : j > Len(ops) => r[j] = q[j - Len(ops) + 1]
                                               /\ j - Len(ops) + 1 \in 2 .. Len(q)
    BY <1>2, <1>4, <1>5, <1>6, <1>7
  <1>11. \A j \in 1 .. Len(r) : j \in 1 .. Len(ops) \/ j > Len(ops)
    BY <1>5, <1>7
  <1>12. \A o : Under(o) <=> \E k \in 2 .. Len(q) : q[k] = o
    BY DEF Under, q
  <1>13. \A o : On(o)' <=> \E j \in 1 .. Len(r) : r[j] = o
    BY <1>3 DEF On
  <1>14. \A o : Under(o)' <=> \E j \in 2 .. Len(r) : r[j] = o
    BY <1>3 DEF Under
  <1>15. \A o : o \in N <=> \E k \in 1 .. Len(ops) : ops[k] = o
    BY DEF Lists
  <1>16. ASSUME NEW o PROVE On(o)' <=> Under(o) \/ o \in N
    <2>1. ASSUME On(o)' PROVE Under(o) \/ o \in N
      BY <1>8, <1>10, <1>11, <1>12, <1>13, <1>15, <2>1
    <2>2. ASSUME Under(o) PROVE On(o)'
      BY <1>9, <1>12, <1>13, <2>2
    <2>3. ASSUME o \in N PROVE On(o)'
      BY <1>8, <1>13, <1>15, <2>3
    <2> QED BY <2>1, <2>2, <2>3
  <1>17. ASSUME NEW o, Under(o)' PROVE Under(o) \/ o \in N \ {fst}
    <2>1. PICK j \in 2 .. Len(r) : r[j] = o
      BY <1>14, <1>17
    <2>2. j \in 1 .. Len(r)
      BY <1>7
    <2>3. CASE j > Len(ops)
      BY <1>10, <1>12, <2>1, <2>2, <2>3
    <2>4. CASE j \in 1 .. Len(ops)
      <3>1. r[j] = ops[j] /\ j \in 2 .. Len(ops)
        BY <1>8, <2>4
      <3>2. ops[j] # fst
        BY <3>1 DEF Lists
      <3> QED BY <1>15, <2>1, <2>4, <3>1, <3>2
    <2> QED BY <1>11, <2>2, <2>3, <2>4
  <1>18. N # {} => r # <<>> /\ Head(r) = fst
    <2> SUFFICES ASSUME N # {} PROVE r # <<>> /\ Head(r) = fst
      OBVIOUS
    <2>1. ops # <<>> /\ ops[1] = fst
      BY DEF Lists
    <2>2. 1 \in 1 .. Len(ops)
      BY <1>4, <2>1
    <2>3. r[1] = fst /\ 1 \in 1 .. Len(r)
      BY <1>8, <2>1, <2>2
    <2> QED BY <1>7, <2>3
  <1>19. N = {} /\ r # <<>> => Under(Head(r))
    <2> SUFFICES ASSUME N = {}, r # <<>> PROVE Under(Head(r))
      OBVIOUS
    <2>1. \A k \in 1 .. Len(ops) : FALSE
      BY <1>15
    <2>2. Head(r) = r[1] /\ 1 \in 1 .. Len(r)
      BY <1>7
    <2> QED BY <1>10, <1>11, <1>12, <2>1, <2>2
  <1> QED BY <1>3, <1>16, <1>17, <1>18, <1>19 DEF Becomes

\* The short lists.
LEMMA ShortLists ==
    /\ \A o : Lists(<<>>, {}, o)
    /\ \A o : Lists(<<o>>, {o}, o)
    /\ \A o, p : o # p => Lists(<<o, p>>, {o, p}, o)
    /\ \A o, p, r : o # p /\ o # r => Lists(<<o, p, r>>, {o, p, r}, o)
  <1>1. ASSUME NEW o PROVE Lists(<<>>, {}, o) /\ Lists(<<o>>, {o}, o)
    BY DEF Lists
  <1>2. ASSUME NEW o, NEW p, o # p PROVE Lists(<<o, p>>, {o, p}, o)
    <2>1. \A k \in 1 .. Len(<<o, p>>) : (k = 1 /\ <<o, p>>[k] = o) \/ (k = 2 /\ <<o, p>>[k] = p)
      OBVIOUS
    <2>2. 1 \in 1 .. Len(<<o, p>>) /\ 2 \in 1 .. Len(<<o, p>>) /\ <<o, p>>[1] = o /\ <<o, p>>[2] = p
      OBVIOUS
    <2>3. \A k \in 2 .. Len(<<o, p>>) : <<o, p>>[k] = p
      OBVIOUS
    <2>4. <<o, p>> # <<>>
      OBVIOUS
    <2> QED BY <1>2, <2>1, <2>2, <2>3, <2>4 DEF Lists
  <1>3. ASSUME NEW o, NEW p, NEW r, o # p, o # r PROVE Lists(<<o, p, r>>, {o, p, r}, o)
    <2> DEFINE w == <<o, p, r>>
    <2>1. Len(w) = 3 /\ w[1] = o /\ w[2] = p /\ w[3] = r /\ w # <<>>
      OBVIOUS
    <2> HIDE DEF w
    <2>2. \A k \in 1 .. Len(w) : k = 1 \/ k = 2 \/ k = 3
      BY <2>1
    <2>3. 1 \in 1 .. Len(w) /\ 2 \in 1 .. Len(w) /\ 3 \in 1 .. Len(w)
      BY <2>1
    <2>4. \A k \in 2 .. Len(w) : k = 2 \/ k = 3
      BY <2>1
    <2>5. Lists(w, {o, p, r}, o)
      BY <1>3, <2>1, <2>2, <2>3, <2>4 DEF Lists
    <2> QED BY <2>5 DEF w
  <1> QED BY <1>1, <1>2, <1>3

\* A continuation with at most three operations.
LEMMA Moves ==
    ASSUME RegistryInv, NEW name, Doing(Exec, name)
    PROVE  /\ Continue(Exec, <<>>) => Becomes({}, NoTask)
           /\ \A o \in Below \cup Above : Continue(Exec, <<o>>) => Becomes({o}, o)
           /\ \A o, p \in Below :
                o # p /\ Continue(Exec, <<o, p>>) => Becomes({o, p}, o)
           /\ \A o, p, r \in Below :
                o # p /\ o # r /\ Continue(Exec, <<o, p, r>>) => Becomes({o, p, r}, o)
  <1>1. todo[Exec] # <<>>
    BY DEF Doing
  <1> DEFINE B == Below \cup Above
  <1>2. /\ <<>> \in Seq(B) /\ \A o \in B : <<o>> \in Seq(B)
        /\ \A o, p \in B : <<o, p>> \in Seq(B)
        /\ \A o, p, r \in B : <<o, p, r>> \in Seq(B)
    <2> HIDE DEF B
    <2> QED OBVIOUS
  <1>3. Below \subseteq B
    OBVIOUS
  <1> QED BY <1>1, <1>2, <1>3, BecomesOf, ShortLists
-----------------------------------------------------------------------------
(* What a step must show of the tasks, the slots and the new operations.   *)

\* The operations that name a task, and the one that names a slot.
LEMMA OpNames ==
    \A o \in Below \cup Above :
        /\ o.op \in Scheduling \cup {"abortCas", "abort", "abortState", "cancelActive",
                                     "cancelWait", "register", "allocate"}
             => o.arg[1] \in Tasks
        /\ o.op = "release" => o.arg[1] \in Slots
  BY DEF Below, Above, OfTask, OfEpoch, Scheduling

\* Without a generation to take back, the epoch of a task is its generation.
LEMMA EpochIs ==
    ASSUME Alone
    PROVE  /\ ~Doing(Exec, "unregister") => \A t : Epoch(t) = gen[t]
           /\ ~Doing(Exec, "unregister")' => \A t : Epoch(t)' = gen'[t]
  BY AloneActors DEF Epoch, Undone

\* The new topmost operation is the first of the new ones, or one from below.
LEMMA NewTop ==
    ASSUME RegistryInv, AloneInv, NEW N, NEW fst, Becomes(N, fst), NEW name, Doing(Exec, name)',
           N = {} \/ fst.op # name
    PROVE  name \notin Tops \cup {"helpCommit"}
  <1>1. todo'[Exec] # <<>> /\ Head(todo'[Exec]).op = name
    BY DEF Doing
  <1>2. N = {}
    BY <1>1 DEF Becomes
  <1>3. Under(Head(todo'[Exec]))
    BY <1>1, <1>2 DEF Becomes
  <1>4. Head(todo'[Exec]) \in Below /\ Head(todo'[Exec]).op \notin Tops
    BY <1>3, OnStack DEF AloneInv, StackInv
  <1> QED BY <1>1, <1>4, BelowNames

\* The topmost operation name is replaced by those in N, fst topmost.
Yields(name, N, fst) ==
    /\ Doing(Exec, name) /\ Becomes(N, fst) /\ N \in SUBSET (Below \cup Above)
    /\ N # {} => fst \in N
    /\ \A o \in N :
        /\ Sound(o)'
        /\ name \in Suspending => o.op \in Suspending
        /\ o.op \in Registers => name = "register"
        /\ o # fst => o.op \notin Tops
    /\ N # {} /\ fst.op \in Tops => TopInv'

\* What the step may do to the tasks and the slots; no slot becomes active.
Proceeds(name, N) ==
    /\ \A t \in Tasks :
        /\ Torn(t) => Torn(t)'
        /\ st[t] \in Sleepy /\ st'[t] \notin Sleepy => Torn(t)'
        /\ st'[t] = "suspended" => st[t] = "suspended" \/ name = "commitState"
        /\ st'[t] = "running" => st[t] = "running" \/ name = "abortCas"
        /\ current' = t /\ st'[t] \in Sleepy =>
             \/ \E p \in N : Finishing(p, t)
             \/ current = t /\ st[t] \in Sleepy /\ ~Finishing(Head(todo[Exec]), t)
    /\ \A s \in Slots : slot'[s].active => slot'[s] = slot[s]

LEMMA MoveInv ==
    ASSUME RegistryInv, AloneInv, NEW name, NEW N, NEW fst, Yields(name, N, fst),
           Proceeds(name, N), Data'
    PROVE  AloneInv'
  <1>n. \A o \in N :
          /\ Sound(o)'
          /\ name \in Suspending => o.op \in Suspending
          /\ o.op \in Registers => name = "register"
          /\ o # fst => o.op \notin Tops
    BY DEF Yields
  <1> USE DEF Yields, Proceeds
  <1>1. Head(todo[Exec]).op = name /\ todo[Exec] # <<>> /\ On(Head(todo[Exec]))
    BY OnStack DEF Doing
  <1>2. \A o : On(o)' <=> Under(o) \/ o \in N
    BY DEF Becomes
  <1>3. \A o : Under(o)' => Under(o) \/ (o \in N /\ o # fst)
    BY DEF Becomes
  <1>4. \A o : Under(o) => On(o) /\ o \in Below
    BY OnStack
  <1>5. /\ \A o : On(o) => Sound(o)
        /\ \A o : Under(o) => o.op \notin Tops
        /\ \A o, p : On(o) /\ On(p) /\ o.op \in Registers => p.op \in Suspending
        /\ TopInv
    BY DEF AloneInv, StackInv
  <1>6. name = "commitState" => \A o : Under(o) => o.op \in {"register", "clearCurrent"}
    BY <1>5 DEF TopInv, Committers
  <1>7. name = "abortCas" => \A o : Under(o) => o.op # "register"
    <2> SUFFICES ASSUME name = "abortCas", NEW o, Under(o), o.op = "register" PROVE FALSE
      OBVIOUS
    <2>1. name \in Suspending
      BY <1>1, <1>4, <1>5 DEF Registers
    <2> QED BY <2>1 DEF Suspending, Committers, Registers
  <1>8. ASSUME NEW o, Under(o) PROVE Sound(o)'
    <2>1. Sound(o) /\ o \in Below
      BY <1>4, <1>5, <1>8
    <2>2. o.op \in Scheduling \cup {"abortCas"} => Torn(o.arg[1])'
      <3>1. o.op \in Scheduling \cup {"abortCas"} => o.arg[1] \in Tasks /\ Torn(o.arg[1])
        BY <2>1, OpNames DEF Sound
      <3> QED BY <3>1
    <2>3. o.op \in {"abort", "abortState", "abortCas", "cancelActive", "cancelWait"}
            => st'[o.arg[1]] # "suspended"
      <3> SUFFICES ASSUME o.op \in {"abort", "abortState", "abortCas", "cancelActive", "cancelWait"}
                   PROVE  st'[o.arg[1]] # "suspended"
        OBVIOUS
      <3>1. o.arg[1] \in Tasks /\ st[o.arg[1]] # "suspended"
        BY <2>1, OpNames DEF Sound
      <3>2. name # "commitState"
        BY <1>6, <1>8
      <3> QED BY <3>1, <3>2
    <2>4. o.op = "release" /\ Names(o.arg[1], o.arg[2])' /\ slot'[o.arg[1]].active
            => st'[slot'[o.arg[1]].task] # "suspended"
      <3> SUFFICES ASSUME o.op = "release", Names(o.arg[1], o.arg[2])', slot'[o.arg[1]].active
                   PROVE  st'[slot'[o.arg[1]].task] # "suspended"
        OBVIOUS
      <3>1. o.arg[1] \in Slots
        BY <2>1, OpNames
      <3>2. slot'[o.arg[1]] = slot[o.arg[1]]
        BY <3>1
      <3>3. st[slot[o.arg[1]].task] # "suspended"
        BY <2>1, <3>2 DEF Sound, Names
      <3>4. slot[o.arg[1]].task \in Tasks
        BY <3>1, <3>2 DEF RegistryInv, SlotInv
      <3>5. name # "commitState"
        BY <1>6, <1>8
      <3> QED BY <3>2, <3>3, <3>4, <3>5
    <2>5. o.op = "register" => st'[o.arg[1]] # "running"
      <3>1. o.op = "register" => o.arg[1] \in Tasks /\ st[o.arg[1]] # "running"
        BY <2>1, OpNames DEF Sound
      <3> QED BY <1>7, <1>8, <3>1
    <2> QED BY <2>1, <2>2, <2>3, <2>4, <2>5 DEF Sound
  <1>9. \A o : On(o)' => Sound(o)'
    BY <1>n, <1>2, <1>8
  <1>10. \A o : Under(o)' => o.op \notin Tops
    BY <1>n, <1>3, <1>5
  <1>11. ASSUME NEW o, NEW p, On(o)', On(p)', o.op \in Registers PROVE p.op \in Suspending
    <2>1. CASE Under(o)
      <3>1. name \in Suspending
        BY <1>1, <1>4, <1>5, <1>11, <2>1
      <3>2. Under(p) => p.op \in Suspending
        BY <1>4, <1>5, <1>11, <2>1
      <3> QED BY <1>n, <1>2, <1>11, <3>1, <3>2
    <2>2. CASE o \in N
      <3>1. name = "register" /\ name \in Registers /\ name \in Suspending
        BY <1>n, <1>11, <2>2 DEF Registers, Suspending
      <3>2. Under(p) => p.op \in Suspending
        BY <1>1, <1>4, <1>5, <3>1
      <3> QED BY <1>n, <1>2, <1>11, <3>1, <3>2
    <2> QED BY <1>2, <1>11, <2>1, <2>2
  <1>12. TopInv'
    <2>1. CASE N # {} /\ fst.op \in Tops
      BY <2>1
    <2>2. CASE N = {} \/ fst.op \notin Tops
      <3>1. \A n \in Tops : ~Doing(Exec, n)'
        BY <2>2, NewTop
      <3> QED BY <3>1 DEF TopInv, Tops, Committers
    <2> QED BY <2>1, <2>2
  <1>13. StackInv'
    BY <1>9, <1>10, <1>11, <1>12 DEF StackInv
  <1>14. ASSUME NEW t \in Tasks PROVE Quiet(t)'
    BY DEF AloneInv, Quiet
  <1>15. ASSUME NEW t \in Tasks PROVE Returns(t)'
    <2> SUFFICES ASSUME current' = t, st'[t] \in Sleepy
                 PROVE  \E o : On(o)' /\ Finishing(o, t)
      BY DEF Returns, Finishing
    <2>1. CASE \E p \in N : Finishing(p, t)
      BY <1>2, <2>1
    <2>2. CASE current = t /\ st[t] \in Sleepy /\ ~Finishing(Head(todo[Exec]), t)
      <3>1. PICK o : On(o) /\ Finishing(o, t)
        BY <2>2 DEF AloneInv, Returns
      <3>2. Under(o)
        BY <2>2, <3>1, OnStack
      <3> QED BY <1>2, <3>1, <3>2
    <2> QED BY <2>1, <2>2
  <1> QED BY <1>13, <1>14, <1>15 DEF AloneInv
\* Nothing lies below the new operations.
LEMMA FreshInv ==
    ASSUME NEW N, NEW fst, Becomes(N, fst), \A o : ~Under(o), Data',
           \A t \in Tasks : Quiet(t)' /\ Returns(t)',
           \A o \in N : Sound(o)' /\ (o # fst => o.op \notin Tops),
           \A o \in N : o.op \in Registers => \A p \in N : p.op \in Suspending,
           TopInv'
    PROVE  AloneInv'
  <1>1. /\ \A o : On(o)' <=> o \in N
        /\ \A o : Under(o)' => o \in N /\ o # fst
    BY DEF Becomes
  <1>2. StackInv'
    BY <1>1 DEF StackInv
  <1> QED BY <1>2 DEF AloneInv

\* A call of the executor, which had nothing to do.
LEMMA CallBecomes ==
    ASSUME RegistryInv, todo[Exec] = <<>>, NEW ops \in Seq(Below \cup Above), Call(Exec, ops),
           NEW N, NEW fst, Lists(ops, N, fst)
    PROVE  Becomes(N, fst) /\ \A o : ~Under(o)
  <1> DEFINE B == Below \cup Above
  <1>1. todo \in [Actors -> Seq(B)] /\ Exec \in Actors /\ ops \in Seq(B)
    BY DEF RegistryInv, Stacks, Actors
  <1>2. todo'[Exec] = ops
    BY <1>1 DEF Call
  <1>3. Len(todo[Exec]) = 0
    OBVIOUS
  <1>4. \A o : ~Under(o)
    BY <1>3 DEF Under
  <1>5. \A o : On(o)' <=> \E k \in 1 .. Len(ops) : ops[k] = o
    BY <1>2 DEF On
  <1>6. \A o : Under(o)' <=> \E k \in 2 .. Len(ops) : ops[k] = o
    BY <1>2 DEF Under
  <1> HIDE DEF B
  <1>7. \A k \in 2 .. Len(ops) : k \in 1 .. Len(ops)
    BY <1>1
  <1>8. ops # <<>> => Head(ops) = ops[1] /\ 1 \in 1 .. Len(ops)
    BY <1>1
  <1>9. N = {} => ops = <<>>
    BY <1>8 DEF Lists
  <1> QED BY <1>2, <1>4, <1>5, <1>6, <1>7, <1>8, <1>9 DEF Lists, Becomes

\* The registrations stay, and with them the links to them.
LEMMA StillData ==
    ASSUME Alone, RegistryInv, AloneInv, ~Doing(Exec, "helpCommit"),
           slot' = slot, set' = set, wait' = wait, \A t \in Tasks : held'[t] \in SUBSET held[t],
           \A t \in Tasks : Live(t) # {} => Epoch(t)' = Epoch(t),
           \A t \in Tasks : st'[t] = "suspended" => Live(t) # {} \/ Woken(t)'
    PROVE  Data' /\ \A t : Live(t)' = Live(t)
  <1>1. \A t : Live(t)' = Live(t)
    BY DEF Live
  <1>3. Data
    BY DEF AloneInv
  <1>4. \A i \in Sets : set[i].state # "wonPending"
    BY <1>3 DEF Data, Won
  <1>5. Won'
    BY <1>4 DEF Won
  <1>6. Group' /\ Decided'
    BY <1>3 DEF Data, Group, Decided
  <1>7. ASSUME NEW t \in Tasks PROVE Linked(t)' /\ Asleep(t)' /\ Held(t)'
    <2>1. Linked(t) /\ Held(t)
      BY <1>3 DEF Data
    <2>2. ~Committing(t)
      BY DEF Committing
    <2>3. Linked(t)'
      BY <1>1, <2>1, <2>2 DEF Linked
    <2>4. Asleep(t)'
      BY <1>1 DEF Asleep
    <2>5. Held(t)'
      BY <2>1 DEF Held
    <2> QED BY <2>3, <2>4, <2>5
  <1> QED BY <1>1, <1>5, <1>6, <1>7 DEF Data

\* A move of the executor that leaves the tasks and the registry alone.
LEMMA StillMove ==
    ASSUME Alone, RegistryInv, AloneInv, NEW name, Doing(Exec, name),
           name \notin {"helpCommit", "unregister"},
           NEW N \in SUBSET (Below \cup Above), NEW fst, Becomes(N, fst), N # {} => fst \in N,
           slot' = slot, set' = set, wait' = wait, gen' = gen, st' = st, held' = held,
           current' = current \/ current' = NoTask,
           \A t \in Tasks : Clears(t) => Torn(t)',
           name \in Scheduling => \A t \in Tasks : Woken(t) => Asleep(t)',
           \A t \in Tasks : current' = t /\ st[t] \in Sleepy /\ Finishing(Head(todo[Exec]), t)
                              => \E p \in N : Finishing(p, t),
           \A o \in N : /\ Sound(o)'
                        /\ name \in Suspending => o.op \in Suspending
                        /\ o.op \notin Registers,
           \A o \in N : o # fst => o.op \notin Tops,
           N # {} /\ fst.op \in Tops => TopInv'
    PROVE  AloneInv'
  <1>1. ~Doing(Exec, "helpCommit") /\ ~Doing(Exec, "unregister")
    BY DEF Doing
  <1>2. ~Doing(Exec, "unregister")'
    <2>1. N = {} \/ fst.op # "unregister"
      BY DEF Registers
    <2> QED BY <2>1, NewTop DEF Tops
  <1>3. \A t \in Tasks : Woken(t) => Asleep(t)'
    <2> SUFFICES ASSUME NEW t \in Tasks, Woken(t) PROVE Asleep(t)'
      OBVIOUS
    <2>1. name \in Scheduling
      BY <1>1 DEF Woken, Committing, Doing
    <2> QED BY <2>1
  <1>4. Data' /\ \A t : Live(t)' = Live(t)
    <2>1. \A t \in Tasks : Epoch(t)' = Epoch(t)
      BY <1>1, <1>2, EpochIs
    <2>2. \A t : Live(t)' = Live(t)
      BY DEF Live
    <2>3. \A t \in Tasks : st'[t] = "suspended" => Live(t) # {} \/ Woken(t)'
      BY <1>3, <2>2 DEF AloneInv, Data, Asleep
    <2> QED BY <1>1, <2>1, <2>3, StillData
  <1>5. \A t \in Tasks : Torn(t) => Torn(t)'
    BY <1>4 DEF Torn
  <1>6. \A t \in Tasks : current' = t => current = t
    BY MarksAssumption DEF MarksAssumption
  <1>7. \A t \in Tasks : current' = t /\ st'[t] \in Sleepy =>
               \/ \E p \in N : Finishing(p, t)
               \/ current = t /\ st[t] \in Sleepy /\ ~Finishing(Head(todo[Exec]), t)
    BY <1>6
  <1>8. Yields(name, N, fst)
    BY DEF Yields
  <1>9. Proceeds(name, N)
    BY <1>5, <1>7 DEF Proceeds
  <1> QED BY <1>4, <1>8, <1>9, MoveInv
-----------------------------------------------------------------------------
(* The steps that only move the stack.                                     *)

\* The operations that count on nothing.
Harmless == {"publish", "clearCurrent", "reap", "cancelArbiter", "pendWake", "start", "cancel",
             "coldCancel", "terminal", "wake", "isWinner", "unregister", "commit",
             "commitState", "helpCommit", "allocate"}
LEMMA HarmlessSound == \A name \in Harmless : \A x : Sound(Op(name, x))'
  BY DEF Harmless, Sound, Op, Scheduling

\* What the topmost operation may count on.
LEMMA TopSound ==
    ASSUME RegistryInv, AloneInv, NEW name, Doing(Exec, name)
    PROVE  /\ Sound(Head(todo[Exec])) /\ Head(todo[Exec]).op = name
           /\ Head(todo[Exec]).arg = Arg(Exec) /\ Exec \in Actors /\ Stacks
           /\ Head(todo[Exec]) \in Below \cup Above
  BY OnStack DEF AloneInv, StackInv, Doing, Arg, Actors, RegistryInv

\* The topmost operation in the new state.
LEMMA TopAfter ==
    ASSUME NEW N, NEW fst, fst \in N, Becomes(N, fst)
    PROVE  (\A name : Doing(Exec, name)' <=> fst.op = name) /\ Arg(Exec)' = fst.arg
  BY DEF Becomes, Doing, Arg

\* Who takes a registration away.
LEMMA ClearsBy ==
    ASSUME NEW name, Doing(Exec, name), name \notin {"cancelActive", "cancelWait", "release"}
    PROVE  \A t : ~Clears(t) /\ (Torn(t) <=> Live(t) = {})
  BY DEF Clears, Doing, Torn

\* No winner waits for its commit but the one being committed.
LEMMA NoneWon ==
    ASSUME RegistryInv, AloneInv, ~Doing(Exec, "helpCommit")
    PROVE  /\ \A i \in Sets : set[i].state # "wonPending"
           /\ \A t \in Tasks : PendingSet(t) = NoSet
           /\ \A t : ~Committing(t)
  <1>1. \A i \in Sets : set[i].state # "wonPending"
    BY DEF AloneInv, Data, Won
  <1>2. ASSUME NEW t \in Tasks PROVE PendingSet(t) = NoSet
    <2>1. wait[t].slot # NoSlot => wait[t].slot \in Slots
      BY Finite DEF RegistryInv, Types, WaitRec, Slots, NoSlot
    <2>2. wait[t].slot # NoSlot /\ slot[wait[t].slot].set # NoSet => slot[wait[t].slot].set \in Sets
      BY <2>1, SetOf DEF RegistryInv, Types
    <2> QED BY <1>1, <2>1, <2>2 DEF PendingSet
  <1>3. \A t : ~Committing(t)
    BY DEF Committing
  <1> QED BY <1>1, <1>2, <1>3

\* A loop of the scheduler that has nobody to help goes on.
LEMMA NobodyToHelp ==
    ASSUME RegistryInv, AloneInv, ~Doing(Exec, "helpCommit"), NEW t \in Tasks, NEW again, NEW next,
           HelpOr(Exec, t, again, next)
    PROVE  Continue(Exec, next) /\ set' = set
  BY NoneWon DEF HelpOr

\* Publication, the flags of a cancellation, the question who won, the return to
\* the loop.
LEMMA AloneReturns ==
    ASSUME Alone, RegistryInv, AloneInv,
           Publish(Exec) \/ IsWinner(Exec) \/ ClearCurrent(Exec)
    PROVE  AloneInv'
  <1>1. PICK name \in {"publish", "isWinner", "clearCurrent"} :
           Doing(Exec, name) /\ (name = "clearCurrent" => ClearCurrent(Exec))
                             /\ (name # "clearCurrent" => current' = current)
    BY DEF Publish, IsWinner, ClearCurrent, host
  <1>2. ~Doing(Exec, "helpCommit") /\ name \notin Scheduling
        /\ name \notin {"helpCommit", "unregister", "cancelActive", "cancelWait", "release"}
    BY <1>1 DEF Doing, Scheduling
  <1>3. slot' = slot /\ wait' = wait /\ gen' = gen /\ st' = st /\ held' = held
    BY DEF Publish, IsWinner, ClearCurrent, registry, tcb, host
  <1>4. Continue(Exec, <<>>) /\ set' = set
    <2>1. CASE Publish(Exec) \/ ClearCurrent(Exec)
      BY <2>1 DEF Publish, ClearCurrent, registry
    <2>2. CASE IsWinner(Exec)
      <3>1. Arg(Exec) \in Slots \X Nat
        BY <2>2, TopSound, ArgToken DEF IsWinner
      <3>2. slot[Arg(Exec)[1]].set # NoSet => slot[Arg(Exec)[1]].set \in Sets
        BY <3>1, SetOf DEF RegistryInv, Types
      <3>3. ~(slot[Arg(Exec)[1]].set # NoSet /\ set[slot[Arg(Exec)[1]].set].state = "wonPending")
        BY <1>2, <3>2, NoneWon
      <3> QED BY <2>2, <3>3 DEF IsWinner
    <2> QED BY <2>1, <2>2
  <1>5. Becomes({}, NoTask)
    BY <1>1, <1>4, Moves
  <1>6. \A t \in Tasks : ~Clears(t)
    BY <1>1, <1>2, ClearsBy
  <1>7. current' = current \/ current' = NoTask
    BY <1>1 DEF ClearCurrent
  <1>8. \A t \in Tasks : current' = t => ~Finishing(Head(todo[Exec]), t)
    <2>1. name = "clearCurrent" => current' = NoTask
      BY <1>1 DEF ClearCurrent
    <2> QED BY <1>1, <2>1, TopSound, MarksAssumption DEF Finishing, MarksAssumption
  <1> QED BY <1>1, <1>2, <1>3, <1>4, <1>5, <1>6, <1>7, <1>8, StillMove

LEMMA AloneRequest ==
    ASSUME Alone, RegistryInv, AloneInv, RequestCancel(Exec) PROVE AloneInv'
  <1>1. Doing(Exec, "cancel") /\ slot' = slot /\ wait' = wait /\ gen' = gen /\ st' = st
        /\ set' = set /\ held' = held /\ current' = current
        /\ Continue(Exec, <<Op("cancelArbiter", Arg(Exec))>>)
    BY DEF RequestCancel, registry, host
  <1>2. PICK t \in Tasks : Arg(Exec) = <<t>>
    BY <1>1, TopSound, ArgTask DEF OfTask
  <1>3. PICK o : o = Op("cancelArbiter", <<t>>)
    OBVIOUS
  <1>4. o \in Below /\ o.op = "cancelArbiter"
    BY <1>3, MadeOps DEF OfTask, Op
  <1>5. Becomes({o}, o)
    BY <1>1, <1>2, <1>3, <1>4, Moves
  <1>6. \A u \in Tasks : ~Clears(u)
    BY <1>1, ClearsBy
  <1>7. Sound(o)'
    BY <1>3, HarmlessSound DEF Harmless
  <1>8. \A u \in Tasks : ~Finishing(Head(todo[Exec]), u)
    BY <1>1, TopSound DEF Finishing
  <1>9. "cancel" \notin Suspending \cup Scheduling /\ o.op \notin Registers \cup Tops
    BY <1>4 DEF Suspending, Scheduling, Registers, Committers, Tops
  <1> QED BY <1>1, <1>4, <1>5, <1>6, <1>7, <1>8, <1>9, StillMove

LEMMA AloneCommit ==
    ASSUME Alone, RegistryInv, AloneInv, CommitSuspend(Exec) PROVE AloneInv'
  <1>1. Doing(Exec, "commit") /\ slot' = slot /\ wait' = wait /\ gen' = gen /\ st' = st
        /\ held' = held /\ current' = current
        /\ HelpOr(Exec, Arg(Exec)[1], <<Op("commit", Arg(Exec))>>, <<Op("commitState", Arg(Exec))>>)
    BY DEF CommitSuspend, tcb, host
  <1>2. PICK t \in Tasks : Arg(Exec) = <<t>>
    BY <1>1, TopSound, ArgTask DEF OfTask
  <1>3. PICK o : o = Op("commitState", <<t>>)
    OBVIOUS
  <1>4. o \in Below /\ o.op = "commitState" /\ o.arg = <<t>>
    BY <1>3, MadeOps DEF OfTask, Op
  <1>5. ~Doing(Exec, "helpCommit")
    BY <1>1 DEF Doing
  <1>6. Continue(Exec, <<o>>) /\ set' = set
    BY <1>1, <1>2, <1>3, <1>5, NobodyToHelp
  <1>7. Becomes({o}, o)
    BY <1>1, <1>4, <1>6, Moves
  <1>8. \A u \in Tasks : ~Clears(u)
    BY <1>1, ClearsBy
  <1>9. Sound(o)'
    BY <1>3, HarmlessSound DEF Harmless
  <1>10. \A u \in Tasks : ~Finishing(Head(todo[Exec]), u)
    BY <1>1, TopSound DEF Finishing
  <1>11. TopInv'
    <2>1. /\ st[t] \in {"preparing", "pending"} /\ Live(t) # {}
          /\ \A p : Under(p) => p.op \in {"register", "clearCurrent"}
      BY <1>1, <1>2 DEF AloneInv, StackInv, TopInv, Committers
    <2>2. Live(t)' = Live(t)
      BY <1>1 DEF Live
    <2>3. \A p : Under(p)' => Under(p)
      BY <1>7 DEF Becomes
    <2>4. (\A name : Doing(Exec, name)' <=> name = "commitState") /\ Arg(Exec)' = <<t>>
      BY <1>4, <1>7, TopAfter
    <2> QED BY <1>1, <2>1, <2>2, <2>3, <2>4 DEF TopInv, Committers
  <1>12. o.op \in Suspending /\ "commit" \notin Scheduling /\ o.op \notin Registers
    BY <1>4 DEF Suspending, Committers, Scheduling, Registers
  <1> QED BY <1>1, <1>4, <1>6, <1>7, <1>8, <1>9, <1>10, <1>11, <1>12, StillMove
LEMMA AloneAbort ==
    ASSUME Alone, RegistryInv, AloneInv, AbortSuspend(Exec) PROVE AloneInv'
  <1>1. Doing(Exec, "abort") /\ slot' = slot /\ wait' = wait /\ gen' = gen /\ st' = st
        /\ held' = held /\ current' = current
        /\ HelpOr(Exec, Arg(Exec)[1], <<Op("abort", Arg(Exec))>>, <<Op("abortState", Arg(Exec))>>)
    BY DEF AbortSuspend, tcb, host
  <1>2. PICK t \in Tasks : Arg(Exec) = <<t>>
    BY <1>1, TopSound, ArgTask DEF OfTask
  <1>3. PICK o : o = Op("abortState", <<t>>)
    OBVIOUS
  <1>4. o \in Below /\ o.op = "abortState" /\ o.arg = <<t>>
    BY <1>3, MadeOps DEF OfTask, Op
  <1>5. ~Doing(Exec, "helpCommit")
    BY <1>1 DEF Doing
  <1>6. Continue(Exec, <<o>>) /\ set' = set
    BY <1>1, <1>2, <1>3, <1>5, NobodyToHelp
  <1>7. Becomes({o}, o)
    BY <1>1, <1>4, <1>6, Moves
  <1>8. \A u \in Tasks : ~Clears(u)
    BY <1>1, ClearsBy
  <1>9. Sound(o)'
    <2>1. st[t] # "suspended"
      BY <1>1, <1>2, TopSound DEF Sound
    <2> QED BY <1>1, <1>4, <2>1 DEF Sound, Scheduling
  <1>10. \A u \in Tasks : Finishing(Head(todo[Exec]), u) => Finishing(o, u)
    BY <1>1, <1>2, <1>4, TopSound DEF Finishing
  <1>11. "abort" \notin Suspending \cup Scheduling /\ o.op \notin Registers \cup Tops
    BY <1>4 DEF Suspending, Committers, Scheduling, Registers, Tops
  <1> QED BY <1>1, <1>4, <1>6, <1>7, <1>8, <1>9, <1>10, <1>11, StillMove

LEMMA AloneAbortState ==
    ASSUME Alone, RegistryInv, AloneInv, AbortState(Exec) PROVE AloneInv'
  <1>1. Doing(Exec, "abortState") /\ slot' = slot /\ wait' = wait /\ gen' = gen /\ st' = st
        /\ held' = held /\ current' = current /\ set' = set
    BY DEF AbortState, tcb, host, registry
  <1>2. PICK t \in Tasks : Arg(Exec) = <<t>>
    BY <1>1, TopSound, ArgTask DEF OfTask
  <1>3. Continue(Exec, IF st[t] \in {"preparing", "pending"}
                         THEN <<Op("cancelActive", <<t>>), Op("abortCas", <<t, st[t]>>)>>
                         ELSE <<>>)
    BY <1>2 DEF AbortState
  <1>4. \A u \in Tasks : ~Clears(u)
    BY <1>1, ClearsBy
  <1>5. st[t] # "suspended" /\ st[t] \in TaskStates
    BY <1>1, <1>2, TopSound DEF Sound, RegistryInv, Types
  <1>6. "abortState" \notin Suspending \cup Scheduling
    BY DEF Suspending, Committers, Scheduling, Registers
  <1>7. CASE st[t] \in {"preparing", "pending"}
    <2>1. PICK o, p : o = Op("cancelActive", <<t>>) /\ p = Op("abortCas", <<t, st[t]>>)
      OBVIOUS
    <2>2. o \in Below /\ o.op = "cancelActive" /\ o.arg = <<t>>
      BY <2>1, MadeOps DEF OfTask, Op
    <2>3. p \in Below /\ p.op = "abortCas" /\ p.arg = <<t, st[t]>>
      BY <1>5, <2>1, MadeOps DEF Op
    <2>4. Becomes({o, p}, o)
      BY <1>1, <1>3, <1>7, <2>1, <2>2, <2>3, Moves
    <2>5. Clears(t)'
      <3>1. Doing(Exec, "cancelActive")' /\ Arg(Exec)' = <<t>>
        BY <2>2, <2>4, TopAfter
      <3> QED BY <3>1 DEF Clears
    <2>6. Sound(o)' /\ Sound(p)'
      BY <1>1, <1>5, <2>2, <2>3, <2>5 DEF Sound, Scheduling, Torn
    <2>7. \A u \in Tasks : Finishing(Head(todo[Exec]), u) => Finishing(p, u)
      BY <1>1, <1>2, <2>3, TopSound DEF Finishing
    <2>8. o.op \notin Registers \cup Tops /\ p.op \notin Registers \cup Tops
      BY <2>2, <2>3 DEF Registers, Tops, Committers
    <2> QED BY <1>1, <1>4, <1>6, <2>2, <2>3, <2>4, <2>6, <2>7, <2>8, StillMove
  <1>8. CASE st[t] \notin {"preparing", "pending"}
    <2>1. Becomes({}, NoTask)
      BY <1>1, <1>3, <1>8, Moves
    <2>2. \A u \in Tasks : st[u] \in Sleepy => ~Finishing(Head(todo[Exec]), u)
      BY <1>1, <1>2, <1>5, <1>8, TopSound DEF Finishing, Sleepy
    <2> QED BY <1>1, <1>4, <1>6, <2>1, <2>2, StillMove
  <1> QED BY <1>7, <1>8

LEMMA AloneCancelActive ==
    ASSUME Alone, RegistryInv, AloneInv, CancelActive(Exec) PROVE AloneInv'
  <1>1. Doing(Exec, "cancelActive") /\ slot' = slot /\ wait' = wait /\ gen' = gen /\ st' = st
        /\ held' = held /\ current' = current
        /\ HelpOr(Exec, Arg(Exec)[1], <<>>, <<Op("cancelWait", Arg(Exec))>>)
    BY DEF CancelActive, tcb, host
  <1>2. PICK t \in Tasks : Arg(Exec) = <<t>>
    BY <1>1, TopSound, ArgTask DEF OfTask
  <1>3. PICK o : o = Op("cancelWait", <<t>>)
    OBVIOUS
  <1>4. o \in Below /\ o.op = "cancelWait" /\ o.arg = <<t>>
    BY <1>3, MadeOps DEF OfTask, Op
  <1>5. ~Doing(Exec, "helpCommit")
    BY <1>1 DEF Doing
  <1>6. Continue(Exec, <<o>>) /\ set' = set
    BY <1>1, <1>2, <1>3, <1>5, NobodyToHelp
  <1>7. Becomes({o}, o)
    BY <1>1, <1>4, <1>6, Moves
  <1>8. \A u \in Tasks : Clears(u) => Torn(u)'
    <2>1. Doing(Exec, "cancelWait")' /\ Arg(Exec)' = <<t>>
      BY <1>4, <1>7, TopAfter
    <2>2. \A u \in Tasks : Clears(u) => u = t
      BY <1>1, <1>2 DEF Clears, Doing
    <2> QED BY <2>1, <2>2 DEF Clears, Torn
  <1>9. Sound(o)'
    <2>1. st[t] # "suspended"
      BY <1>1, <1>2, TopSound DEF Sound
    <2> QED BY <1>1, <1>4, <2>1 DEF Sound, Scheduling
  <1>10. \A u \in Tasks : ~Finishing(Head(todo[Exec]), u)
    BY <1>1, TopSound DEF Finishing
  <1>11. "cancelActive" \notin Scheduling /\ o.op \notin Registers \cup Tops /\ o.op \in Suspending
    BY <1>4 DEF Suspending, Committers, Scheduling, Registers, Tops
  <1> QED BY <1>1, <1>4, <1>6, <1>7, <1>8, <1>9, <1>10, <1>11, StillMove

\* A schedule that was meant for the current generation goes on to the state.
LEMMA AloneSchedule ==
    ASSUME Alone, RegistryInv, AloneInv, TrySchedule(Exec) \/ ScheduleLoop(Exec) PROVE AloneInv'
  <1>1. PICK name \in {"schedule", "scheduleLoop"} :
          /\ Doing(Exec, name)
          /\ name = "schedule" => TrySchedule(Exec)
          /\ name = "scheduleLoop" => ScheduleLoop(Exec)
    BY DEF TrySchedule, ScheduleLoop
  <1>2. slot' = slot /\ wait' = wait /\ gen' = gen /\ st' = st /\ held' = held /\ current' = current
    BY DEF TrySchedule, ScheduleLoop, tcb, host, registry
  <1>3. Arg(Exec) \in Tasks \X Int
    BY <1>1, TopSound, ArgEpoch DEF OfEpoch
  <1>4. PICK t \in Tasks, g \in Int : Arg(Exec) = <<t, g>>
    BY <1>3
  <1>5. ~Doing(Exec, "helpCommit") /\ Arg(Exec)[1] = t /\ Arg(Exec)[2] = g
    BY <1>1, <1>4 DEF Doing
  <1>6. PICK next \in {"scheduleLoop", "scheduleState"} :
          /\ set' = set
          /\ \/ Continue(Exec, <<Op(next, <<t, g>>)>>)
             \/ gen[t] # g /\ Continue(Exec, <<>>)
    <2>1. CASE name = "schedule"
      <3>1. set' = set /\ Continue(Exec, IF gen[t] = g THEN <<Op("scheduleLoop", <<t, g>>)>> ELSE <<>>)
        BY <1>1, <1>4, <1>5, <2>1 DEF TrySchedule, registry
      <3> QED BY <3>1
    <2>2. CASE name = "scheduleLoop"
      <3>1. HelpOr(Exec, t, <<Op("scheduleLoop", Arg(Exec))>>, <<Op("scheduleState", Arg(Exec))>>)
        BY <1>1, <1>5, <2>2 DEF ScheduleLoop
      <3>2. set' = set /\ Continue(Exec, <<Op("scheduleState", <<t, g>>)>>)
        BY <1>4, <1>5, <3>1, NobodyToHelp
      <3> QED BY <3>2
    <2> QED BY <2>1, <2>2
  <1>7. \A u \in Tasks : ~Clears(u)
    BY <1>1, ClearsBy
  <1>8. \A u \in Tasks : ~Finishing(Head(todo[Exec]), u)
    BY <1>1, TopSound DEF Finishing
  <1>9. name \notin Suspending /\ name \notin {"helpCommit", "unregister"}
    BY DEF Suspending, Committers, Registers
  <1>10. \A u \in Tasks : Woken(u) => u = t /\ g = gen[t]
    <2> SUFFICES ASSUME NEW u \in Tasks, Woken(u) PROVE u = t /\ g = gen[t]
      OBVIOUS
    <2>1. Arg(Exec) = <<u, gen[u]>>
      BY <1>5, NoneWon DEF Woken
    <2> QED BY <1>4, <2>1
  <1>11. CASE Continue(Exec, <<Op(next, <<t, g>>)>>)
    <2>1. PICK o : o = Op(next, <<t, g>>)
      OBVIOUS
    <2>2. o \in Below /\ o.op = next /\ o.arg = <<t, g>> /\ next \in Scheduling
      BY <2>1, MadeOps DEF OfEpoch, Op, Scheduling
    <2>3. Becomes({o}, o)
      BY <1>1, <1>11, <2>1, <2>2, Moves
    <2>4. Live(t) = {}
      <3>1. Torn(t)
        BY <1>1, <1>5, TopSound DEF Sound, Scheduling
      <3> QED BY <1>1, <3>1, ClearsBy
    <2>5. Live(t)' = {}
      BY <1>2, <2>4 DEF Live
    <2>6. Sound(o)'
      BY <2>2, <2>5 DEF Sound, Torn, Scheduling
    <2>7. \A u \in Tasks : Woken(u) => Asleep(u)'
      <3>1. \A n : Doing(Exec, n)' <=> n = next
        BY <2>2, <2>3, TopAfter
      <3>2. Arg(Exec)' = <<t, g>>
        BY <2>2, <2>3, TopAfter
      <3>3. g = gen[t] => Woken(t)'
        BY <1>2, <2>2, <3>1, <3>2 DEF Woken
      <3> QED BY <1>10, <3>3 DEF Asleep
    <2>8. o.op \notin Registers \cup Tops
      BY <2>2 DEF Registers, Tops, Committers
    <2> QED BY <1>1, <1>2, <1>6, <1>7, <1>8, <1>9, <2>2, <2>3, <2>6, <2>7, <2>8, StillMove
  <1>12. CASE gen[t] # g /\ Continue(Exec, <<>>)
    <2>1. Becomes({}, NoTask)
      BY <1>1, <1>12, Moves
    <2>2. \A u \in Tasks : ~Woken(u)
      BY <1>10, <1>12
    <2> QED BY <1>1, <1>2, <1>6, <1>7, <1>8, <1>9, <2>1, <2>2, StillMove
  <1> QED BY <1>6, <1>11, <1>12

-----------------------------------------------------------------------------
(* The steps that store the state of a task.                               *)

\* What a step of the topmost operation name may do to the state of u.
Stored(u, name) ==
    /\ st'[u] = "suspended" => st[u] = "suspended" \/ (name = "commitState" /\ Live(u) # {})
    /\ st'[u] = "suspended" /\ Woken(u) => Live(u) # {}
    /\ st'[u] = "running" => st[u] = "running" \/ name = "abortCas"
    /\ st[u] \in Sleepy /\ st'[u] \notin Sleepy => Live(u) = {} \/ Clears(u)'
    /\ st'[u] \in Sleepy => st[u] \in Sleepy

\* The step, which changes no registration.
Stores(name, N) ==
    /\ slot' = slot /\ set' = set /\ wait' = wait /\ current' = current
    /\ \A u \in Tasks :
        /\ Stored(u, name) /\ held'[u] \in SUBSET held[u]
        /\ Live(u) # {} => Epoch(u)' = Epoch(u)
        /\ st'[u] \in Sleepy /\ Finishing(Head(todo[Exec]), u) => \E p \in N : Finishing(p, u)

LEMMA StoreMove ==
    ASSUME Alone, RegistryInv, AloneInv, NEW name, NEW N, NEW fst,
           name \notin {"helpCommit", "cancelActive", "cancelWait", "release"},
           Yields(name, N, fst), Stores(name, N)
    PROVE  AloneInv'
  <1> USE DEF Stores
  <1>1. ~Doing(Exec, "helpCommit")
    BY DEF Doing, Yields
  <1>2. \A u \in Tasks : st'[u] = "suspended" => Live(u) # {} \/ Woken(u)'
    BY DEF AloneInv, Data, Asleep, Stored
  <1>3. Data' /\ \A u : Live(u)' = Live(u)
    BY <1>1, <1>2, StillData
  <1>4. \A u \in Tasks : Torn(u) => Torn(u)'
    BY <1>3, ClearsBy DEF Torn, Yields
  <1>5. Proceeds(name, N)
    BY <1>3, <1>4 DEF Proceeds, Torn, Stored
  <1> QED BY <1>3, <1>5, MoveInv

\* No generation is taken back before or after the step.
LEMMA SameEpoch ==
    ASSUME Alone, RegistryInv, AloneInv, NEW name, Doing(Exec, name), name # "unregister",
           NEW N, NEW fst, Becomes(N, fst), N = {} \/ fst.op # "unregister"
    PROVE  \A t : Epoch(t) = gen[t] /\ Epoch(t)' = gen'[t]
  <1>1. ~Doing(Exec, "unregister")
    BY DEF Doing
  <1>2. ~Doing(Exec, "unregister")'
    BY NewTop DEF Tops
  <1> QED BY <1>1, <1>2, EpochIs

\* Who wakes a task that has no registration left.
LEMMA WokenBy ==
    ASSUME NEW name, Doing(Exec, name), name \notin Scheduling \cup {"helpCommit"}
    PROVE  \A t : ~Woken(t)
  BY DEF Woken, Committing, Doing

LEMMA AloneCommitState ==
    ASSUME Alone, RegistryInv, AloneInv, CommitState(Exec) PROVE AloneInv'
  <1>1. Doing(Exec, "commitState") /\ slot' = slot /\ wait' = wait /\ gen' = gen
        /\ held' = held /\ current' = current /\ set' = set
    BY DEF CommitState, host, registry
  <1>2. PICK t \in Tasks : Arg(Exec) = <<t>>
    BY <1>1, TopSound, ArgTask DEF OfTask
  <1>3. st[t] \in {"preparing", "pending"} /\ Live(t) # {} /\ st \in [Tasks -> TaskStates]
    BY <1>1, <1>2 DEF AloneInv, StackInv, TopInv, Committers, RegistryInv, Types
  <1>4. \A u \in Tasks : ~Woken(u) /\ ~Finishing(Head(todo[Exec]), u)
    BY <1>1, TopSound, WokenBy DEF Finishing, Scheduling
  <1>5. CASE st[t] = "preparing"
    <2>1. st' = [st EXCEPT ![t] = "suspended"] /\ Continue(Exec, <<>>)
      BY <1>2, <1>5 DEF CommitState
    <2>2. Becomes({}, NoTask)
      BY <1>1, <2>1, Moves
    <2>3. \A u \in Tasks : Epoch(u)' = Epoch(u)
      BY <1>1, <2>2, SameEpoch
    <2>4. \A u \in Tasks : Stored(u, "commitState") /\ held'[u] \in SUBSET held[u]
      BY <1>1, <1>3, <1>4, <1>5, <2>1 DEF Stored, Sleepy
    <2>5. Yields("commitState", {}, NoTask) /\ Stores("commitState", {})
      BY <1>1, <1>4, <2>2, <2>3, <2>4 DEF Yields, Stores
    <2> QED BY <2>5, StoreMove
  <1>6. CASE st[t] = "pending"
    <2>1. st' = [st EXCEPT ![t] = "queued"]
          /\ Continue(Exec, <<Op("cancelActive", <<t>>), Op("publish", <<t, gen[t]>>)>>)
      BY <1>2, <1>6 DEF CommitState, Claim, AfterPendingClaim
    <2>2. PICK o, p : o = Op("cancelActive", <<t>>) /\ p = Op("publish", <<t, gen[t]>>)
      OBVIOUS
    <2>3. o \in Below /\ o.op = "cancelActive" /\ o.arg = <<t>>
      BY <2>2, MadeOps DEF OfTask, Op
    <2>4. p \in Below /\ p.op = "publish"
      BY <2>2, MadeOps DEF OfEpoch, Op, RegistryInv, Types
    <2>5. Becomes({o, p}, o)
      BY <1>1, <2>1, <2>2, <2>3, <2>4, Moves
    <2>6. Doing(Exec, "cancelActive")' /\ Arg(Exec)' = <<t>>
      BY <2>3, <2>5, TopAfter
    <2>7. Clears(t)'
      BY <2>6 DEF Clears
    <2>8. st'[t] = "queued" /\ \A u \in Tasks : u # t => st'[u] = st[u]
      BY <1>3, <2>1
    <2>9. Sound(o)' /\ Sound(p)'
      BY <2>2, <2>3, <2>8, HarmlessSound DEF Sound, Scheduling, Harmless
    <2>10. \A u \in Tasks : Epoch(u)' = Epoch(u)
      BY <1>1, <2>3, <2>5, SameEpoch
    <2>11. /\ o.op \in Suspending /\ o.op \notin Registers \cup Tops
           /\ p.op \in Suspending /\ p.op \notin Registers \cup Tops
      BY <2>3, <2>4 DEF Suspending, Registers, Tops, Committers
    <2>12. \A u \in Tasks : Stored(u, "commitState") /\ held'[u] \in SUBSET held[u]
      BY <1>1, <1>4, <2>7, <2>8 DEF Stored, Sleepy
    <2>13. Yields("commitState", {o, p}, o) /\ Stores("commitState", {o, p})
      BY <1>1, <1>4, <2>3, <2>4, <2>5, <2>9, <2>10, <2>11, <2>12 DEF Yields, Stores
    <2> QED BY <2>13, StoreMove
  <1> QED BY <1>3, <1>5, <1>6

\* The winner of a single wait has its task scheduled.
LEMMA AloneScheduleState ==
    ASSUME Alone, RegistryInv, AloneInv, ScheduleState(Exec) PROVE AloneInv'
  <1>1. Doing(Exec, "scheduleState") /\ slot' = slot /\ wait' = wait /\ gen' = gen
        /\ held' = held /\ current' = current /\ set' = set
    BY DEF ScheduleState, host, registry
  <1>2. Arg(Exec) \in Tasks \X Int
    BY <1>1, TopSound, ArgEpoch DEF OfEpoch
  <1>3. PICK t \in Tasks, g \in Int : Arg(Exec) = <<t, g>>
    BY <1>2
  <1>4. Arg(Exec)[1] = t /\ Arg(Exec)[2] = g
    BY <1>3
  <1>5. Live(t) = {}
    <2>1. Torn(t)
      BY <1>1, <1>4, TopSound DEF Sound, Scheduling
    <2> QED BY <1>1, <2>1, ClearsBy
  <1>6. st \in [Tasks -> TaskStates]
    BY DEF RegistryInv, Types
  <1>7. \A u \in Tasks : ~Finishing(Head(todo[Exec]), u)
    BY <1>1, TopSound DEF Finishing
  <1>8. \A u \in Tasks : Woken(u) => u = t /\ g = gen[t]
    <2> SUFFICES ASSUME NEW u \in Tasks, Woken(u) PROVE u = t /\ g = gen[t]
      OBVIOUS
    <2>1. ~Doing(Exec, "helpCommit")
      BY <1>1 DEF Doing
    <2>2. Arg(Exec) = <<u, gen[u]>>
      BY <2>1, NoneWon DEF Woken
    <2> QED BY <1>3, <2>2
  <1>9. st[t] = "suspended" => g = gen[t]
    BY <1>5, <1>8 DEF AloneInv, Data, Asleep
  <1>10. PICK v : /\ st' = [st EXCEPT ![t] = v]
                  /\ v = IF st[t] = "preparing" THEN "pending"
                         ELSE IF st[t] = "suspended" THEN "queued" ELSE st[t]
    <2>1. st[t] = "preparing" => st' = [st EXCEPT ![t] = "pending"]
      BY <1>4 DEF ScheduleState
    <2>2. st[t] = "suspended" => st' = [st EXCEPT ![t] = "queued"]
      BY <1>4, <1>9 DEF ScheduleState, Claim
    <2>3. st[t] \notin {"preparing", "suspended"} => st' = [st EXCEPT ![t] = st[t]]
      BY <1>4, <1>6 DEF ScheduleState
    <2> QED BY <2>1, <2>2, <2>3
  <1>11. st'[t] = v /\ \A u \in Tasks : u # t => st'[u] = st[u]
    BY <1>6, <1>10
  <1>12. \A u \in Tasks : Stored(u, "scheduleState") /\ held'[u] \in SUBSET held[u]
    <2>1. Stored(t, "scheduleState")
      BY <1>5, <1>10, <1>11 DEF Stored, Sleepy
    <2>2. \A u \in Tasks : u # t => Stored(u, "scheduleState")
      BY <1>8, <1>11 DEF Stored
    <2> QED BY <1>1, <2>1, <2>2
  <1>13. Continue(Exec, <<Op("publish", <<t, g>>)>>) \/ Continue(Exec, <<>>)
    BY <1>4, <1>9 DEF ScheduleState
  <1>14. PICK o : o = Op("publish", <<t, g>>)
    OBVIOUS
  <1>15. o \in Below /\ o.op = "publish" /\ Sound(o)' /\ o.op \notin Registers \cup Tops
    BY <1>14, MadeOps, HarmlessSound DEF OfEpoch, Op, Harmless, Registers, Tops, Committers
  <1>16. "scheduleState" \notin Suspending
    BY DEF Suspending, Committers, Registers
  <1>17. CASE Continue(Exec, <<o>>)
    <2>1. Becomes({o}, o)
      BY <1>1, <1>15, <1>17, Moves
    <2>2. \A u \in Tasks : Epoch(u)' = Epoch(u)
      BY <1>1, <1>15, <2>1, SameEpoch
    <2>3. Yields("scheduleState", {o}, o) /\ Stores("scheduleState", {o})
      BY <1>1, <1>7, <1>12, <1>15, <1>16, <2>1, <2>2 DEF Yields, Stores
    <2> QED BY <2>3, StoreMove
  <1>18. CASE Continue(Exec, <<>>)
    <2>1. Becomes({}, NoTask)
      BY <1>1, <1>18, Moves
    <2>2. \A u \in Tasks : Epoch(u)' = Epoch(u)
      BY <1>1, <2>1, SameEpoch
    <2>3. Yields("scheduleState", {}, NoTask) /\ Stores("scheduleState", {})
      BY <1>1, <1>7, <1>12, <2>1, <2>2 DEF Yields, Stores
    <2> QED BY <2>3, StoreMove
  <1> QED BY <1>13, <1>14, <1>17, <1>18

\* A rollback ends when the task runs again.
LEMMA AloneAbortCas ==
    ASSUME Alone, RegistryInv, AloneInv, AbortCas(Exec) PROVE AloneInv'
  <1>1. Doing(Exec, "abortCas") /\ slot' = slot /\ wait' = wait /\ gen' = gen
        /\ held' = held /\ current' = current /\ set' = set
    BY DEF AbortCas, host, registry
  <1>2. Arg(Exec) \in Tasks \X TaskStates
    BY <1>1, TopSound, ArgState
  <1>3. PICK t \in Tasks, v \in TaskStates : Arg(Exec) = <<t, v>>
    BY <1>2
  <1>4. Arg(Exec)[1] = t /\ Arg(Exec)[2] = v
    BY <1>3
  <1>5. Live(t) = {} /\ st[t] # "suspended"
    <2>1. Torn(t) /\ st[t] # "suspended"
      BY <1>1, <1>4, TopSound DEF Sound, Scheduling
    <2> QED BY <1>1, <2>1, ClearsBy
  <1>6. st \in [Tasks -> TaskStates]
    BY DEF RegistryInv, Types
  <1>7. \A u \in Tasks : ~Woken(u) /\ (Finishing(Head(todo[Exec]), u) => u = t)
    BY <1>1, <1>4, TopSound, WokenBy DEF Finishing, Scheduling
  <1>8. CASE st[t] = v
    <2>1. st' = [st EXCEPT ![t] = "running"] /\ Continue(Exec, <<>>)
      BY <1>4, <1>8 DEF AbortCas
    <2>2. Becomes({}, NoTask)
      BY <1>1, <2>1, Moves
    <2>3. \A u \in Tasks : Epoch(u)' = Epoch(u)
      BY <1>1, <2>2, SameEpoch
    <2>4. st'[t] = "running" /\ \A u \in Tasks : u # t => st'[u] = st[u]
      BY <1>6, <2>1
    <2>5. \A u \in Tasks : Stored(u, "abortCas") /\ held'[u] \in SUBSET held[u]
      BY <1>1, <1>5, <1>7, <2>4 DEF Stored, Sleepy
    <2>6. st'[t] \notin Sleepy
      BY <2>4 DEF Sleepy
    <2>7. Yields("abortCas", {}, NoTask) /\ Stores("abortCas", {})
      BY <1>1, <1>7, <2>2, <2>3, <2>5, <2>6 DEF Yields, Stores
    <2> QED BY <2>7, StoreMove
  <1>9. CASE st[t] # v
    <2>1. st' = st /\ Continue(Exec, <<Op("abort", <<t>>)>>)
      BY <1>4, <1>9 DEF AbortCas
    <2>2. PICK o : o = Op("abort", <<t>>)
      OBVIOUS
    <2>3. o \in Below /\ o.op = "abort" /\ o.arg = <<t>>
      BY <2>2, MadeOps DEF OfTask, Op
    <2>4. Becomes({o}, o)
      BY <1>1, <2>1, <2>2, <2>3, Moves
    <2>5. Sound(o)'
      BY <1>5, <2>1, <2>3 DEF Sound, Scheduling
    <2>6. \A u \in Tasks : Finishing(Head(todo[Exec]), u) => Finishing(o, u)
      BY <1>7, <2>3 DEF Finishing
    <2>7. "abortCas" \notin Suspending \cup Scheduling /\ o.op \notin Registers \cup Tops
      BY <2>3 DEF Suspending, Committers, Scheduling, Registers, Tops
    <2>8. \A u \in Tasks : ~Clears(u)
      BY <1>1, ClearsBy
    <2> QED BY <1>1, <2>1, <2>3, <2>4, <2>5, <2>6, <2>7, <2>8, StillMove
  <1> QED BY <1>8, <1>9

\* The start of a task, and its cancellation while it is cold.
LEMMA AloneStart ==
    ASSUME Alone, RegistryInv, AloneInv, Start(Exec) PROVE AloneInv'
  <1>1. Doing(Exec, "start") /\ slot' = slot /\ wait' = wait
        /\ held' = held /\ current' = current /\ set' = set
    BY DEF Start, host, registry
  <1>2. PICK t \in Tasks : Arg(Exec) = <<t>>
    BY <1>1, TopSound, ArgTask DEF OfTask
  <1>3. st \in [Tasks -> TaskStates] /\ gen \in [Tasks -> Int]
    BY DEF RegistryInv, Types
  <1>4. \A u \in Tasks : ~Woken(u) /\ ~Finishing(Head(todo[Exec]), u)
    BY <1>1, TopSound, WokenBy DEF Finishing, Scheduling
  <1>5. "start" \notin Suspending \cup Scheduling
    BY DEF Suspending, Committers, Scheduling, Registers
  <1>6. CASE st[t] = "created"
    <2>1. /\ st' = [st EXCEPT ![t] = "queued"] /\ gen' = [gen EXCEPT ![t] = 1]
          /\ Continue(Exec, <<Op("publish", <<t, 1>>)>>)
      BY <1>2, <1>6 DEF Start
    <2>2. PICK o : o = Op("publish", <<t, 1>>)
      OBVIOUS
    <2>3. o \in Below /\ o.op = "publish" /\ Sound(o)' /\ o.op \notin Registers \cup Tops
      BY <2>2, MadeOps, HarmlessSound DEF OfEpoch, Op, Harmless, Registers, Tops, Committers
    <2>4. Becomes({o}, o)
      BY <1>1, <2>1, <2>2, <2>3, Moves
    <2>5. Live(t) = {}
      <3>1. Torn(t)
        BY <1>6 DEF AloneInv, Quiet, Sleepy
      <3> QED BY <1>1, <3>1, ClearsBy
    <2>6. \A u \in Tasks : Live(u) # {} => Epoch(u)' = Epoch(u)
      <3>1. \A u \in Tasks : Epoch(u) = gen[u] /\ Epoch(u)' = gen'[u]
        BY <1>1, <2>3, <2>4, SameEpoch
      <3>2. \A u \in Tasks : u # t => gen'[u] = gen[u]
        BY <1>3, <2>1
      <3> QED BY <2>5, <3>1, <3>2
    <2>7. st'[t] = "queued" /\ \A u \in Tasks : u # t => st'[u] = st[u]
      BY <1>3, <2>1
    <2>8. \A u \in Tasks : Stored(u, "start") /\ held'[u] \in SUBSET held[u]
      BY <1>1, <1>4, <2>5, <2>7 DEF Stored, Sleepy
    <2>9. Yields("start", {o}, o) /\ Stores("start", {o})
      BY <1>1, <1>4, <1>5, <2>3, <2>4, <2>6, <2>8 DEF Yields, Stores
    <2> QED BY <2>9, StoreMove
  <1>7. CASE st[t] # "created"
    <2>1. st' = st /\ gen' = gen /\ Continue(Exec, <<>>)
      BY <1>2, <1>7 DEF Start
    <2>2. Becomes({}, NoTask)
      BY <1>1, <2>1, Moves
    <2>3. \A u \in Tasks : ~Clears(u)
      BY <1>1, ClearsBy
    <2> QED BY <1>1, <1>4, <1>5, <2>1, <2>2, <2>3, StillMove
  <1> QED BY <1>6, <1>7

LEMMA AloneColdCancel ==
    ASSUME Alone, RegistryInv, AloneInv, ColdCancel(Exec) PROVE AloneInv'
  <1>1. Doing(Exec, "coldCancel") /\ slot' = slot /\ wait' = wait /\ gen' = gen
        /\ held' = held /\ current' = current /\ set' = set
    BY DEF ColdCancel, host, registry
  <1>2. PICK t \in Tasks : Arg(Exec) = <<t>>
    BY <1>1, TopSound, ArgTask DEF OfTask
  <1>3. st \in [Tasks -> TaskStates]
    BY DEF RegistryInv, Types
  <1>4. \A u \in Tasks : ~Woken(u) /\ ~Finishing(Head(todo[Exec]), u)
    BY <1>1, TopSound, WokenBy DEF Finishing, Scheduling
  <1>5. "coldCancel" \notin Suspending \cup Scheduling
    BY DEF Suspending, Committers, Scheduling, Registers
  <1>6. CASE st[t] = "created"
    <2>1. /\ st' = [st EXCEPT ![t] = "finalizing"]
          /\ Continue(Exec, <<Op("terminal", <<t, "canceled">>)>>)
      BY <1>2, <1>6 DEF ColdCancel
    <2>2. PICK o : o = Op("terminal", <<t, "canceled">>)
      OBVIOUS
    <2>3. o \in Below /\ o.op = "terminal" /\ Sound(o)' /\ o.op \notin Registers \cup Tops
      BY <2>2, MadeOps, HarmlessSound DEF Terminal, Op, Harmless, Registers, Tops, Committers
    <2>4. Becomes({o}, o)
      BY <1>1, <2>1, <2>2, <2>3, Moves
    <2>5. \A u \in Tasks : Epoch(u)' = Epoch(u)
      BY <1>1, <2>3, <2>4, SameEpoch
    <2>6. st'[t] = "finalizing" /\ \A u \in Tasks : u # t => st'[u] = st[u]
      BY <1>3, <2>1
    <2>7. \A u \in Tasks : Stored(u, "coldCancel") /\ held'[u] \in SUBSET held[u]
      BY <1>1, <1>4, <1>6, <2>6 DEF Stored, Sleepy
    <2>8. Yields("coldCancel", {o}, o) /\ Stores("coldCancel", {o})
      BY <1>1, <1>4, <1>5, <2>3, <2>4, <2>5, <2>7 DEF Yields, Stores
    <2> QED BY <2>8, StoreMove
  <1>7. CASE st[t] # "created"
    <2>1. st' = st /\ Continue(Exec, <<>>)
      BY <1>2, <1>7 DEF ColdCancel
    <2>2. Becomes({}, NoTask)
      BY <1>1, <2>1, Moves
    <2>3. \A u \in Tasks : ~Clears(u)
      BY <1>1, ClearsBy
    <2> QED BY <1>1, <1>4, <1>5, <2>1, <2>2, <2>3, StillMove
  <1> QED BY <1>6, <1>7

\* A wake that found its task on the way to sleep.
LEMMA AlonePendWake ==
    ASSUME Alone, RegistryInv, AloneInv, PendWake(Exec) PROVE AloneInv'
  <1>1. Doing(Exec, "pendWake") /\ slot' = slot /\ wait' = wait /\ gen' = gen
        /\ held' = held /\ current' = current /\ set' = set /\ Continue(Exec, <<>>)
    BY DEF PendWake, host, registry
  <1>2. PICK t \in Tasks : Arg(Exec) = <<t>>
    BY <1>1, TopSound, ArgTask DEF OfTask
  <1>3. st \in [Tasks -> TaskStates]
    BY DEF RegistryInv, Types
  <1>4. \A u \in Tasks : ~Woken(u) /\ ~Finishing(Head(todo[Exec]), u)
    BY <1>1, TopSound, WokenBy DEF Finishing, Scheduling
  <1>5. /\ \A u \in Tasks : u # t => st'[u] = st[u]
        /\ st'[t] = IF st[t] = "preparing" THEN "pending" ELSE st[t]
    BY <1>2, <1>3 DEF PendWake
  <1>6. Becomes({}, NoTask)
    BY <1>1, Moves
  <1>7. \A u \in Tasks : Epoch(u)' = Epoch(u)
    BY <1>1, <1>6, SameEpoch
  <1>8. \A u \in Tasks : Stored(u, "pendWake") /\ held'[u] \in SUBSET held[u]
    BY <1>1, <1>4, <1>5 DEF Stored, Sleepy
  <1>9. Yields("pendWake", {}, NoTask) /\ Stores("pendWake", {})
    BY <1>1, <1>4, <1>6, <1>7, <1>8 DEF Yields, Stores
  <1> QED BY <1>9, StoreMove

\* The generation of a task that was not running is advanced and taken back.
LEMMA AloneRegister ==
    ASSUME Alone, RegistryInv, AloneInv, SuspendAndRegister(Exec) PROVE AloneInv'
  <1>1. Doing(Exec, "register") /\ slot' = slot /\ wait' = wait
        /\ held' = held /\ current' = current /\ set' = set
    BY DEF SuspendAndRegister, host, registry
  <1>2. PICK t \in Tasks : Arg(Exec) = <<t>>
    BY <1>1, TopSound, ArgTask DEF OfTask
  <1>3. st[t] # "running"
    BY <1>1, <1>2, TopSound DEF Sound
  <1>4. /\ gen' = [gen EXCEPT ![t] = @ + 1] /\ st' = st /\ lock' = Exec
        /\ Continue(Exec, <<Op("unregister", <<t>>)>>)
    BY <1>2, <1>3 DEF SuspendAndRegister
  <1>5. PICK o : o = Op("unregister", <<t>>)
    OBVIOUS
  <1>6. o \in Below /\ o.op = "unregister" /\ o.arg = <<t>> /\ Sound(o)'
    BY <1>5, MadeOps, HarmlessSound DEF OfTask, Op, Harmless
  <1>7. Becomes({o}, o)
    BY <1>1, <1>4, <1>5, <1>6, Moves
  <1>8. \A u \in Tasks : ~Woken(u) /\ ~Finishing(Head(todo[Exec]), u)
    BY <1>1, TopSound, WokenBy DEF Finishing, Scheduling
  <1>9. (\A n : Doing(Exec, n)' <=> n = "unregister") /\ Arg(Exec)' = <<t>>
    BY <1>6, <1>7, TopAfter
  <1>10. \A u \in Tasks : Epoch(u)' = Epoch(u)
    <2>1. \A u \in Tasks : Epoch(u) = gen[u]
      BY <1>1, EpochIs DEF Doing
    <2>2. \A u : Undone(u)' <=> u = t
      BY <1>9, AloneActors DEF Undone
    <2>3. gen \in [Tasks -> Int]
      BY DEF RegistryInv, Types
    <2> QED BY <1>4, <2>1, <2>2, <2>3 DEF Epoch
  <1>11. TopInv'
    BY <1>4, <1>9 DEF TopInv, Committers
  <1>12. \A u \in Tasks : Stored(u, "register") /\ held'[u] \in SUBSET held[u]
    BY <1>1, <1>4, <1>8 DEF Stored
  <1>13. o.op \in Suspending
    BY <1>6 DEF Suspending, Registers
  <1>14. Yields("register", {o}, o) /\ Stores("register", {o})
    BY <1>1, <1>6, <1>7, <1>8, <1>10, <1>11, <1>12, <1>13 DEF Yields, Stores
  <1> QED BY <1>14, StoreMove

LEMMA AloneTakeBack ==
    ASSUME Alone, RegistryInv, AloneInv, TakeBackGeneration(Exec) PROVE AloneInv'
  <1>1. Doing(Exec, "unregister") /\ slot' = slot /\ wait' = wait /\ st' = st
        /\ held' = held /\ current' = current /\ set' = set /\ Continue(Exec, <<>>)
    BY DEF TakeBackGeneration, host, registry
  <1>2. PICK t \in Tasks : Arg(Exec) = <<t>>
    BY <1>1, TopSound, ArgTask DEF OfTask
  <1>3. gen' = [gen EXCEPT ![t] = @ - 1]
    BY <1>2 DEF TakeBackGeneration
  <1>4. Becomes({}, NoTask)
    BY <1>1, Moves
  <1>5. \A u \in Tasks : ~Woken(u) /\ ~Finishing(Head(todo[Exec]), u)
    BY <1>1, TopSound, WokenBy DEF Finishing, Scheduling
  <1>6. \A u \in Tasks : Epoch(u)' = Epoch(u)
    <2>1. ~Doing(Exec, "unregister")'
      BY <1>4, NewTop DEF Tops
    <2>2. \A u \in Tasks : Epoch(u)' = gen'[u]
      BY <2>1, EpochIs
    <2>3. \A u : Undone(u) <=> u = t
      BY <1>1, <1>2, AloneActors DEF Undone
    <2>4. gen \in [Tasks -> Int]
      BY DEF RegistryInv, Types
    <2> QED BY <1>3, <2>2, <2>3, <2>4 DEF Epoch
  <1>7. \A u \in Tasks : Stored(u, "unregister") /\ held'[u] \in SUBSET held[u]
    BY <1>1, <1>5 DEF Stored
  <1>8. Yields("unregister", {}, NoTask) /\ Stores("unregister", {})
    BY <1>1, <1>4, <1>5, <1>6, <1>7 DEF Yields, Stores
  <1> QED BY <1>8, StoreMove

\* The end of a task takes its registrations away.
LEMMA AloneTerminal ==
    ASSUME Alone, RegistryInv, AloneInv, PublishTerminal(Exec) PROVE AloneInv'
  <1>1. Doing(Exec, "terminal") /\ slot' = slot /\ wait' = wait /\ gen' = gen
        /\ current' = current /\ set' = set
    BY DEF PublishTerminal, registry
  <1>2. Arg(Exec) \in Tasks \X Terminal
    BY <1>1, TopSound, ArgState
  <1>3. PICK t \in Tasks, v \in Terminal : Arg(Exec) = <<t, v>>
    BY <1>2
  <1>4. /\ st' = [st EXCEPT ![t] = v] /\ held' = [held EXCEPT ![t] = {}]
        /\ Continue(Exec, <<Op("cancelActive", <<t>>), Op("reap", <<t>>)>>)
    BY <1>3 DEF PublishTerminal
  <1>5. st \in [Tasks -> TaskStates] /\ held \in [Tasks -> SUBSET (Slots \X Nat)]
    BY DEF RegistryInv, Types
  <1>6. PICK o, p : o = Op("cancelActive", <<t>>) /\ p = Op("reap", <<t>>)
    OBVIOUS
  <1>7. o \in Below /\ o.op = "cancelActive" /\ o.arg = <<t>>
    BY <1>6, MadeOps DEF OfTask, Op
  <1>8. p \in Below /\ p.op = "reap"
    BY <1>6, MadeOps DEF OfTask, Op
  <1>9. Becomes({o, p}, o)
    BY <1>1, <1>4, <1>6, <1>7, <1>8, Moves
  <1>10. Doing(Exec, "cancelActive")' /\ Arg(Exec)' = <<t>>
    BY <1>7, <1>9, TopAfter
  <1>11. Clears(t)'
    BY <1>10 DEF Clears
  <1>12. st'[t] = v /\ \A u \in Tasks : u # t => st'[u] = st[u]
    BY <1>4, <1>5
  <1>13. v \notin Sleepy /\ v \notin {"suspended", "running"}
    BY DEF Terminal, Sleepy
  <1>14. Sound(o)' /\ Sound(p)'
    BY <1>6, <1>7, <1>12, <1>13, HarmlessSound DEF Sound, Scheduling, Harmless
  <1>15. \A u \in Tasks : Epoch(u)' = Epoch(u)
    BY <1>1, <1>7, <1>9, SameEpoch
  <1>16. "terminal" \notin Suspending /\ o.op \notin Registers \cup Tops /\ p.op \notin Registers \cup Tops
    BY <1>7, <1>8 DEF Suspending, Registers, Tops, Committers
  <1>17. \A u \in Tasks : ~Woken(u) /\ ~Finishing(Head(todo[Exec]), u)
    BY <1>1, TopSound, WokenBy DEF Finishing, Scheduling
  <1>18. \A u \in Tasks : Stored(u, "terminal") /\ held'[u] \in SUBSET held[u]
    <2>1. Stored(t, "terminal")
      BY <1>11, <1>12, <1>13 DEF Stored
    <2>2. \A u \in Tasks : u # t => Stored(u, "terminal")
      BY <1>12, <1>17 DEF Stored
    <2>3. \A u \in Tasks : held'[u] \in SUBSET held[u]
      BY <1>4, <1>5
    <2> QED BY <2>1, <2>2, <2>3
  <1>19. Yields("terminal", {o, p}, o) /\ Stores("terminal", {o, p})
    BY <1>1, <1>7, <1>8, <1>9, <1>14, <1>15, <1>16, <1>17, <1>18 DEF Yields, Stores
  <1> QED BY <1>19, StoreMove

-----------------------------------------------------------------------------
(* The steps that take registrations away.                                 *)

\* The slots in G leave, with every registration of a task or with none.
Sweeps(G) ==
    /\ current' = current /\ gen' = gen /\ held' = held /\ G \subseteq Slots /\ Recycle(G)
    /\ \A i \in Sets :
        /\ set'[i].task = set[i].task /\ set'[i].epoch = set[i].epoch
        /\ set'[i].winner = set[i].winner /\ set'[i].state # "wonPending"
    /\ \A u \in Tasks :
        /\ IF Live(u) \cap G = {} THEN wait'[u] = wait[u]
                                  ELSE Live(u) \subseteq G /\ wait'[u].slot = NoSlot
        /\ \/ st'[u] = st[u]
           \/ st[u] = "suspended" /\ st'[u] = "queued" /\ Live(u) \subseteq G
        /\ st'[u] = "suspended" /\ Live(u) \cap G # {} => Woken(u)'
        /\ Clears(u) => Torn(u)'

\* The registrations of a task after the step.
LEMMA SweptLive ==
    ASSUME RegistryInv, NEW G, Sweeps(G)
    PROVE  /\ \A s \in Slots \ G : slot'[s] = slot[s]
           /\ \A s \in G : /\ ~slot'[s].active /\ ~slot'[s].inUse /\ slot'[s].set = NoSet
                           /\ slot'[s].gen = slot[s].gen + 1
                                \/ (slot'[s].gen = slot[s].gen /\ slot'[s].retired)
                           /\ slot[s].gen \in Nat
           /\ \A t \in Tasks : Live(t)' = Live(t) \ G
  <1>1. slot \in [Slots -> SlotRec] /\ G \subseteq Slots /\ Recycle(G)
    BY DEF RegistryInv, Types, Sweeps
  <1>2. \A s \in Slots \ G : slot'[s] = slot[s]
    BY <1>1 DEF Recycle
  <1>4. \A s \in G : slot[s].gen \in Nat
    BY <1>1 DEF SlotRec
  <1>3. \A s \in G : /\ ~slot'[s].active /\ ~slot'[s].inUse /\ slot'[s].set = NoSet
                     /\ slot'[s].gen = slot[s].gen + 1
                          \/ (slot'[s].gen = slot[s].gen /\ slot'[s].retired)
    <2>2. \A s \in G : slot'[s] = Recycled(slot[s])
      BY <1>1 DEF Recycle
    <2>3. \A s \in G :
            \/ slot'[s] = FreeSlot(slot[s].gen, TRUE)
            \/ slot'[s] = FreeSlot(slot[s].gen + 1, FALSE)
      BY <2>2 DEF Recycled
    <2>4. ASSUME NEW s \in G
          PROVE  /\ ~slot'[s].active /\ ~slot'[s].inUse /\ slot'[s].set = NoSet
                 /\ slot'[s].gen = slot[s].gen + 1
                      \/ (slot'[s].gen = slot[s].gen /\ slot'[s].retired)
      <3>1. CASE slot'[s] = FreeSlot(slot[s].gen, TRUE)
        BY <3>1 DEF FreeSlot
      <3>2. CASE slot'[s] = FreeSlot(slot[s].gen + 1, FALSE)
        <4>1. PICK g \in Nat : g = slot[s].gen
          BY <1>4
        <4>2. slot'[s].gen = g + 1 /\ ~slot'[s].active /\ ~slot'[s].inUse /\ slot'[s].set = NoSet
          BY <3>2, <4>1 DEF FreeSlot
        <4> QED BY <4>1, <4>2
      <3> QED BY <2>3, <3>1, <3>2
    <2> QED BY <2>4
  <1>5. ASSUME NEW t \in Tasks PROVE Live(t)' = Live(t) \ G
    BY <1>1, <1>2, <1>3 DEF Live
  <1> QED BY <1>2, <1>3, <1>4, <1>5

LEMMA SweptData ==
    ASSUME Alone, RegistryInv, AloneInv, ~Doing(Exec, "helpCommit"),
           \A u \in Tasks : ~Woken(u) /\ Epoch(u)' = Epoch(u), NEW G, Sweeps(G)
    PROVE  Data'
  <1>1. /\ \A s \in Slots \ G : slot'[s] = slot[s]
        /\ \A s \in G : /\ ~slot'[s].active /\ ~slot'[s].inUse /\ slot'[s].set = NoSet
                        /\ slot'[s].gen = slot[s].gen + 1
                             \/ (slot'[s].gen = slot[s].gen /\ slot'[s].retired)
                        /\ slot[s].gen \in Nat
        /\ \A t \in Tasks : Live(t)' = Live(t) \ G
    BY SweptLive
  <1>2. Data /\ slot \in [Slots -> SlotRec]
    BY DEF AloneInv, RegistryInv, Types
  <1>3. Group'
    BY <1>1, <1>2, SetOf DEF Data, Group, Sweeps
  <1>4. Decided'
    BY <1>1, <1>2, SetOf DEF Data, Decided, Sweeps
  <1>5. Won'
    BY DEF Won, Sweeps
  <1>6. ASSUME NEW t \in Tasks PROVE Linked(t)'
    <2>1. Linked(t) /\ ~Committing(t)
      BY <1>2 DEF Data, Committing
    <2>2. CASE Live(t) \cap G = {}
      <3>0. Live(t)' = Live(t)
        BY <1>1, <2>2
      <3>1. wait'[t] = wait[t] /\ Live(t)' = Live(t)
        BY <2>2, <3>0 DEF Sweeps
      <3>2. \A s \in Live(t) : s \in Slots \ G
        BY <2>2 DEF Live
      <3>3. \A s \in Live(t) : slot'[s] = slot[s]
        BY <1>1, <3>2
      <3> QED BY <2>1, <3>1, <3>3 DEF Linked
    <2>3. CASE Live(t) \cap G # {}
      <3>1. wait'[t].slot = NoSlot /\ Live(t)' = {}
        BY <1>1, <2>3 DEF Sweeps
      <3> QED BY <3>1 DEF Linked
    <2> QED BY <2>2, <2>3
  <1>7. ASSUME NEW t \in Tasks PROVE Asleep(t)'
    <2> SUFFICES ASSUME st'[t] = "suspended" PROVE Live(t)' # {} \/ Woken(t)'
      BY DEF Asleep
    <2>1. st[t] = "suspended"
      BY DEF Sweeps
    <2>2. Live(t) # {}
      BY <1>2, <2>1 DEF Data, Asleep
    <2>3. Live(t) \cap G # {} => Woken(t)'
      BY DEF Sweeps
    <2> QED BY <1>1, <2>2, <2>3
  <1>8. ASSUME NEW t \in Tasks PROVE Held(t)'
    <2> SUFFICES ASSUME NEW tok \in held[t]
                 PROVE  \/ tok[2] < slot'[tok[1]].gen
                        \/ /\ tok[2] = slot'[tok[1]].gen
                           /\ IF slot'[tok[1]].inUse THEN slot'[tok[1]].task = t
                                                     ELSE slot'[tok[1]].retired
      BY DEF Held, Sweeps
    <2>1. tok \in Slots \X Nat
      BY DEF RegistryInv, Types
    <2>2. PICK s \in Slots, g \in Nat : tok = <<s, g>>
      BY <2>1
    <2>3. tok[1] = s /\ tok[2] = g
      BY <2>2
    <2>4. \/ g < slot[s].gen
          \/ g = slot[s].gen /\ IF slot[s].inUse THEN slot[s].task = t ELSE slot[s].retired
      BY <1>2, <2>3 DEF Data, Held
    <2>5. CASE s \notin G
      <3>1. slot'[s] = slot[s]
        BY <1>1, <2>5
      <3> QED BY <2>3, <2>4, <3>1
    <2>6. CASE s \in G
      BY <1>1, <2>3, <2>4, <2>6
    <2> QED BY <2>5, <2>6
  <1> QED BY <1>3, <1>4, <1>5, <1>6, <1>7, <1>8 DEF Data

Sweepers == {"wake", "release", "cancelWait", "cancelArbiter", "reap"}

LEMMA SweepMove ==
    ASSUME Alone, RegistryInv, AloneInv, NEW name \in Sweepers, NEW N, NEW fst,
           Yields(name, N, fst), NEW G, Sweeps(G)
    PROVE  AloneInv'
  <1>1. Doing(Exec, name) /\ name \notin Scheduling \cup {"helpCommit", "unregister"}
        /\ ~Doing(Exec, "helpCommit")
    BY DEF Yields, Sweepers, Scheduling, Doing
  <1>2. N = {} \/ fst.op # "unregister"
    BY DEF Yields, Registers, Sweepers
  <1>3. \A u \in Tasks : Epoch(u)' = Epoch(u)
    <2>1. Becomes(N, fst) /\ gen' = gen
      BY DEF Yields, Sweeps
    <2> QED BY <1>1, <1>2, <2>1, SameEpoch
  <1>4. \A u \in Tasks : ~Woken(u)
    BY <1>1, WokenBy
  <1>5. Data'
    BY <1>1, <1>3, <1>4, SweptData
  <1>6. /\ \A s \in Slots : slot'[s].active => slot'[s] = slot[s]
        /\ \A t \in Tasks : Live(t) \subseteq G => Live(t)' = {}
    BY SweptLive
  <1>7. ASSUME NEW t \in Tasks
        PROVE  /\ Torn(t) => Torn(t)'
               /\ st[t] \in Sleepy /\ st'[t] \notin Sleepy => Torn(t)'
               /\ st'[t] = "suspended" => st[t] = "suspended"
               /\ st'[t] = "running" => st[t] = "running"
               /\ st'[t] \in Sleepy => st[t] \in Sleepy
    <2>1. Torn(t) => Torn(t)'
      BY <1>6 DEF Torn, Sweeps
    <2>2. st'[t] = st[t] \/ (st[t] = "suspended" /\ st'[t] = "queued" /\ Live(t)' = {})
      BY <1>6 DEF Sweeps
    <2> QED BY <2>1, <2>2 DEF Torn, Sleepy
  <1>8. \A t \in Tasks : ~Finishing(Head(todo[Exec]), t)
    BY <1>1 DEF Finishing, Doing, Sweepers
  <1>9. current' = current
    BY DEF Sweeps
  <1>10. Proceeds(name, N)
    BY <1>6, <1>7, <1>8, <1>9 DEF Proceeds
  <1> QED BY <1>5, <1>10, MoveInv

\* The outcome slots that a terminal task leaves behind.
LEMMA AloneReap ==
    ASSUME Alone, RegistryInv, AloneInv, ReapTerminalOutcomes(Exec) PROVE AloneInv'
  <1>1. Doing(Exec, "reap") /\ Continue(Exec, <<>>) /\ gen' = gen /\ st' = st /\ held' = held
        /\ wait' = wait /\ current' = current
    BY DEF ReapTerminalOutcomes, tcb, host
  <1>2. PICK G : G = Unread(Arg(Exec)[1])
    OBVIOUS
  <1>3. Recycle(G) /\ G \subseteq Slots /\ \A s \in G : ~slot[s].active
    BY <1>2 DEF ReapTerminalOutcomes, Recycle, Unread
  <1>4. \A i \in Sets : set'[i] = set[i] \/ \E n : set'[i] = Dropped(set[i], n)
    BY <1>2 DEF ReapTerminalOutcomes
  <1>5. \A i \in Sets : set[i].state # "wonPending"
    BY <1>1, NoneWon DEF Doing
  <1>6. ASSUME NEW i \in Sets
        PROVE  /\ set'[i].task = set[i].task /\ set'[i].epoch = set[i].epoch
               /\ set'[i].winner = set[i].winner /\ set'[i].state # "wonPending"
    <2>1. set[i] \in SetRec
      BY DEF RegistryInv, Types
    <2>2. \A n : /\ Dropped(set[i], n).task = set[i].task
                 /\ Dropped(set[i], n).epoch = set[i].epoch
                 /\ Dropped(set[i], n).winner = set[i].winner
                 /\ Dropped(set[i], n).state \in {set[i].state, "freed"}
      BY <2>1 DEF Dropped, SetRec
    <2> QED BY <1>4, <1>5, <2>2
  <1>7. \A t \in Tasks : ~Clears(t) /\ Live(t) \cap G = {}
    BY <1>1, <1>3, ClearsBy DEF Live
  <1>8. Sweeps(G)
    BY <1>1, <1>3, <1>6, <1>7 DEF Sweeps
  <1>9. Yields("reap", {}, NoTask)
    BY <1>1, Moves DEF Yields
  <1> QED BY <1>8, <1>9, SweepMove DEF Sweepers

\* What a task links to can still win.
LEMMA LinkIsLive ==
    ASSUME RegistryInv, AloneInv, ~Doing(Exec, "helpCommit"), NEW t \in Tasks, wait[t].slot # NoSlot
    PROVE  /\ wait[t].slot \in Live(t) /\ Names(wait[t].slot, wait[t].gen)
           /\ slot[wait[t].slot].set = wait[t].set /\ wait[t].gen \in Nat
  <1>1. ~Committing(t) /\ Linked(t)
    BY DEF Committing, AloneInv, Data
  <1>2. wait[t].slot \in Live(t) /\ slot[wait[t].slot].gen = wait[t].gen
        /\ slot[wait[t].slot].set = wait[t].set
    BY <1>1 DEF Linked
  <1>3. slot[wait[t].slot].inUse
    BY <1>2 DEF Live, RegistryInv, SlotInv
  <1>4. wait[t] \in WaitRec
    BY DEF RegistryInv, Types
  <1> QED BY <1>2, <1>3, <1>4 DEF Names, WaitRec

\* A registration that can win is of the current suspension of its task: it is the
\* only one or it belongs to a set that is still open.
LEMMA LiveSlot ==
    ASSUME Alone, RegistryInv, AloneInv, ~Doing(Exec, "helpCommit"), ~Doing(Exec, "unregister"),
           NEW s \in Slots, slot[s].active, NEW t, t = slot[s].task
    PROVE  /\ t \in Tasks /\ s \in Live(t) /\ slot[s].epoch = gen[t]
           /\ wait[t].set = slot[s].set /\ wait[t].slot \in Live(t)
           /\ slot[s].set = NoSet => Live(t) = {s}
           /\ slot[s].set # NoSet =>
                /\ slot[s].set \in Sets /\ set[slot[s].set].task = t
                /\ set[slot[s].set].epoch = gen[t] /\ set[slot[s].set].state = "waiting"
                /\ ActiveMembers(slot[s].set) = Live(t) /\ CanCancelGroup(slot[s].set)
                /\ Selectable(s, slot[s].set)
  <1>1. t \in Tasks /\ s \in Live(t)
    BY DEF RegistryInv, SlotInv, Live
  <1>2. Linked(t) /\ Group
    BY <1>1 DEF AloneInv, Data
  <1>3. Epoch(t) = gen[t]
    BY EpochIs
  <1>4. /\ wait[t].slot \in Live(t)
        /\ \A r \in Live(t) : /\ slot[r].epoch = gen[t] /\ slot[r].set = wait[t].set
                              /\ slot[r].set = NoSet => r = wait[t].slot
    BY <1>1, <1>2, <1>3 DEF Linked
  <1>5. slot[s].set = NoSet => Live(t) = {s}
    <2> SUFFICES ASSUME slot[s].set = NoSet PROVE Live(t) = {s}
      OBVIOUS
    <2>1. \A r \in Live(t) : slot[r].set = NoSet /\ r = wait[t].slot
      BY <1>1, <1>4
    <2> QED BY <1>1, <2>1
  <1>6. ASSUME slot[s].set # NoSet
        PROVE  /\ slot[s].set \in Sets /\ set[slot[s].set].task = t
               /\ set[slot[s].set].epoch = gen[t] /\ set[slot[s].set].state = "waiting"
               /\ ActiveMembers(slot[s].set) = Live(t) /\ CanCancelGroup(slot[s].set)
               /\ Selectable(s, slot[s].set)
    <2>1. slot[s].set \in Sets
      BY <1>6, SetOf DEF RegistryInv, Types
    <2>2. set[slot[s].set].task = t /\ set[slot[s].set].epoch = gen[t]
      BY <1>1, <1>2, <1>4, <1>6 DEF Group
    <2>3. set[slot[s].set].state = "waiting"
      BY <1>6 DEF RegistryInv, SlotInv
    <2>4. \A r \in ActiveMembers(slot[s].set) : r \in Slots /\ slot[r].active /\ slot[r].task = t
      BY <1>2, <1>6, <2>2 DEF ActiveMembers, Group
    <2>5. \A r \in Live(t) : r \in Slots /\ slot[r].active /\ slot[r].set = slot[s].set
      BY <1>1, <1>4 DEF Live
    <2>6. ActiveMembers(slot[s].set) = Live(t)
      BY <2>4, <2>5 DEF ActiveMembers, Live
    <2>7. CanCancelGroup(slot[s].set)
      BY <1>1, <1>4, <2>2, <2>3, <2>6 DEF CanCancelGroup
    <2>8. Selectable(s, slot[s].set)
      BY <1>1, <1>4, <2>2 DEF Selectable
    <2> QED BY <2>1, <2>2, <2>3, <2>6, <2>7, <2>8
  <1> QED BY <1>1, <1>4, <1>5, <1>6

\* A set loses references.
LEMMA DroppedKeeps ==
    ASSUME NEW x \in SetRec, x.state # "wonPending", NEW n
    PROVE  /\ Dropped(x, n).task = x.task /\ Dropped(x, n).epoch = x.epoch
           /\ Dropped(x, n).winner = x.winner /\ Dropped(x, n).state # "wonPending"
  BY DEF Dropped, SetRec

\* Nothing leaves.
LEMMA NothingSwept ==
    ASSUME RegistryInv, AloneInv, ~Doing(Exec, "helpCommit"),
           slot' = slot, set' = set, wait' = wait, gen' = gen, st' = st, held' = held,
           current' = current, \A u \in Tasks : Clears(u) => Torn(u)'
    PROVE  Sweeps({})
  <1>1. slot \in [Slots -> SlotRec]
    BY DEF RegistryInv, Types
  <1>2. Recycle({})
    BY <1>1 DEF Recycle
  <1>3. \A i \in Sets : set[i].state # "wonPending"
    BY NoneWon
  <1> QED BY <1>2, <1>3 DEF Sweeps

\* A wait on one source ends.
LEMMA SingleSwept ==
    ASSUME Alone, RegistryInv, AloneInv, ~Doing(Exec, "helpCommit"), ~Doing(Exec, "unregister"),
           NEW s \in Slots, slot[s].active, slot[s].set = NoSet, NEW t, t = slot[s].task,
           slot' = [slot EXCEPT ![s] = Recycled(@)],
           wait' = [wait EXCEPT ![t].slot = NoSlot, ![t].gen = 0],
           set' = set, gen' = gen, st' = st, held' = held, current' = current,
           \A u \in Tasks : Clears(u) => u = t,
           st[t] = "suspended" => Woken(t)'
    PROVE  Sweeps({s}) /\ Live(t)' = {}
  <1>1. t \in Tasks /\ Live(t) = {s}
    BY LiveSlot
  <1>2. slot \in [Slots -> SlotRec] /\ wait \in [Tasks -> WaitRec]
    BY DEF RegistryInv, Types
  <1>3. PICK r : r = Recycled(slot[s])
    OBVIOUS
  <1>4. slot' = [slot EXCEPT ![s] = r]
    BY <1>3
  <1>5. slot' = [x \in Slots |-> IF x \in {s} THEN Recycled(slot[x]) ELSE slot[x]]
    BY <1>2, <1>3, <1>4
  <1>6. Recycle({s})
    BY <1>5 DEF Recycle
  <1>7. ~r.active
    BY <1>2, <1>3, RecycledSlot
  <1>8. Live(t)' = {}
    BY <1>1, <1>2, <1>4, <1>7 DEF Live
  <1>9. \A u \in Tasks : u # t => Live(u) \cap {s} = {}
    BY DEF Live
  <1>10. wait'[t].slot = NoSlot /\ \A u \in Tasks : u # t => wait'[u] = wait[u]
    BY <1>1, <1>2 DEF WaitRec
  <1>11. \A i \in Sets : set[i].state # "wonPending"
    BY NoneWon
  <1>12. Torn(t)'
    BY <1>8 DEF Torn
  <1>13. ASSUME NEW u \in Tasks
         PROVE  /\ IF Live(u) \cap {s} = {} THEN wait'[u] = wait[u]
                                  ELSE Live(u) \subseteq {s} /\ wait'[u].slot = NoSlot
                /\ st'[u] = "suspended" /\ Live(u) \cap {s} # {} => Woken(u)'
                /\ Clears(u) => Torn(u)'
    BY <1>1, <1>9, <1>10, <1>12
  <1>14. Sweeps({s})
    BY <1>6, <1>11, <1>13 DEF Sweeps
  <1> QED BY <1>8, <1>14

\* A whole group is cancelled.
LEMMA GroupSwept ==
    ASSUME Alone, RegistryInv, AloneInv, ~Doing(Exec, "helpCommit"), ~Doing(Exec, "unregister"),
           NEW s \in Slots, slot[s].active, slot[s].set # NoSet, NEW t, t = slot[s].task,
           CancelGroup(slot[s].set), gen' = gen, held' = held, current' = current,
           \A u \in Tasks : Clears(u) => u = t
    PROVE  /\ Sweeps(Live(t))
           /\ AfterCancelGroup(slot[s].set) =
                IF st[t] = "suspended" THEN <<Op("publish", <<t, gen[t]>>)>> ELSE <<>>
  <1>1. PICK i : i = slot[s].set
    OBVIOUS
  <1>2. /\ t \in Tasks /\ s \in Live(t) /\ i \in Sets /\ set[i].task = t /\ wait[t].set = i
        /\ ActiveMembers(i) = Live(t) /\ CanCancelGroup(i)
    BY <1>1, LiveSlot
  <1>3. /\ slot \in [Slots -> SlotRec] /\ wait \in [Tasks -> WaitRec] /\ st \in [Tasks -> TaskStates]
        /\ set \in [Sets -> SetRec]
    BY DEF RegistryInv, Types
  <1>4. PICK n : n = Cardinality(ActiveMembers(i))
    OBVIOUS
  <1>5. /\ Recycle(Live(t))
        /\ set' = [set EXCEPT ![i] = Dropped([@ EXCEPT !.state = "inactive"], n)]
        /\ wait' = [wait EXCEPT ![t] = ClearedLink(t, i)]
        /\ st' = [st EXCEPT ![t] = IF @ = "suspended" THEN "queued" ELSE @]
    BY <1>1, <1>2, <1>4 DEF CancelGroup, Recycle
  <1>6. Live(t) \subseteq Slots
    BY DEF Live
  <1>7. ASSUME NEW j \in Sets
        PROVE  /\ set'[j].task = set[j].task /\ set'[j].epoch = set[j].epoch
               /\ set'[j].winner = set[j].winner /\ set'[j].state # "wonPending"
    <2>1. CASE j # i
      BY <1>3, <1>5, <2>1, NoneWon
    <2>2. CASE j = i
      <3>1. PICK x : x = [set[i] EXCEPT !.state = "inactive"]
        OBVIOUS
      <3>2. set[i] \in SetRec
        BY <1>2, <1>3
      <3>3. x \in SetRec /\ x.state = "inactive" /\ x.task = set[i].task /\ x.epoch = set[i].epoch
            /\ x.winner = set[i].winner
        BY <3>1, <3>2 DEF SetRec
      <3>4. set'[i] = Dropped(x, n)
        BY <1>2, <1>3, <1>5, <3>1
      <3> QED BY <2>2, <3>3, <3>4, DroppedKeeps
    <2> QED BY <2>1, <2>2
  <1>8. wait'[t].slot = NoSlot /\ \A u \in Tasks : u # t => wait'[u] = wait[u]
    <2>1. wait' = [wait EXCEPT ![t] = NoWait]
      BY <1>2, <1>5 DEF ClearedLink
    <2> QED BY <1>2, <1>3, <2>1 DEF NoWait
  <1>9. \A u \in Tasks : u # t => Live(u) \cap Live(t) = {} /\ st'[u] = st[u]
    BY <1>3, <1>5 DEF Live
  <1>10. st'[t] = IF st[t] = "suspended" THEN "queued" ELSE st[t]
    BY <1>2, <1>3, <1>5
  <1>11. Torn(t)'
    <2>1. \A r \in Live(t) : slot'[r] = Recycled(slot[r])
      BY <1>5, <1>6 DEF Recycle
    <2>2. \A r \in Live(t) : ~slot'[r].active
      BY <1>3, <1>6, <2>1, RecycledSlot
    <2>3. \A r \in Slots : r \notin Live(t) => slot'[r] = slot[r]
      BY <1>5 DEF Recycle
    <2>4. Live(t)' = {}
      BY <2>2, <2>3 DEF Live
    <2> QED BY <2>4 DEF Torn
  <1>12. ASSUME NEW u \in Tasks
         PROVE  /\ IF Live(u) \cap Live(t) = {} THEN wait'[u] = wait[u]
                                  ELSE Live(u) \subseteq Live(t) /\ wait'[u].slot = NoSlot
                /\ \/ st'[u] = st[u]
                   \/ st[u] = "suspended" /\ st'[u] = "queued" /\ Live(u) \subseteq Live(t)
                /\ st'[u] = "suspended" /\ Live(u) \cap Live(t) # {} => Woken(u)'
                /\ Clears(u) => Torn(u)'
    <2>1. CASE u = t
      BY <1>2, <1>8, <1>10, <1>11, <2>1
    <2>2. CASE u # t
      BY <1>8, <1>9, <2>2
    <2> QED BY <2>1, <2>2
  <1>13. Sweeps(Live(t))
    BY <1>5, <1>6, <1>7, <1>12 DEF Sweeps
  <1>14. AfterCancelGroup(i) = IF st[t] = "suspended" THEN <<Op("publish", <<t, gen[t]>>)>> ELSE <<>>
    BY <1>2 DEF AfterCancelGroup
  <1> QED BY <1>1, <1>13, <1>14

\* A step that goes on with a publication, or with nothing.
LEMMA YieldsPublish ==
    ASSUME RegistryInv, AloneInv, NEW name \in Sweepers, Doing(Exec, name), NEW t \in Tasks,
           Continue(Exec, IF st[t] = "suspended" THEN <<Op("publish", <<t, gen[t]>>)>> ELSE <<>>)
    PROVE  \E N, fst : Yields(name, N, fst)
  <1>1. PICK o : o = Op("publish", <<t, gen[t]>>)
    OBVIOUS
  <1>2. gen[t] \in Int
    BY DEF RegistryInv, Types
  <1>3. o \in Below /\ o.op = "publish" /\ Sound(o)' /\ o.op \notin Registers \cup Tops
        /\ o.op \in Suspending
    BY <1>1, <1>2, MadeOps, HarmlessSound
       DEF OfEpoch, Op, Harmless, Registers, Tops, Committers, Suspending
  <1>4. CASE st[t] = "suspended"
    <2>1. Continue(Exec, <<o>>)
      BY <1>1, <1>4
    <2>2. Becomes({o}, o)
      BY <1>3, <2>1, Moves
    <2>3. Yields(name, {o}, o)
      BY <1>3, <2>2 DEF Yields
    <2> QED BY <2>3
  <1>5. CASE st[t] # "suspended"
    <2>1. Continue(Exec, <<>>)
      BY <1>5
    <2>2. Becomes({}, NoTask)
      BY <2>1, Moves
    <2>3. Yields(name, {}, NoTask)
      BY <2>2 DEF Yields
    <2> QED BY <2>3
  <1> QED BY <1>4, <1>5

LEMMA YieldsNothing ==
    ASSUME RegistryInv, NEW name, Doing(Exec, name), Continue(Exec, <<>>)
    PROVE  Yields(name, {}, NoTask)
  <1>1. Becomes({}, NoTask)
    BY Moves
  <1> QED BY <1>1 DEF Yields

\* A slot is released.
LEMMA AloneRelease ==
    ASSUME Alone, RegistryInv, AloneInv, Release(Exec) PROVE AloneInv'
  <1>1. /\ Doing(Exec, "release") /\ ~Doing(Exec, "helpCommit") /\ ~Doing(Exec, "unregister")
        /\ gen' = gen /\ held' = held /\ current' = current /\ "release" \in Sweepers
    BY DEF Release, host, Doing, Sweepers
  <1>2. Arg(Exec) \in Slots \X Nat
    BY <1>1, TopSound, ArgToken
  <1>3. PICK s \in Slots, g \in Nat : Arg(Exec) = <<s, g>>
    BY <1>2
  <1>4. Arg(Exec)[1] = s /\ Arg(Exec)[2] = g
    BY <1>3
  <1>5. slot \in [Slots -> SlotRec] /\ set \in [Sets -> SetRec] /\ SlotInv
    BY DEF RegistryInv, Types
  <1>6. \A u \in Tasks : Clears(u) => Names(s, g) /\ slot[s].active /\ slot[s].task = u
    <2> SUFFICES ASSUME NEW u \in Tasks, Clears(u)
                 PROVE  Names(s, g) /\ slot[s].active /\ slot[s].task = u
      OBVIOUS
    <2>1. wait[u].slot # NoSlot /\ Arg(Exec) = <<wait[u].slot, wait[u].gen>>
      BY <1>1 DEF Clears, Doing
    <2>2. wait[u].slot = s /\ wait[u].gen = g
      BY <1>3, <2>1
    <2>3. s \in Live(u) /\ Names(s, g)
      BY <1>1, <2>1, <2>2, LinkIsLive
    <2> QED BY <2>3 DEF Live
  <1>7. CASE ~Names(s, g) /\ Continue(Exec, <<>>) /\ UNCHANGED <<st, wait, slot, set>>
    <2>1. Sweeps({})
      BY <1>1, <1>6, <1>7, NothingSwept
    <2>2. Yields("release", {}, NoTask)
      BY <1>1, <1>7, YieldsNothing
    <2> QED BY <1>1, <2>1, <2>2, SweepMove
  <1>8. CASE /\ slot[s].set # NoSet /\ slot[s].active /\ CancelGroup(slot[s].set)
             /\ Continue(Exec, AfterCancelGroup(slot[s].set))
    <2>1. PICK t : t = slot[s].task
      OBVIOUS
    <2>2. t \in Tasks
      BY <1>1, <1>8, <2>1, LiveSlot
    <2>3. Sweeps(Live(t))
          /\ AfterCancelGroup(slot[s].set) =
               IF st[t] = "suspended" THEN <<Op("publish", <<t, gen[t]>>)>> ELSE <<>>
      BY <1>1, <1>6, <1>8, <2>1, GroupSwept
    <2>4. PICK N, fst : Yields("release", N, fst)
      BY <1>1, <1>8, <2>2, <2>3, YieldsPublish
    <2> QED BY <1>1, <2>3, <2>4, SweepMove
  <1>9. CASE /\ slot[s].set # NoSet /\ ~slot[s].active /\ CommitWinner(Exec, slot[s].set, <<>>)
             /\ slot' = [slot EXCEPT ![s] = Recycled(@)]
             /\ set' = [set EXCEPT ![slot[s].set] = Dropped(Committed(slot[s].set), 1)]
    <2>1. PICK i : i = slot[s].set
      OBVIOUS
    <2>2. i \in Sets /\ set[i].state # "wonPending"
      BY <1>1, <1>5, <1>9, <2>1, SetOf, NoneWon
    <2>3. Continue(Exec, <<>>) /\ wait' = wait /\ st' = st
      BY <1>9, <2>1, <2>2 DEF CommitWinner
    <2>4. set' = [set EXCEPT ![i] = Dropped(set[i], 1)]
      BY <1>9, <2>1, <2>2 DEF Committed
    <2>5. ASSUME NEW j \in Sets
          PROVE  /\ set'[j].task = set[j].task /\ set'[j].epoch = set[j].epoch
                 /\ set'[j].winner = set[j].winner /\ set'[j].state # "wonPending"
      <3>1. CASE j # i
        BY <1>1, <1>5, <2>4, <3>1, NoneWon
      <3>2. CASE j = i
        <4>1. set'[i] = Dropped(set[i], 1) /\ set[i] \in SetRec
          BY <1>5, <2>2, <2>4
        <4> QED BY <2>2, <3>2, <4>1, DroppedKeeps
      <3> QED BY <3>1, <3>2
    <2>6. Recycle({s})
      <3>1. PICK r : r = Recycled(slot[s])
        OBVIOUS
      <3>2. slot' = [slot EXCEPT ![s] = r]
        BY <1>9, <3>1
      <3>3. slot' = [x \in Slots |-> IF x \in {s} THEN Recycled(slot[x]) ELSE slot[x]]
        BY <1>5, <3>1, <3>2
      <3> QED BY <3>3 DEF Recycle
    <2>7. \A u \in Tasks : Live(u) \cap {s} = {} /\ ~Clears(u)
      BY <1>6, <1>9 DEF Live
    <2>8. Sweeps({s})
      BY <1>1, <2>3, <2>5, <2>6, <2>7 DEF Sweeps
    <2>9. Yields("release", {}, NoTask)
      BY <1>1, <2>3, YieldsNothing
    <2> QED BY <1>1, <2>8, <2>9, SweepMove
  <1>10. CASE /\ Names(s, g) /\ slot[s].set = NoSet /\ Continue(Exec, <<>>)
              /\ slot' = [slot EXCEPT ![s] = Recycled(@)]
              /\ wait' = [wait EXCEPT ![slot[s].task].slot = NoSlot, ![slot[s].task].gen = 0]
              /\ UNCHANGED <<st, set>>
    <2>1. PICK t : t = slot[s].task
      OBVIOUS
    <2>2. slot[s].active
      BY <1>5, <1>10 DEF Names, SlotInv
    <2>3. st[t] # "suspended"
      BY <1>1, <1>4, <1>10, <2>1, <2>2, TopSound DEF Sound
    <2>4. Sweeps({s})
      <3>1. wait' = [wait EXCEPT ![t].slot = NoSlot, ![t].gen = 0]
        BY <1>10, <2>1
      <3>2. slot' = [slot EXCEPT ![s] = Recycled(@)] /\ slot[s].set = NoSet /\ st' = st /\ set' = set
        BY <1>10
      <3>3. \A u \in Tasks : Clears(u) => u = t
        BY <1>6, <2>1
      <3> QED BY <1>1, <2>1, <2>2, <2>3, <3>1, <3>2, <3>3, SingleSwept
    <2>5. Yields("release", {}, NoTask)
      BY <1>1, <1>10, YieldsNothing
    <2> QED BY <1>1, <2>4, <2>5, SweepMove
  <1> QED BY <1>4, <1>7, <1>8, <1>9, <1>10 DEF Release

\* The wait of a task that will not sleep is torn down.
LEMMA AloneCancelWait ==
    ASSUME Alone, RegistryInv, AloneInv, CancelWait(Exec) PROVE AloneInv'
  <1>1. /\ Doing(Exec, "cancelWait") /\ ~Doing(Exec, "helpCommit") /\ ~Doing(Exec, "unregister")
        /\ gen' = gen /\ held' = held /\ current' = current /\ "cancelWait" \in Sweepers
    BY DEF CancelWait, host, Doing, Sweepers
  <1>2. PICK t \in Tasks : Arg(Exec) = <<t>>
    BY <1>1, TopSound, ArgTask DEF OfTask
  <1>3. PICK s, g : s = wait[t].slot /\ g = wait[t].gen
    OBVIOUS
  <1>4. \A u \in Tasks : Clears(u) => u = t
    BY <1>1, <1>2 DEF Clears, Doing
  <1>5. st[t] # "suspended"
    BY <1>1, <1>2, TopSound DEF Sound
  <1>6. s # NoSlot => /\ s \in Slots /\ slot[s].active /\ slot[s].task = t /\ Names(s, g)
                      /\ slot[s].set = wait[t].set /\ g \in Nat
    <2> SUFFICES ASSUME s # NoSlot
                 PROVE  /\ s \in Slots /\ slot[s].active /\ slot[s].task = t /\ Names(s, g)
                        /\ slot[s].set = wait[t].set /\ g \in Nat
      OBVIOUS
    <2>1. s \in Live(t) /\ Names(s, g) /\ slot[s].set = wait[t].set /\ g \in Nat
      BY <1>1, <1>3, LinkIsLive
    <2> QED BY <2>1 DEF Live
  <1>7. CASE s # NoSlot /\ slot[s].set # NoSet
    <2>1. CancelGroup(slot[s].set) /\ Continue(Exec, AfterCancelGroup(slot[s].set))
      BY <1>2, <1>3, <1>6, <1>7 DEF CancelWait
    <2>2. Sweeps(Live(t))
          /\ AfterCancelGroup(slot[s].set) =
               IF st[t] = "suspended" THEN <<Op("publish", <<t, gen[t]>>)>> ELSE <<>>
      BY <1>1, <1>4, <1>6, <1>7, <2>1, GroupSwept
    <2>3. PICK N, fst : Yields("cancelWait", N, fst)
      BY <1>1, <2>1, <2>2, YieldsPublish
    <2> QED BY <1>1, <2>2, <2>3, SweepMove
  <1>8. CASE s # NoSlot /\ slot[s].set = NoSet
    <2>1. UNCHANGED <<slot, set, wait, st>> /\ Continue(Exec, <<Op("release", <<s, g>>)>>)
      BY <1>2, <1>3, <1>6, <1>8 DEF CancelWait
    <2>2. PICK o : o = Op("release", <<s, g>>)
      OBVIOUS
    <2>3. o \in Below /\ o.op = "release" /\ o.arg = <<s, g>>
      BY <1>6, <1>8, <2>2, MadeOps DEF Op
    <2>4. Becomes({o}, o)
      BY <1>1, <2>1, <2>2, <2>3, Moves
    <2>5. Sound(o)'
      BY <1>5, <1>6, <1>8, <2>1, <2>3 DEF Sound, Scheduling
    <2>6. Torn(t)'
      <3>1. Doing(Exec, "release")' /\ Arg(Exec)' = <<s, g>>
        BY <2>3, <2>4, TopAfter
      <3>2. wait'[t].slot = s /\ wait'[t].gen = g /\ wait'[t].set = NoSet
        BY <1>3, <1>6, <1>8, <2>1
      <3>3. Clears(t)'
        BY <1>8, <3>1, <3>2 DEF Clears
      <3> QED BY <3>3 DEF Torn
    <2>7. Sweeps({})
      BY <1>1, <1>4, <2>1, <2>6, NothingSwept
    <2>8. o.op \in Suspending /\ o.op \notin Registers \cup Tops
      BY <2>3 DEF Suspending, Registers, Tops, Committers
    <2>9. Yields("cancelWait", {o}, o)
      BY <1>1, <2>3, <2>4, <2>5, <2>8 DEF Yields
    <2> QED BY <1>1, <2>7, <2>9, SweepMove
  <1>9. CASE s = NoSlot
    <2>1. UNCHANGED <<slot, set, wait, st>> /\ Continue(Exec, <<>>)
      <3>1. Arg(Exec)[1] = t /\ wait[t].slot = NoSlot
        BY <1>2, <1>3, <1>9
      <3> QED BY <3>1 DEF CancelWait
    <2>2. Torn(t)'
      <3>1. Linked(t) /\ Live(t) \subseteq Slots
        BY DEF AloneInv, Data, Live
      <3>2. Live(t) = {}
        BY <1>3, <1>9, <3>1, Finite DEF Linked, NoSlot
      <3>3. Live(t)' = {}
        BY <2>1, <3>2 DEF Live
      <3> QED BY <3>3 DEF Torn
    <2>3. Sweeps({})
      BY <1>1, <1>4, <2>1, <2>2, NothingSwept
    <2>4. Yields("cancelWait", {}, NoTask)
      BY <1>1, <2>1, YieldsNothing
    <2> QED BY <1>1, <2>3, <2>4, SweepMove
  <1> QED BY <1>7, <1>8, <1>9

\* The operations that replace the topmost one count on nothing.
LEMMA YieldsHarmless ==
    ASSUME RegistryInv, NEW name, Doing(Exec, name), name \notin Suspending,
           NEW op \in Harmless, op \notin Registers \cup Tops, NEW x, Op(op, x) \in Below \cup Above,
           Continue(Exec, <<Op(op, x)>>)
    PROVE  Yields(name, {Op(op, x)}, Op(op, x))
  <1>1. PICK o : o = Op(op, x)
    OBVIOUS
  <1>2. o \in Below \cup Above /\ o.op = op /\ Sound(o)' /\ Continue(Exec, <<o>>)
    BY <1>1, HarmlessSound DEF Op
  <1>3. Becomes({o}, o)
    BY <1>2, Moves
  <1>4. Yields(name, {o}, o)
    BY <1>2, <1>3 DEF Yields
  <1> QED BY <1>1, <1>4

\* The last critical section of a cancellation.
LEMMA AloneArbiter ==
    ASSUME Alone, RegistryInv, AloneInv, CancelArbiter(Exec) PROVE AloneInv'
  <1>1. /\ Doing(Exec, "cancelArbiter") /\ ~Doing(Exec, "helpCommit") /\ ~Doing(Exec, "unregister")
        /\ gen' = gen /\ held' = held /\ current' = current /\ "cancelArbiter" \in Sweepers
    BY DEF CancelArbiter, host, Doing, Sweepers
  <1>2. PICK t \in Tasks : Arg(Exec) = <<t>>
    BY <1>1, TopSound, ArgTask DEF OfTask
  <1>3. PICK s, g : s = wait[t].slot /\ g = wait[t].gen
    OBVIOUS
  <1>4. \A u \in Tasks : ~Clears(u) /\ ~Woken(u)
    BY <1>1, ClearsBy, WokenBy DEF Scheduling
  <1>5. s # NoSlot => /\ s \in Slots /\ slot[s].active /\ slot[s].task = t /\ g \in Nat
    <2> SUFFICES ASSUME s # NoSlot PROVE s \in Slots /\ slot[s].active /\ slot[s].task = t /\ g \in Nat
      OBVIOUS
    <2>1. s \in Live(t) /\ g \in Nat
      BY <1>1, <1>3, LinkIsLive
    <2> QED BY <2>1 DEF Live
  <1>6. "cancelArbiter" \notin Suspending
    BY DEF Suspending, Registers, Committers
  <1>7. {"pendWake", "coldCancel", "wake"} \subseteq Harmless
        /\ {"pendWake", "coldCancel", "wake"} \cap (Registers \cup Tops) = {}
    BY DEF Harmless, Registers, Tops, Committers
  <1>8. Op("pendWake", <<t>>) \in Below /\ Op("coldCancel", <<t>>) \in Below
    BY MadeOps DEF OfTask
  <1> DEFINE grouped == st[t] # "created" /\ s # NoSlot /\ slot[s].active /\ slot[s].set # NoSet
  <1>9. CASE grouped
    <2>1. CancelGroup(slot[s].set)
      BY <1>2, <1>3, <1>9 DEF CancelArbiter
    <2>2. Sweeps(Live(t))
          /\ AfterCancelGroup(slot[s].set) =
               IF st[t] = "suspended" THEN <<Op("publish", <<t, gen[t]>>)>> ELSE <<>>
      BY <1>1, <1>4, <1>5, <1>9, <2>1, GroupSwept
    <2>3. CASE st[t] = "preparing"
      <3>1. Continue(Exec, <<Op("pendWake", <<t>>)>>)
        BY <1>2, <2>3 DEF CancelArbiter
      <3>2. Yields("cancelArbiter", {Op("pendWake", <<t>>)}, Op("pendWake", <<t>>))
        BY <1>1, <1>6, <1>7, <1>8, <3>1, YieldsHarmless
      <3> QED BY <1>1, <2>2, <3>2, SweepMove
    <2>4. CASE st[t] # "preparing"
      <3>1. Continue(Exec, AfterCancelGroup(slot[s].set))
        BY <1>2, <1>3, <1>9, <2>4 DEF CancelArbiter
      <3>2. PICK N, fst : Yields("cancelArbiter", N, fst)
        BY <1>1, <2>2, <3>1, YieldsPublish
      <3> QED BY <1>1, <2>2, <3>2, SweepMove
    <2> QED BY <2>3, <2>4
  <1>10. CASE ~grouped
    <2>1. UNCHANGED <<slot, set, wait, st>>
          /\ Continue(Exec, IF st[t] = "preparing" THEN <<Op("pendWake", <<t>>)>> ELSE CancelUngrouped(t))
      BY <1>2, <1>3, <1>10 DEF CancelArbiter
    <2>2. Sweeps({})
      BY <1>1, <1>4, <2>1, NothingSwept
    <2>3. CASE st[t] = "preparing"
      <3>1. Yields("cancelArbiter", {Op("pendWake", <<t>>)}, Op("pendWake", <<t>>))
        BY <1>1, <1>6, <1>7, <1>8, <2>1, <2>3, YieldsHarmless
      <3> QED BY <1>1, <2>2, <3>1, SweepMove
    <2>4. CASE st[t] = "created"
      <3>1. Continue(Exec, <<Op("coldCancel", <<t>>)>>)
        BY <2>1, <2>4 DEF CancelUngrouped
      <3>2. Yields("cancelArbiter", {Op("coldCancel", <<t>>)}, Op("coldCancel", <<t>>))
        BY <1>1, <1>6, <1>7, <1>8, <3>1, YieldsHarmless
      <3> QED BY <1>1, <2>2, <3>2, SweepMove
    <2>5. CASE st[t] = "suspended"
      <3>1. s # NoSlot
        <4>1. Live(t) # {} /\ Linked(t) /\ Live(t) \subseteq Slots
          BY <1>4, <2>5 DEF AloneInv, Data, Asleep, Live
        <4> QED BY <1>3, <4>1, Finite DEF Linked, NoSlot
      <3>2. Continue(Exec, <<Op("wake", <<s, g, "keep">>)>>)
        BY <1>3, <2>1, <2>5, <3>1 DEF CancelUngrouped
      <3>3. Op("wake", <<s, g, "keep">>) \in Below
        BY <1>5, <3>1, MadeOps
      <3>4. Yields("cancelArbiter", {Op("wake", <<s, g, "keep">>)}, Op("wake", <<s, g, "keep">>))
        BY <1>1, <1>6, <1>7, <3>2, <3>3, YieldsHarmless
      <3> QED BY <1>1, <2>2, <3>4, SweepMove
    <2>6. CASE st[t] \notin {"preparing", "created", "suspended"}
      <3>1. Continue(Exec, <<>>)
        BY <2>1, <2>6 DEF CancelUngrouped
      <3>2. Yields("cancelArbiter", {}, NoTask)
        BY <1>1, <3>1, YieldsNothing
      <3> QED BY <1>1, <2>2, <3>2, SweepMove
    <2> QED BY <2>3, <2>4, <2>5, <2>6
  <1> QED BY <1>9, <1>10

-----------------------------------------------------------------------------
(* The steps by which a source wins.                                       *)

\* A source of a set wins: nobody of the set can win any more, and its commit
\* follows.
LEMMA WinData ==
    ASSUME Alone, RegistryInv, AloneInv, ~Doing(Exec, "helpCommit"), ~Doing(Exec, "unregister"),
           NEW s \in Slots, slot[s].active, slot[s].set # NoSet, NEW t, t = slot[s].task,
           NEW i, i = slot[s].set,
           set' = [set EXCEPT ![i] = WonSet(i, s)], slot' = Selected(i, s),
           wait' = wait, gen' = gen, st' = st, held' = held,
           ~Doing(Exec, "unregister")', Doing(Exec, "helpCommit")', Arg(Exec)' = <<i>>,
           \A u \in Tasks : ~Woken(u)
    PROVE  /\ Data' /\ Live(t)' = {}
           /\ \A u : u # t => Live(u)' = Live(u)
           /\ \A r \in Slots : slot'[r].active => slot'[r] = slot[r]
  <1>1. /\ t \in Tasks /\ i \in Sets /\ set[i].task = t /\ wait[t].set = i
        /\ set[i].state = "waiting" /\ ActiveMembers(i) = Live(t) /\ s \in Live(t)
    BY LiveSlot
  <1>2. slot \in [Slots -> SlotRec] /\ set \in [Sets -> SetRec] /\ SlotInv /\ Data
        /\ held \in [Tasks -> SUBSET (Slots \X Nat)]
    BY DEF RegistryInv, Types, AloneInv
  <1>3. PICK y : y = WonSet(i, s)
    OBVIOUS
  <1>4. /\ y.state = "wonPending" /\ y.winner = s /\ y.task = t /\ y.epoch = set[i].epoch
    <2>1. set[i] \in SetRec
      BY <1>1, <1>2
    <2> QED BY <1>1, <1>3, <2>1 DEF WonSet, Retained, SetRec
  <1>5. set'[i] = y /\ \A j \in Sets : j # i => set'[j] = set[j]
    BY <1>1, <1>2, <1>3
  <1>6. \A r \in Slots : slot'[r] = IF r \in Live(t)
           THEN [slot[r] EXCEPT !.active = FALSE, !.state = IF r = s THEN "won" ELSE "canceled"]
           ELSE slot[r]
    BY <1>1 DEF Selected
  <1>7. ASSUME NEW r \in Slots
        PROVE  /\ slot'[r].gen = slot[r].gen /\ slot'[r].inUse = slot[r].inUse
               /\ slot'[r].retired = slot[r].retired /\ slot'[r].set = slot[r].set
               /\ slot'[r].task = slot[r].task /\ slot'[r].epoch = slot[r].epoch
               /\ r \in Live(t) => ~slot'[r].active /\ (slot'[r].state = "won" <=> r = s)
               /\ r \notin Live(t) => slot'[r] = slot[r]
    <2>1. slot[r] \in SlotRec
      BY <1>2
    <2>2. CASE r \in Live(t)
      <3>1. PICK v : v = IF r = s THEN "won" ELSE "canceled"
        OBVIOUS
      <3>2. slot'[r] = [slot[r] EXCEPT !.active = FALSE, !.state = v]
        BY <1>6, <2>2, <3>1
      <3>3. /\ slot'[r].gen = slot[r].gen /\ slot'[r].inUse = slot[r].inUse
            /\ slot'[r].retired = slot[r].retired /\ slot'[r].set = slot[r].set
            /\ slot'[r].task = slot[r].task /\ slot'[r].epoch = slot[r].epoch
            /\ slot'[r].active = FALSE /\ slot'[r].state = v
        BY <2>1, <3>2 DEF SlotRec
      <3> QED BY <2>2, <3>1, <3>3
    <2>3. CASE r \notin Live(t)
      BY <1>6, <2>3
    <2> QED BY <2>2, <2>3
  <1>8. Live(t)' = {}
    BY <1>7 DEF Live
  <1>9. ASSUME NEW u, u # t PROVE Live(u)' = Live(u) /\ \A r \in Live(u) : slot'[r] = slot[r]
    <2>1. \A r \in Live(u) : r \in Slots /\ r \notin Live(t)
      BY <1>9 DEF Live
    <2>2. \A r \in Live(u) : slot'[r] = slot[r]
      BY <1>7, <2>1
    <2>3. \A r \in Slots : slot'[r].active /\ slot'[r].task = u => r \notin Live(t)
      BY <1>7
    <2> QED BY <1>7, <2>2, <2>3 DEF Live
  <1>10. \A r \in Slots : slot'[r].active => slot'[r] = slot[r]
    BY <1>7
  <1>11. \A u \in Tasks : Epoch(u)' = Epoch(u)
    BY EpochIs
  <1>12. Committing(t)'
    BY <1>4, <1>5 DEF Committing
  <1>13. ASSUME NEW u \in Tasks PROVE Linked(u)' /\ Asleep(u)'
    <2>1. CASE u = t
      <3>1. Linked(t)'
        BY <1>1, <1>8, <1>12 DEF Linked
      <3>2. Woken(t)'
        BY <1>12 DEF Woken
      <3> QED BY <2>1, <3>1, <3>2 DEF Asleep
    <2>2. CASE u # t
      <3>1. Linked(u) /\ Asleep(u) /\ ~Committing(u) /\ ~Woken(u)
        BY <1>2 DEF Data, Committing
      <3>2. Live(u)' = Live(u) /\ \A r \in Live(u) : slot'[r] = slot[r]
        BY <1>9, <2>2
      <3>3. Linked(u)'
        BY <1>11, <3>1, <3>2 DEF Linked
      <3> QED BY <3>1, <3>2, <3>3 DEF Asleep
    <2> QED BY <2>1, <2>2
  <1>14. ASSUME NEW u \in Tasks PROVE Held(u)'
    <2>1. \A tok \in held[u] : tok[1] \in Slots
      BY <1>2
    <2> QED BY <1>2, <1>7, <2>1 DEF Data, Held
  <1>15. Group'
    <2>1. \A r \in Slots : slot[r].set # NoSet => slot[r].set \in Sets
      BY <1>2, SetOf
    <2>2. \A j \in Sets : set'[j].task = set[j].task /\ set'[j].epoch = set[j].epoch
      BY <1>1, <1>4, <1>5
    <2> QED BY <1>2, <1>7, <2>1, <2>2 DEF Data, Group
  <1>16. Decided'
    <2> SUFFICES ASSUME NEW r \in Slots, slot'[r].set # NoSet, ~slot'[r].active
                 PROVE  /\ set'[slot'[r].set].winner # NoSlot
                        /\ slot'[r].state = "won" <=> r = set'[slot'[r].set].winner
      BY DEF Decided
    <2>1. CASE r \in Live(t)
      <3>1. slot'[r].set = i
        BY <1>1, <1>7, <2>1 DEF ActiveMembers
      <3> QED BY <1>4, <1>5, <1>7, <2>1, <3>1, Finite DEF NoSlot
    <2>2. CASE r \notin Live(t)
      <3>1. slot'[r] = slot[r] /\ slot[r].set \in Sets
        BY <1>2, <1>7, <2>2, SetOf
      <3>2. slot[r].set # i
        BY <1>1, <1>2, <3>1 DEF SlotInv
      <3> QED BY <1>2, <1>5, <3>1, <3>2 DEF Data, Decided
    <2> QED BY <2>1, <2>2
  <1>17. Won'
    <2>1. \A j \in Sets : set'[j].state = "wonPending" => j = i
      BY <1>5, NoneWon
    <2> QED BY <1>4, <1>5, <1>8, <2>1 DEF Won
  <1>18. Data'
    BY <1>13, <1>14, <1>15, <1>16, <1>17 DEF Data
  <1> QED BY <1>8, <1>9, <1>10, <1>18

\* A source fires, or a cancellation acts as one.
LEMMA AloneTryWake ==
    ASSUME Alone, RegistryInv, AloneInv, TryWake(Exec) PROVE AloneInv'
  <1>1. /\ Doing(Exec, "wake") /\ ~Doing(Exec, "helpCommit") /\ ~Doing(Exec, "unregister")
        /\ gen' = gen /\ st' = st /\ held' = held /\ current' = current /\ "wake" \in Sweepers
    BY DEF TryWake, tcb, host, Doing, Sweepers
  <1>2. Arg(Exec) \in Slots \X Nat \X {"release", "keep"}
    BY <1>1, TopSound, ArgWake
  <1>3. PICK s \in Slots, g \in Nat, m \in {"release", "keep"} : Arg(Exec) = <<s, g, m>>
    BY <1>2
  <1>4. Arg(Exec)[1] = s /\ Arg(Exec)[2] = g /\ Arg(Exec)[3] = m
    BY <1>3
  <1>5. slot \in [Slots -> SlotRec] /\ set \in [Sets -> SetRec] /\ SlotInv
    BY DEF RegistryInv, Types
  <1>6. \A u \in Tasks : ~Clears(u) /\ ~Woken(u) /\ ~Finishing(Head(todo[Exec]), u)
    BY <1>1, ClearsBy, WokenBy, TopSound DEF Scheduling, Finishing
  <1>7. "wake" \notin Suspending
    BY DEF Suspending, Registers, Committers
  <1>8. CASE ~Names(s, g) /\ Continue(Exec, <<>>) /\ UNCHANGED <<slot, set, wait>>
    <2>1. Sweeps({})
      BY <1>1, <1>6, <1>8, NothingSwept
    <2>2. Yields("wake", {}, NoTask)
      BY <1>1, <1>8, YieldsNothing
    <2> QED BY <1>1, <2>1, <2>2, SweepMove
  <1>9. CASE /\ ~slot[s].active /\ UNCHANGED <<slot, set, wait>>
             /\ Continue(Exec, <<>>) \/ Continue(Exec, <<Op("release", <<s, g>>)>>)
    <2>1. Sweeps({})
      BY <1>1, <1>6, <1>9, NothingSwept
    <2>2. CASE Continue(Exec, <<>>)
      <3>1. Yields("wake", {}, NoTask)
        BY <1>1, <2>2, YieldsNothing
      <3> QED BY <1>1, <2>1, <3>1, SweepMove
    <2>3. CASE Continue(Exec, <<Op("release", <<s, g>>)>>)
      <3>1. PICK o : o = Op("release", <<s, g>>)
        OBVIOUS
      <3>2. o \in Below /\ o.op = "release" /\ o.arg = <<s, g>>
        BY <3>1, MadeOps DEF Op
      <3>3. Becomes({o}, o)
        BY <1>1, <2>3, <3>1, <3>2, Moves
      <3>4. Sound(o)'
        BY <1>9, <3>2 DEF Sound, Scheduling
      <3>5. Yields("wake", {o}, o)
        BY <1>1, <1>7, <3>2, <3>3, <3>4 DEF Yields, Registers, Tops, Committers
      <3> QED BY <1>1, <2>1, <3>5, SweepMove
    <2> QED BY <1>9, <2>2, <2>3
  <1>10. CASE /\ slot[s].active /\ slot[s].set # NoSet /\ wait' = wait
              /\ set' = [set EXCEPT ![slot[s].set] = WonSet(slot[s].set, s)]
              /\ slot' = Selected(slot[s].set, s)
              /\ Continue(Exec, <<Op("helpCommit", <<slot[s].set>>)>>)
    <2>1. PICK t, i : t = slot[s].task /\ i = slot[s].set
      OBVIOUS
    <2>2. i \in Sets
      BY <1>5, <1>10, <2>1, SetOf
    <2>3. PICK o : o = Op("helpCommit", <<i>>)
      OBVIOUS
    <2>4. o \in Above /\ o.op = "helpCommit" /\ o.arg = <<i>> /\ Sound(o)'
      BY <2>2, <2>3, MadeOps, HarmlessSound DEF Op, Harmless
    <2>5. Becomes({o}, o)
      BY <1>1, <1>10, <2>1, <2>3, <2>4, Moves
    <2>6. Doing(Exec, "helpCommit")' /\ ~Doing(Exec, "unregister")' /\ Arg(Exec)' = <<i>>
      BY <2>4, <2>5, TopAfter
    <2>7. set' = [set EXCEPT ![i] = WonSet(i, s)] /\ slot' = Selected(i, s) /\ wait' = wait
          /\ slot[s].active /\ slot[s].set # NoSet
      BY <1>10, <2>1
    <2>8. /\ Data' /\ Live(t)' = {}
          /\ \A u : u # t => Live(u)' = Live(u)
          /\ \A r \in Slots : slot'[r].active => slot'[r] = slot[r]
      BY <1>1, <1>6, <2>1, <2>6, <2>7, WinData
    <2>9. \A u \in Tasks : Torn(u) => Torn(u)'
      BY <1>6, <2>8 DEF Torn
    <2>10. Yields("wake", {o}, o)
      BY <1>1, <1>7, <2>4, <2>5 DEF Yields, Registers, Tops, Committers
    <2>11. Proceeds("wake", {o})
      BY <1>1, <1>6, <2>8, <2>9 DEF Proceeds
    <2> QED BY <2>8, <2>10, <2>11, MoveInv
  <1>11. CASE /\ slot[s].active /\ slot[s].set = NoSet /\ set' = set
              /\ slot' = [slot EXCEPT ![s] = Recycled(@)]
              /\ wait' = [wait EXCEPT ![slot[s].task].slot = NoSlot, ![slot[s].task].gen = 0]
              /\ Continue(Exec, <<Op("schedule", <<slot[s].task, slot[s].epoch>>)>>)
    <2>1. PICK t, e : t = slot[s].task /\ e = slot[s].epoch
      OBVIOUS
    <2>2. t \in Tasks /\ e = gen[t] /\ e \in Int
      BY <1>1, <1>11, <2>1, LiveSlot DEF RegistryInv, Types
    <2>3. PICK o : o = Op("schedule", <<t, e>>)
      OBVIOUS
    <2>4. o \in Below /\ o.op = "schedule" /\ o.arg = <<t, e>>
      BY <2>2, <2>3, MadeOps DEF Op, OfEpoch
    <2>5. Becomes({o}, o)
      BY <1>1, <1>11, <2>1, <2>3, <2>4, Moves
    <2>6. Woken(t)'
      <3>1. Doing(Exec, "schedule")' /\ Arg(Exec)' = <<t, e>>
        BY <2>4, <2>5, TopAfter
      <3> QED BY <1>1, <2>2, <3>1 DEF Woken, Scheduling
    <2>7. wait' = [wait EXCEPT ![t].slot = NoSlot, ![t].gen = 0]
      BY <1>11, <2>1
    <2>8. slot' = [slot EXCEPT ![s] = Recycled(@)] /\ slot[s].set = NoSet /\ slot[s].active /\ set' = set
      BY <1>11
    <2>9. Sweeps({s}) /\ Live(t)' = {}
      BY <1>1, <1>6, <2>1, <2>6, <2>7, <2>8, SingleSwept
    <2>10. Sound(o)'
      BY <2>4, <2>9 DEF Sound, Scheduling, Torn
    <2>11. Yields("wake", {o}, o)
      BY <1>1, <1>7, <2>4, <2>5, <2>10 DEF Yields, Registers, Tops, Committers
    <2> QED BY <1>1, <2>9, <2>11, SweepMove
  <1>12. CASE Names(s, g) /\ ~slot[s].active
    <2>1. slot[s].set \in Sets /\ set[slot[s].set].state # "wonPending"
      <3>1. slot[s].set # NoSet
        BY <1>5, <1>12 DEF Names, SlotInv
      <3>2. slot[s].set \in Sets
        BY <1>5, <3>1, SetOf
      <3> QED BY <1>1, <3>2, NoneWon
    <2>2. UNCHANGED <<slot, set, wait>>
          /\ (Continue(Exec, <<>>) \/ Continue(Exec, <<Op("release", <<s, g>>)>>))
      BY <1>4, <1>12, <2>1 DEF TryWake
    <2> QED BY <1>9, <1>12, <2>2
  <1>13. CASE Names(s, g) /\ slot[s].active /\ slot[s].set # NoSet
    <2>1. Selectable(s, slot[s].set) /\ set[slot[s].set].state = "waiting"
      BY <1>1, <1>13, LiveSlot
    <2> QED BY <1>4, <1>10, <1>13, <2>1 DEF TryWake
  <1>14. CASE Names(s, g) /\ slot[s].active /\ slot[s].set = NoSet
    BY <1>4, <1>11, <1>14 DEF TryWake
  <1>15. CASE ~Names(s, g)
    BY <1>4, <1>8, <1>15 DEF TryWake
  <1> QED BY <1>12, <1>13, <1>14, <1>15

\* The winner of a set is committed.
LEMMA AloneHelpCommit ==
    ASSUME Alone, RegistryInv, AloneInv, HelpCommit(Exec) PROVE AloneInv'
  <1>1. /\ Doing(Exec, "helpCommit") /\ ~Doing(Exec, "unregister")
        /\ slot' = slot /\ gen' = gen /\ held' = held /\ current' = current
    BY DEF HelpCommit, host, Doing
  <1>2. PICK i \in Sets : Arg(Exec) = <<i>>
    BY <1>1, TopSound, ArgTop
  <1>3. /\ CommitWinner(Exec, i, <<>>)
        /\ set' = [set EXCEPT ![i] = Dropped(Committed(i), 1)]
    BY <1>2 DEF HelpCommit
  <1>4. /\ wait \in [Tasks -> WaitRec] /\ set \in [Sets -> SetRec] /\ st \in [Tasks -> TaskStates]
        /\ gen \in [Tasks -> Int] /\ slot \in [Slots -> SlotRec] /\ Data
    BY DEF RegistryInv, Types, AloneInv
  <1>5. \A j \in Sets : set[j].state = "wonPending" => j = i
    BY <1>2, <1>4 DEF Data, Won
  <1>6. ASSUME NEW j \in Sets
        PROVE  /\ set'[j].task = set[j].task /\ set'[j].epoch = set[j].epoch
               /\ set'[j].winner = set[j].winner /\ set'[j].state # "wonPending"
    <2>1. CASE j # i
      BY <1>3, <1>4, <1>5, <2>1
    <2>2. CASE j = i
      <3>1. PICK x : x = Committed(i)
        OBVIOUS
      <3>2. set'[i] = Dropped(x, 1) /\ set[i] \in SetRec
        BY <1>3, <1>4, <3>1
      <3>3. /\ x \in SetRec /\ x.state # "wonPending" /\ x.task = set[i].task
            /\ x.epoch = set[i].epoch /\ x.winner = set[i].winner
        <4>1. CASE set[i].state # "wonPending"
          BY <3>1, <3>2, <4>1 DEF Committed
        <4>2. CASE set[i].state = "wonPending"
          <5>1. PICK y : y = [set[i] EXCEPT !.state = "inactive", !.commitRef = FALSE]
            OBVIOUS
          <5>2. /\ y \in SetRec /\ y.state = "inactive" /\ y.task = set[i].task
                /\ y.epoch = set[i].epoch /\ y.winner = set[i].winner
            BY <3>2, <5>1 DEF SetRec
          <5>3. x = Dropped(y, 1)
            BY <3>1, <4>2, <5>1 DEF Committed
          <5>4. x \in SetRec
            BY <5>2, <5>3, DroppedRec
          <5> QED BY <5>2, <5>3, <5>4, DroppedKeeps
        <4> QED BY <4>1, <4>2
      <3> QED BY <2>2, <3>2, <3>3, DroppedKeeps
    <2> QED BY <2>1, <2>2
  <1>7. Group' /\ Decided' /\ Won'
    <2>1. \A r \in Slots : slot[r].set # NoSet => slot[r].set \in Sets
      BY <1>4, SetOf
    <2> QED BY <1>1, <1>4, <1>6, <2>1 DEF Data, Group, Decided, Won
  <1>8. \A u : Live(u)' = Live(u)
    BY <1>1 DEF Live
  <1>9. \A u \in Tasks : ~Clears(u) /\ ~Finishing(Head(todo[Exec]), u)
    BY <1>1, ClearsBy, TopSound DEF Finishing
  <1>10. "helpCommit" \notin Suspending
    BY DEF Suspending, Registers, Committers
  <1>11. \A u \in Tasks : Held(u)'
    BY <1>1, <1>4 DEF Data, Held
  <1>12. CASE set[i].state # "wonPending"
    <2>1. Continue(Exec, <<>>) /\ wait' = wait /\ st' = st
      BY <1>3, <1>12 DEF CommitWinner
    <2>2. Yields("helpCommit", {}, NoTask)
      BY <1>1, <2>1, YieldsNothing
    <2>3. \A u \in Tasks : Epoch(u)' = Epoch(u)
      <3>1. Becomes({}, NoTask)
        BY <2>2 DEF Yields
      <3> QED BY <1>1, <3>1, SameEpoch
    <2>4. \A u \in Tasks : ~Committing(u) /\ ~Woken(u)
      BY <1>1, <1>2, <1>12 DEF Committing, Woken, Doing, Scheduling
    <2>5. \A u \in Tasks : Linked(u)' /\ Asleep(u)'
      BY <1>1, <1>4, <1>8, <2>1, <2>3, <2>4 DEF Data, Linked, Asleep
    <2>6. Data'
      BY <1>7, <1>11, <2>5 DEF Data
    <2>7. Proceeds("helpCommit", {})
      BY <1>1, <1>8, <1>9, <2>1 DEF Proceeds, Torn
    <2> QED BY <2>2, <2>6, <2>7, MoveInv
  <1>13. CASE set[i].state = "wonPending"
    <2>1. PICK t, e : t = set[i].task /\ e = set[i].epoch
      OBVIOUS
    <2>2. t \in Tasks /\ e \in Int /\ Live(t) = {}
      <3>1. t \in Tasks
        BY <1>13, <2>1 DEF RegistryInv, SetInv
      <3>2. e \in Int
        BY <1>4, <2>1 DEF SetRec
      <3>3. Live(t) = {}
        BY <1>4, <1>13, <2>1 DEF Data, Won
      <3> QED BY <3>1, <3>2, <3>3
    <2>3. wait' = [wait EXCEPT ![t] = ClearedLink(t, i)]
      BY <1>3, <1>13, <2>1 DEF CommitWinner
    <2>4. wait'[t].slot = NoSlot /\ \A u \in Tasks : u # t => wait'[u] = wait[u]
      <3>1. Linked(t) /\ (wait[t].slot # NoSlot => wait[t].set = i)
        BY <1>2, <1>4, <2>2 DEF Data, Linked
      <3>2. wait[t].slot # NoSlot => ClearedLink(t, i) = NoWait
        BY <3>1 DEF ClearedLink
      <3>3. ClearedLink(t, i).slot = NoSlot
        BY <3>2 DEF ClearedLink, NoWait
      <3> QED BY <1>4, <2>2, <2>3, <3>3
    <2>5. /\ \A u \in Tasks : u # t => st'[u] = st[u]
          /\ st'[t] = IF st[t] = "suspended" THEN "queued" ELSE st[t]
      <3>1. CASE st[t] = "suspended"
        <4>1. st' = [st EXCEPT ![t] = "queued"]
          BY <1>3, <1>13, <2>1, <3>1 DEF CommitWinner
        <4> QED BY <1>4, <2>2, <3>1, <4>1
      <3>2. CASE st[t] # "suspended"
        <4>1. st' = st
          BY <1>3, <1>13, <2>1, <3>2 DEF CommitWinner
        <4> QED BY <3>2, <4>1
      <3> QED BY <3>1, <3>2
    <2>6. \E N, fst : Yields("helpCommit", N, fst)
      <3>0. {"pendWake", "publish"} \subseteq Harmless
            /\ {"pendWake", "publish"} \cap (Registers \cup Tops) = {}
        BY DEF Harmless, Registers, Tops, Committers
      <3>1. CASE st[t] = "preparing"
        <4>1. Continue(Exec, <<Op("pendWake", <<t>>)>> \o <<>>)
          BY <1>3, <1>13, <2>1, <3>1 DEF CommitWinner
        <4>2. Continue(Exec, <<Op("pendWake", <<t>>)>>)
          BY <4>1 DEF Continue
        <4>3. Op("pendWake", <<t>>) \in Below
          BY <2>2, MadeOps DEF OfTask
        <4> QED BY <1>1, <1>10, <3>0, <4>2, <4>3, YieldsHarmless
      <3>2. CASE st[t] \in {"suspended", "queued"}
        <4>1. Continue(Exec, <<Op("publish", <<t, e>>)>> \o <<>>)
          BY <1>3, <1>13, <2>1, <3>2 DEF CommitWinner
        <4>2. Continue(Exec, <<Op("publish", <<t, e>>)>>)
          BY <4>1 DEF Continue
        <4>3. Op("publish", <<t, e>>) \in Below
          BY <2>2, MadeOps DEF OfEpoch
        <4> QED BY <1>1, <1>10, <3>0, <4>2, <4>3, YieldsHarmless
      <3>3. CASE st[t] \notin {"preparing", "suspended", "queued"}
        <4>1. Continue(Exec, <<>>)
          BY <1>3, <1>13, <2>1, <3>3 DEF CommitWinner
        <4> QED BY <1>1, <4>1, YieldsNothing
      <3> QED BY <3>1, <3>2, <3>3
    <2>7. PICK N, fst : Yields("helpCommit", N, fst)
      BY <2>6
    <2>8. \A u \in Tasks : Epoch(u)' = Epoch(u)
      <3>1. Becomes(N, fst) /\ (N = {} \/ fst.op # "unregister")
        BY <2>7 DEF Yields, Registers
      <3> QED BY <1>1, <3>1, SameEpoch
    <2>9. \A u \in Tasks : u # t => ~Committing(u) /\ ~Woken(u)
      BY <1>1, <1>2, <2>1 DEF Committing, Woken, Doing, Scheduling
    <2>10. ASSUME NEW u \in Tasks PROVE Linked(u)' /\ Asleep(u)'
      <3>1. CASE u = t
        BY <1>8, <2>2, <2>4, <2>5, <3>1 DEF Linked, Asleep
      <3>2. CASE u # t
        BY <1>1, <1>4, <1>8, <2>4, <2>5, <2>8, <2>9, <3>2 DEF Data, Linked, Asleep
      <3> QED BY <3>1, <3>2
    <2>11. Data'
      BY <1>7, <1>11, <2>10 DEF Data
    <2>12. \A u \in Tasks : /\ Torn(u) => Torn(u)'
                            /\ st[u] \in Sleepy /\ st'[u] \notin Sleepy => Torn(u)'
                            /\ st'[u] = "suspended" => st[u] = "suspended"
                            /\ st'[u] = "running" => st[u] = "running"
                            /\ st'[u] \in Sleepy => st[u] \in Sleepy
      BY <1>8, <1>9, <2>2, <2>5 DEF Torn, Sleepy
    <2>13. Proceeds("helpCommit", N)
      BY <1>1, <1>9, <2>12 DEF Proceeds
    <2> QED BY <2>7, <2>11, <2>13, MoveInv
  <1> QED BY <1>12, <1>13
-----------------------------------------------------------------------------
(* A registration begins.                                                  *)

LEMMA InstalledMore ==
    ASSUME RegistryInv, NEW t \in Tasks, NEW i \in 0 .. MaxSets, NEW s \in Slots
    PROVE  Installed(t, i, s).gen = slot[s].gen /\ Installed(t, i, s).epoch = gen[t]
  <1>1. slot[s] \in SlotRec
    BY DEF RegistryInv, Types
  <1> QED BY <1>1 DEF Installed, SlotRec

\* The slots in S, with one the first of them, are registered for t, in the new
\* set i if there is more than one.
Installs(t, S, one, i) ==
    /\ t \in Tasks /\ S \in SUBSET Available /\ one \in S /\ i \in Sets \cup {NoSet}
    /\ i = NoSet => S = {one}
    /\ i # NoSet => /\ set[i].state = "none" /\ set'[i].state = "waiting"
                    /\ set'[i].task = t /\ set'[i].epoch = gen[t]
    /\ \A j \in Sets : j # i => set'[j] = set[j]
    /\ \A s \in Slots : slot'[s] = IF s \in S THEN Installed(t, i, s) ELSE slot[s]
    /\ wait[t] = NoWait /\ wait' = [wait EXCEPT ![t] = [slot |-> one, gen |-> slot[one].gen,
                                                       set |-> i]]
    /\ \A u \in Tasks : u # t => held'[u] = held[u]
    /\ held'[t] \in SUBSET (held[t] \cup {<<s, slot[s].gen>> : s \in S})
    /\ gen' = gen /\ st' = st /\ current' = current

LEMMA InstallData ==
    ASSUME Alone, RegistryInv, AloneInv, Doing(Exec, "allocate"), ~Doing(Exec, "unregister")',
           NEW t, NEW S, NEW one, NEW i, Installs(t, S, one, i), st[t] # "suspended"
    PROVE  Data' /\ Live(t)' = S /\ \A u \in Tasks : u # t => Live(u)' = Live(u)
  <1>0. Data /\ slot \in [Slots -> SlotRec] /\ wait \in [Tasks -> WaitRec] /\ SlotInv
        /\ held \in [Tasks -> SUBSET (Slots \X Nat)]
    BY DEF AloneInv, RegistryInv, Types
  <1>1. t \in Tasks /\ one \in S /\ i \in 0 .. MaxSets /\ (i # NoSet => i \in Sets) /\ S \subseteq Slots
    BY Finite DEF Installs, Available, Sets, NoSet
  <1>2. \A s \in S : /\ ~slot[s].inUse /\ ~slot[s].retired /\ ~slot[s].active
                     /\ slot[s].set = NoSet
    BY <1>0, <1>1 DEF Installs, Available, SlotInv
  <1>3. \A s \in S : /\ slot'[s].inUse /\ slot'[s].active /\ slot'[s].set = i /\ slot'[s].task = t
                     /\ slot'[s].gen = slot[s].gen /\ slot'[s].epoch = gen[t]
    <2> SUFFICES ASSUME NEW s \in S
                 PROVE /\ slot'[s].inUse /\ slot'[s].active /\ slot'[s].set = i
                       /\ slot'[s].task = t
                       /\ slot'[s].gen = slot[s].gen /\ slot'[s].epoch = gen[t]
      OBVIOUS
    <2>1. slot'[s] = Installed(t, i, s) /\ s \in Slots
      BY <1>1 DEF Installs
    <2> QED BY <1>1, <2>1, InstalledSlot, InstalledMore
  <1>4. \A s \in Slots : s \notin S => slot'[s] = slot[s]
    BY DEF Installs
  <1>5. ~Doing(Exec, "helpCommit") /\ ~Doing(Exec, "unregister")
    BY DEF Doing
  <1>6. \A u : Epoch(u) = gen[u] /\ Epoch(u)' = gen[u]
    BY <1>5, EpochIs DEF Installs
  <1>7. (\A j \in Sets : set[j].state # "wonPending") /\ \A u : ~Committing(u)
    BY <1>5, NoneWon
  <1>8. wait'[t].slot = one /\ wait'[t].gen = slot[one].gen /\ wait'[t].set = i
        /\ \A u \in Tasks : u # t => wait'[u] = wait[u]
    <2>1. PICK v : v = [slot |-> one, gen |-> slot[one].gen, set |-> i]
      OBVIOUS
    <2>2. wait' = [wait EXCEPT ![t] = v]
      BY <2>1 DEF Installs
    <2>3. wait'[t] = v /\ \A u \in Tasks : u # t => wait'[u] = wait[u]
      BY <1>0, <1>1, <2>2
    <2> QED BY <2>1, <2>3
  <1>9. NoSlot \notin Slots /\ (\A u : Live(u) \subseteq Slots) /\ wait[t].slot = NoSlot
    BY Finite DEF NoSlot, Live, Installs, NoWait
  <1>10. Live(t) = {}
    BY <1>0, <1>1, <1>9 DEF Data, Linked
  <1>11. Live(t)' = S
    BY <1>1, <1>3, <1>4, <1>10 DEF Live
  <1>12. \A u \in Tasks : u # t => Live(u)' = Live(u)
    BY <1>1, <1>2, <1>3, <1>4 DEF Live
  <1>13. Linked(t)'
    <2>1. slot'[one].gen = wait'[t].gen /\ wait'[t].slot \in S /\ S # {}
      BY <1>1, <1>3, <1>8
    <2>2. \A s \in S : /\ slot'[s].epoch = Epoch(t)' /\ slot'[s].set = wait'[t].set
                       /\ slot'[s].set = NoSet => s = wait'[t].slot
      BY <1>3, <1>6, <1>8 DEF Installs
    <2> QED BY <1>8, <1>11, <2>1, <2>2 DEF Linked
  <1>14. ASSUME NEW u \in Tasks, u # t PROVE Linked(u)'
    <2>1. Linked(u) /\ wait'[u] = wait[u] /\ Live(u)' = Live(u)
      BY <1>0, <1>8, <1>12, <1>14 DEF Data
    <2>2. \A s \in Live(u) : slot'[s] = slot[s]
      BY <1>2, <1>4 DEF Live
    <2>3. Live(u) # {} => /\ wait[u].slot \in Live(u) /\ slot'[wait[u].slot].gen = wait[u].gen
                          /\ \A s \in Live(u) : /\ slot'[s].epoch = Epoch(u)'
                                                /\ slot'[s].set = wait[u].set
                                                /\ slot'[s].set = NoSet => s = wait[u].slot
      BY <1>6, <2>1, <2>2 DEF Linked
    <2>4. wait[u].slot # NoSlot => Live(u) # {}
      BY <1>7, <2>1 DEF Linked
    <2> QED BY <2>1, <2>3, <2>4 DEF Linked
  <1>15. ASSUME NEW u \in Tasks PROVE Asleep(u)'
    <2> SUFFICES ASSUME st[u] = "suspended" PROVE Live(u)' # {}
      BY DEF Asleep, Installs
    <2>1. ~Woken(u)
      BY <1>7 DEF Woken, Doing, Scheduling
    <2> QED BY <1>0, <1>12, <2>1 DEF Data, Asleep
  <1>16. ASSUME NEW u \in Tasks PROVE Held(u)'
    <2> SUFFICES ASSUME NEW tok \in held'[u]
                 PROVE  \/ tok[2] < slot'[tok[1]].gen
                        \/ /\ tok[2] = slot'[tok[1]].gen
                           /\ IF slot'[tok[1]].inUse THEN slot'[tok[1]].task = u
                              ELSE slot'[tok[1]].retired
      BY DEF Held
    <2>1. CASE tok \in held[u]
      <3>1. tok[1] \in Slots
        BY <1>0, <2>1
      <3>2. \/ tok[2] < slot[tok[1]].gen
            \/ /\ tok[2] = slot[tok[1]].gen
               /\ IF slot[tok[1]].inUse THEN slot[tok[1]].task = u ELSE slot[tok[1]].retired
        BY <1>0, <2>1 DEF Data, Held
      <3> QED BY <1>2, <1>3, <1>4, <3>1, <3>2
    <2>2. CASE tok \notin held[u]
      <3>1. u = t /\ \E s \in S : tok = <<s, slot[s].gen>>
        BY <2>2 DEF Installs
      <3>2. PICK s \in S : tok = <<s, slot[s].gen>>
        BY <3>1
      <3>3. tok[1] = s /\ tok[2] = slot[s].gen
        BY <3>2
      <3> QED BY <1>3, <3>1, <3>3
    <2> QED BY <2>1, <2>2
  <1>17. \A s \in Slots : slot[s].set # NoSet => slot[s].set \in Sets /\ slot[s].set # i
    <2> SUFFICES ASSUME NEW s \in Slots, slot[s].set # NoSet
                 PROVE  slot[s].set \in Sets /\ slot[s].set # i
      OBVIOUS
    <2>1. slot[s].set \in Sets
      BY <1>0, SetOf
    <2> QED BY <1>0, <2>1 DEF SlotInv, Installs
  <1>18. \A s \in Slots : s \notin S /\ slot[s].set # NoSet => set'[slot[s].set] = set[slot[s].set]
    BY <1>17 DEF Installs
  <1>19. Group'
    <2> SUFFICES ASSUME NEW s \in Slots, slot'[s].set # NoSet
                 PROVE  /\ set'[slot'[s].set].task = slot'[s].task
                        /\ set'[slot'[s].set].epoch = slot'[s].epoch
      BY DEF Group
    <2>1. CASE s \in S
      BY <1>3, <2>1 DEF Installs
    <2>2. CASE s \notin S
      BY <1>0, <1>4, <1>18, <2>2 DEF Data, Group
    <2> QED BY <2>1, <2>2
  <1>20. Decided'
    BY <1>0, <1>3, <1>4, <1>18 DEF Data, Decided
  <1>21. Won'
    <2>1. \A j \in Sets : set'[j].state # "wonPending"
      <3>1. NoSet \notin Sets
        BY Finite DEF NoSet
      <3> QED BY <1>7, <3>1 DEF Installs
    <2> QED BY <2>1 DEF Won
  <1> QED BY <1>11, <1>12, <1>13, <1>14, <1>15, <1>16, <1>19, <1>20, <1>21 DEF Data

\* Either the sources are armed and the suspension is committed, or the tokens are
\* given back and the suspension is aborted.
LEMMA InstallMove ==
    ASSUME Alone, RegistryInv, AloneInv, Doing(Exec, "allocate"), NEW t, Arg(Exec)[1] = t,
           NEW S, NEW one, NEW i, Installs(t, S, one, i),
           NEW N, NEW fst, Becomes(N, fst),
           \/ /\ N = {Op("commit", <<t>>), Op("register", <<t>>), Op("clearCurrent", <<t>>)}
              /\ fst = Op("commit", <<t>>)
           \/ \E F \in SUBSET {Op("release", <<s, slot[s].gen>>) : s \in S} :
                 fst \in F /\ N = F \cup {Op("abort", <<t>>)}
    PROVE  AloneInv'
  <1>1. (\A o : ~Under(o)) /\ st[t] \in {"preparing", "pending"}
    BY DEF AloneInv, StackInv, TopInv
  <1>2. t \in Tasks /\ S \subseteq Slots /\ one \in S /\ st' = st /\ current' = current
    BY DEF Installs, Available
  <1> DEFINE arm == /\ N = {Op("commit", <<t>>), Op("register", <<t>>), Op("clearCurrent", <<t>>)}
                    /\ fst = Op("commit", <<t>>)
             back == \E F \in SUBSET {Op("release", <<s, slot[s].gen>>) : s \in S} :
                        fst \in F /\ N = F \cup {Op("abort", <<t>>)}
  <1>3. arm => /\ \A o \in N : \/ o = fst
                               \/ o.op \in {"register", "clearCurrent"} /\ o.arg = <<t>>
               /\ fst.op = "commit" /\ fst.arg = <<t>> /\ fst \in N
               /\ \E o \in N : o.op = "clearCurrent" /\ o.arg = <<t>>
    <2>1. PICK x, y, z : x = Op("commit", <<t>>) /\ y = Op("register", <<t>>)
                         /\ z = Op("clearCurrent", <<t>>)
      OBVIOUS
    <2>2. x.op = "commit" /\ x.arg = <<t>> /\ y.op = "register" /\ y.arg = <<t>>
          /\ z.op = "clearCurrent" /\ z.arg = <<t>>
      BY <2>1 DEF Op
    <2>3. arm => N = {x, y, z} /\ fst = x
      BY <2>1
    <2> HIDE DEF arm
    <2> QED BY <2>2, <2>3
  <1>4. back => /\ \A o \in N : \/ o.op = "abort" /\ o.arg = <<t>>
                                \/ o.op = "release" /\ \E s \in S : o.arg = <<s, slot[s].gen>>
                /\ fst.op = "release" /\ fst \in N
                /\ \E o \in N : o.op = "abort" /\ o.arg = <<t>>
    <2> SUFFICES ASSUME back
                 PROVE  /\ \A o \in N : \/ o.op = "abort" /\ o.arg = <<t>>
                                        \/ /\ o.op = "release"
                                           /\ \E s \in S : o.arg = <<s, slot[s].gen>>
                        /\ fst.op = "release" /\ fst \in N
                        /\ \E o \in N : o.op = "abort" /\ o.arg = <<t>>
      OBVIOUS
    <2>1. PICK F \in SUBSET {Op("release", <<s, slot[s].gen>>) : s \in S} :
            fst \in F /\ N = F \cup {Op("abort", <<t>>)}
      OBVIOUS
    <2>2. PICK w : w = Op("abort", <<t>>)
      OBVIOUS
    <2>3. w.op = "abort" /\ w.arg = <<t>> /\ N = F \cup {w}
      BY <2>1, <2>2 DEF Op
    <2>4. \A o \in F : o.op = "release" /\ \E s \in S : o.arg = <<s, slot[s].gen>>
      <3> SUFFICES ASSUME NEW o \in F
                   PROVE  o.op = "release" /\ \E s \in S : o.arg = <<s, slot[s].gen>>
        OBVIOUS
      <3>1. PICK s \in S : o = Op("release", <<s, slot[s].gen>>)
        BY <2>1
      <3> QED BY <3>1 DEF Op
    <2> HIDE DEF back
    <2> QED BY <2>1, <2>3, <2>4
  <1>5. arm \/ back
    OBVIOUS
  <1> HIDE DEF arm, back
  <1>6. (\A name : Doing(Exec, name)' <=> fst.op = name) /\ Arg(Exec)' = fst.arg
    BY <1>3, <1>4, <1>5, TopAfter
  <1>7. ~Doing(Exec, "unregister")'
    BY <1>3, <1>4, <1>5, <1>6
  <1>8. Data' /\ Live(t)' = S /\ \A u \in Tasks : u # t => Live(u)' = Live(u)
    BY <1>1, <1>7, InstallData
  <1>9. ASSUME NEW u \in Tasks PROVE Quiet(u)' /\ Returns(u)'
    <2>1. CASE u = t
      <3>1. Quiet(t)'
        BY <1>1, <1>2 DEF Quiet, Sleepy
      <3>2. \E o \in N : o.op \in {"clearCurrent", "abort"} /\ o.arg = <<t>>
        BY <1>3, <1>4, <1>5
      <3>3. PICK o \in N : o.op \in {"clearCurrent", "abort"} /\ o.arg[1] = t
        BY <3>2
      <3>4. On(o)' /\ Finishing(o, t)
        BY <3>3 DEF Becomes, Finishing
      <3>5. Returns(t)'
        BY <3>4 DEF Returns, Finishing
      <3> QED BY <2>1, <3>1, <3>5
    <2>2. CASE u # t
      <3>1. Quiet(u)'
        <4>1. Quiet(u) /\ (Torn(u) <=> Live(u) = {})
          BY ClearsBy DEF AloneInv
        <4> QED BY <1>2, <1>8, <2>2, <4>1 DEF Quiet, Torn
      <3>2. Returns(u)'
        <4>1. \A o : On(o) => o = Head(todo[Exec])
          BY <1>1, OnStack
        <4>2. \A o : On(o) => o.arg[1] = t
          BY <4>1 DEF Arg
        <4>3. ~(current = u /\ st[u] \in Sleepy)
          BY <2>2, <4>2 DEF AloneInv, Returns, Finishing
        <4> QED BY <1>2, <4>3 DEF Returns
      <3> QED BY <3>1, <3>2
    <2> QED BY <2>1, <2>2
  <1>10. ASSUME NEW o \in N PROVE Sound(o)' /\ (o # fst => o.op \notin Tops)
    <2>1. CASE o.op = "release" /\ \E s \in S : o.arg = <<s, slot[s].gen>>
      <3>1. PICK s \in S : o.arg[1] = s
        BY <2>1
      <3>2. s \in Live(t)'
        BY <1>8
      <3>3. slot'[s].task = t
        BY <3>2 DEF Live
      <3>4. Sound(o)'
        BY <1>1, <1>2, <2>1, <3>1, <3>3 DEF Sound, Scheduling
      <3> QED BY <2>1, <3>4 DEF Tops, Committers
    <2>2. CASE o.op \in {"register", "clearCurrent", "abort"} /\ o.arg = <<t>>
      <3>1. o.arg[1] = t
        BY <2>2
      <3>2. Sound(o)'
        BY <1>1, <1>2, <2>2, <3>1 DEF Sound, Scheduling
      <3> QED BY <2>2, <3>2 DEF Tops, Committers
    <2>3. CASE o = fst /\ o.op = "commit"
      BY <2>3 DEF Sound, Scheduling
    <2> QED BY <1>3, <1>4, <1>5, <2>1, <2>2, <2>3
  <1>11. \A o \in N : o.op \in Registers => \A p \in N : p.op \in Suspending
    BY <1>3, <1>4, <1>5 DEF Registers, Suspending, Committers
  <1>12. TopInv'
    <2>1. CASE arm
      <3>1. \A o : Under(o)' => o.op \in {"register", "clearCurrent"}
        BY <1>1, <1>3, <2>1 DEF Becomes
      <3>2. Arg(Exec)'[1] = t
        BY <1>3, <1>6, <2>1
      <3>3. Live(t)' # {} /\ st'[t] \in {"preparing", "pending"}
        BY <1>1, <1>2, <1>8
      <3>4. ~Doing(Exec, "unregister")' /\ ~Doing(Exec, "allocate")'
        BY <1>3, <1>6, <2>1
      <3> QED BY <3>1, <3>2, <3>3, <3>4 DEF TopInv
    <2>2. CASE back
      BY <1>4, <1>6, <2>2 DEF TopInv, Committers
    <2> QED BY <1>5, <2>1, <2>2
  <1> QED BY <1>1, <1>8, <1>9, <1>10, <1>11, <1>12, FreshInv

\* The calls that give one or two tokens back and abort.
LEMMA RollBack ==
    ASSUME NEW w
    PROVE  /\ \A x : [k \in 1 .. Len(<<x>>) |-> Op("release", <<x>>[k])] \o <<w>>
                       = <<Op("release", x), w>>
           /\ \A x, y : [k \in 1 .. Len(<<x, y>>) |-> Op("release", <<x, y>>[k])] \o <<w>>
                          = <<Op("release", x), Op("release", y), w>>
  <1>1. ASSUME NEW x
        PROVE  [k \in 1 .. Len(<<x>>) |-> Op("release", <<x>>[k])] \o <<w>> = <<Op("release", x), w>>
    <2>1. PICK back, f : /\ back = [k \in 1 .. Len(<<x>>) |-> Op("release", <<x>>[k])]
                         /\ f = Op("release", x)
      OBVIOUS
    <2>2. back = <<f>>
      BY <2>1
    <2>3. PICK S : S = {f, w}
      OBVIOUS
    <2>4. PICK u, v : u = <<f>> /\ v = <<w>>
      OBVIOUS
    <2>5. u \in Seq(S) /\ v \in Seq(S) /\ Len(u) = 1 /\ Len(v) = 1 /\ u[1] = f /\ v[1] = w
      BY <2>3, <2>4
    <2>6. PICK r, h : r = u \o v /\ h = <<f, w>>
      OBVIOUS
    <2>7. /\ r \in Seq(S) /\ Len(r) = Len(u) + Len(v)
          /\ \A i \in 1 .. Len(u) + Len(v) : r[i] = IF i <= Len(u) THEN u[i] ELSE v[i - Len(u)]
      BY <2>5, <2>6, ConcatProperties
    <2>8. Len(r) = 2 /\ r[1] = f /\ r[2] = w
      BY <2>5, <2>7
    <2>9. h \in Seq(S) /\ Len(h) = 2 /\ h[1] = f /\ h[2] = w
      BY <2>3, <2>6
    <2>10. \A i \in 1 .. Len(r) : r[i] = h[i]
      BY <2>8, <2>9
    <2>11. r = h
      BY <2>7, <2>8, <2>9, <2>10, SeqEqual
    <2> QED BY <2>1, <2>2, <2>4, <2>6, <2>11
  <1>2. ASSUME NEW x, NEW y
        PROVE  [k \in 1 .. Len(<<x, y>>) |-> Op("release", <<x, y>>[k])] \o <<w>>
                 = <<Op("release", x), Op("release", y), w>>
    <2>1. PICK back, f, g : /\ back = [k \in 1 .. Len(<<x, y>>) |-> Op("release", <<x, y>>[k])]
                            /\ f = Op("release", x) /\ g = Op("release", y)
      OBVIOUS
    <2>2. back = <<f, g>>
      BY <2>1
    <2>3. PICK S : S = {f, g, w}
      OBVIOUS
    <2>4. PICK u, v : u = <<f, g>> /\ v = <<w>>
      OBVIOUS
    <2>5. /\ u \in Seq(S) /\ v \in Seq(S) /\ Len(u) = 2 /\ Len(v) = 1
          /\ u[1] = f /\ u[2] = g /\ v[1] = w
      BY <2>3, <2>4
    <2>6. PICK r, h : r = u \o v /\ h = <<f, g, w>>
      OBVIOUS
    <2>7. /\ r \in Seq(S) /\ Len(r) = Len(u) + Len(v)
          /\ \A i \in 1 .. Len(u) + Len(v) : r[i] = IF i <= Len(u) THEN u[i] ELSE v[i - Len(u)]
      BY <2>5, <2>6, ConcatProperties
    <2>8. Len(r) = 3 /\ r[1] = f /\ r[2] = g /\ r[3] = w
      BY <2>5, <2>7
    <2>9. h \in Seq(S) /\ Len(h) = 3 /\ h[1] = f /\ h[2] = g /\ h[3] = w
      BY <2>3, <2>6
    <2>10. \A i \in 1 .. Len(r) : r[i] = h[i]
      BY <2>8, <2>9
    <2>11. r = h
      BY <2>7, <2>8, <2>9, <2>10, SeqEqual
    <2> QED BY <2>1, <2>2, <2>4, <2>6, <2>11
  <1> QED BY <1>1, <1>2

\* toka_wait_registry_register
LEMMA AloneSingle ==
    ASSUME Alone, RegistryInv, AloneInv, Doing(Exec, "allocate"), NEW t \in Tasks,
           Arg(Exec)[1] = t, Cardinality(Available) >= 1, CanInstall(t), AllocateSingle(Exec, t),
           gen' = gen, st' = st, current' = current
    PROVE  AloneInv'
  <1> DEFINE S == Lowest(1)
  <1>1. S \subseteq Available /\ Cardinality(S) = 1
    BY LowestIs
  <1>2. Available \subseteq Slots /\ Slots \subseteq Nat
    BY Finite DEF Available
  <1> HIDE DEF S
  <1>3. S # {} /\ S \subseteq Nat
    <2>1. S # {}
      BY <1>1, FS_EmptySet
    <2> QED BY <1>1, <1>2, <2>1
  <1>4. Min(S) \in S
    BY <1>3, MinIn
  <1>5. PICK s \in Available : s = Min(S)
    BY <1>1, <1>4
  <1>6. PICK g : g = slot[s].gen
    OBVIOUS
  <1>7. s \in Slots /\ g \in Nat /\ s \in 0 .. NumSlots
    BY <1>2, <1>6, TokenOf
  <1>8. /\ slot' = [slot EXCEPT ![s] = Installed(t, NoSet, s)]
        /\ wait' = [wait EXCEPT ![t] = [slot |-> s, gen |-> g, set |-> NoSet]]
        /\ held' = [held EXCEPT ![t] = @ \cup {<<s, g>>}]
        /\ ArmedOrRolledBack(Exec, t, <<<<s, g>>>>) /\ set' = set
    BY <1>5, <1>6 DEF AllocateSingle, S
  <1>9. Installs(t, {s}, s, NoSet)
    <2>1. slot \in [Slots -> SlotRec] /\ held \in [Tasks -> SUBSET (Slots \X Nat)]
      BY DEF RegistryInv, Types
    <2>2. PICK r : r = Installed(t, NoSet, s)
      OBVIOUS
    <2>3. \A p \in Slots : slot'[p] = IF p \in {s} THEN r ELSE slot[p]
      BY <1>7, <1>8, <2>1, <2>2
    <2>4. \A p \in Slots : slot'[p] = IF p \in {s} THEN Installed(t, NoSet, p) ELSE slot[p]
      BY <2>2, <2>3
    <2>5. held'[t] = held[t] \cup {<<s, g>>} /\ \A u \in Tasks : u # t => held'[u] = held[u]
      BY <1>8, <2>1
    <2>6. held'[t] \in SUBSET (held[t] \cup {<<p, slot[p].gen>> : p \in {s}})
      BY <1>6, <2>5
    <2>7. wait[t] = NoWait
      BY DEF CanInstall
    <2> QED BY <1>6, <1>8, <2>4, <2>5, <2>6, <2>7 DEF Installs
  <1>10. PICK x, y, z, w, f : /\ x = Op("commit", <<t>>) /\ y = Op("register", <<t>>)
                              /\ z = Op("clearCurrent", <<t>>) /\ w = Op("abort", <<t>>)
                              /\ f = Op("release", <<s, g>>)
    OBVIOUS
  <1>11. x \in Below /\ y \in Below /\ z \in Below /\ w \in Below /\ f \in Below
    BY <1>7, <1>10, MadeOps DEF OfTask
  <1>12. x # y /\ x # z /\ f # w
    BY <1>10 DEF Op
  <1>13. Continue(Exec, <<x, y, z>>) \/ Continue(Exec, <<f, w>>)
    BY <1>8, <1>10, RollBack DEF ArmedOrRolledBack
  <1>14. CASE Continue(Exec, <<x, y, z>>)
    <2>1. Becomes({x, y, z}, x)
      BY <1>11, <1>12, <1>14, Moves
    <2> QED BY <1>9, <1>10, <2>1, InstallMove
  <1>15. CASE Continue(Exec, <<f, w>>)
    <2>1. Becomes({f, w}, f)
      BY <1>11, <1>12, <1>15, Moves
    <2>2. {f} \in SUBSET {Op("release", <<p, slot[p].gen>>) : p \in {s}}
      BY <1>6, <1>10
    <2>3. f \in {f} /\ {f, w} = {f} \cup {Op("abort", <<t>>)}
      BY <1>10
    <2>4. \E F \in SUBSET {Op("release", <<p, slot[p].gen>>) : p \in {s}} :
            f \in F /\ {f, w} = F \cup {Op("abort", <<t>>)}
      BY <2>2, <2>3
    <2> QED BY <1>9, <2>1, <2>4, InstallMove
  <1> QED BY <1>13, <1>14, <1>15

\* toka_wait_set_register_pair
LEMMA AlonePair ==
    ASSUME Alone, RegistryInv, AloneInv, Doing(Exec, "allocate"), NEW t \in Tasks,
           Arg(Exec)[1] = t, Cardinality(Available) >= 2, CanInstall(t), AllocatePair(Exec, t),
           ~(Continue(Exec, <<Op("abort", <<t>>)>>) /\ UNCHANGED <<slot, set, wait, held>>),
           gen' = gen, st' = st, current' = current
    PROVE  AloneInv'
  <1>1. PICK S, j : S = Lowest(2) /\ j = Min(UnusedSets)
    OBVIOUS
  <1>2. PICK one, two : one = Min(S) /\ two = Max(S)
    OBVIOUS
  <1>3. PICK g, h : g = slot[one].gen /\ h = slot[two].gen
    OBVIOUS
  <1> DEFINE toks == <<<<one, g>>, <<two, h>>>>
  <1>4. toks[1] = <<one, g>> /\ toks[2] = <<two, h>>
    OBVIOUS
  <1>5. /\ UnusedSets # {}
        /\ slot' = [s \in Slots |-> IF s \in S THEN Installed(t, j, s) ELSE slot[s]]
        /\ set' = [set EXCEPT ![j] = [NewSet EXCEPT !.state = "waiting", !.refs = 2,
                                                    !.task = t, !.epoch = gen[t]]]
        /\ wait' = [wait EXCEPT ![t] = [slot |-> one, gen |-> g, set |-> j]]
        /\ held' = [held EXCEPT ![t] = @ \cup {toks[1], toks[2]}]
        /\ ArmedOrRolledBack(Exec, t, toks)
    BY <1>1, <1>2, <1>3, Zenon DEF AllocatePair
  <1>6. held' = [held EXCEPT ![t] = @ \cup {<<one, g>>, <<two, h>>}]
    BY <1>4, <1>5, Zenon
  <1>7. S \subseteq Available /\ Cardinality(S) = 2
    BY <1>1, LowestIs
  <1>8. Available \subseteq Slots /\ Slots \subseteq Nat
    BY Finite DEF Available
  <1>9. IsFiniteSet(S) /\ S \subseteq Nat
    BY <1>7, <1>8, PartSize
  <1>10. one \in S /\ two \in S /\ one # two
    BY <1>2, <1>7, <1>9, MinMaxOfPair
  <1>11. one \in Slots /\ two \in Slots
    BY <1>7, <1>8, <1>10
  <1>12. g \in Nat /\ h \in Nat
    BY <1>3, <1>11, TokenOf
  <1>13. j \in Sets /\ set[j].state = "none" /\ j # NoSet
    <2>1. UnusedSets \subseteq Nat /\ UnusedSets \subseteq Sets
      BY Finite DEF UnusedSets
    <2>2. j \in UnusedSets
      BY <1>1, <1>5, <2>1, MinIn
    <2> QED BY <2>2, Finite DEF UnusedSets, NoSet
  <1> HIDE DEF toks
  <1>14. Installs(t, S, one, j)
    <2>1. set \in [Sets -> SetRec] /\ held \in [Tasks -> SUBSET (Slots \X Nat)]
      BY DEF RegistryInv, Types
    <2>2. \A p \in Slots : slot'[p] = IF p \in S THEN Installed(t, j, p) ELSE slot[p]
      BY <1>5
    <2>3. held'[t] = held[t] \cup {<<one, g>>, <<two, h>>} /\ \A u \in Tasks : u # t => held'[u] = held[u]
      BY <1>6, <2>1
    <2>4. held'[t] \in SUBSET (held[t] \cup {<<p, slot[p].gen>> : p \in S})
      BY <1>3, <1>10, <2>3
    <2>5. wait[t] = NoWait
      BY DEF CanInstall
    <2>6. PICK r : r = [NewSet EXCEPT !.state = "waiting", !.refs = 2, !.task = t, !.epoch = gen[t]]
      OBVIOUS
    <2>7. r.state = "waiting" /\ r.task = t /\ r.epoch = gen[t]
      BY <2>6 DEF NewSet
    <2>8. set' = [set EXCEPT ![j] = r]
      BY <1>5, <2>6
    <2>9. set'[j] = r /\ \A i \in Sets : i # j => set'[i] = set[i]
      BY <1>13, <2>1, <2>8
    <2>10. wait' = [wait EXCEPT ![t] = [slot |-> one, gen |-> slot[one].gen, set |-> j]]
      BY <1>3, <1>5
    <2> QED BY <1>7, <1>10, <1>13, <2>2, <2>3, <2>4, <2>5, <2>7, <2>9, <2>10 DEF Installs
  <1>15. PICK x, y, z, w : /\ x = Op("commit", <<t>>) /\ y = Op("register", <<t>>)
                           /\ z = Op("clearCurrent", <<t>>) /\ w = Op("abort", <<t>>)
    OBVIOUS
  <1>16. PICK f, e : f = Op("release", <<one, g>>) /\ e = Op("release", <<two, h>>)
    OBVIOUS
  <1>17. x \in Below /\ y \in Below /\ z \in Below /\ w \in Below /\ f \in Below /\ e \in Below
    BY <1>11, <1>12, <1>15, <1>16, MadeOps DEF OfTask
  <1>18. x # y /\ x # z /\ f # w /\ f # e
    <2>1. x.op = "commit" /\ y.op = "register" /\ z.op = "clearCurrent" /\ w.op = "abort"
          /\ f.op = "release" /\ f.arg = <<one, g>> /\ e.arg = <<two, h>>
      BY <1>15, <1>16 DEF Op
    <2>2. f.arg # e.arg
      BY <1>10, <2>1
    <2> QED BY <2>1, <2>2
  <1>19. Continue(Exec, <<x, y, z>>) \/ Continue(Exec, <<f, e, w>>)
    <2>1. PICK p, q : p = <<one, g>> /\ q = <<two, h>>
      OBVIOUS
    <2>2. ArmedOrRolledBack(Exec, t, <<p, q>>)
      BY <1>5, <2>1 DEF toks
    <2>3. \/ Continue(Exec, <<x, y, z>>)
          \/ Continue(Exec, [k \in 1 .. Len(<<p, q>>) |-> Op("release", <<p, q>>[k])] \o <<w>>)
      BY <1>15, <2>2, Zenon DEF ArmedOrRolledBack
    <2>4. [k \in 1 .. Len(<<p, q>>) |-> Op("release", <<p, q>>[k])] \o <<w>> = <<f, e, w>>
      BY <1>16, <2>1, RollBack, Zenon
    <2> QED BY <2>3, <2>4, Zenon
  <1>20. CASE Continue(Exec, <<x, y, z>>)
    <2>1. Becomes({x, y, z}, x)
      BY <1>17, <1>18, <1>20, Moves
    <2> QED BY <1>14, <1>15, <2>1, InstallMove
  <1>21. CASE Continue(Exec, <<f, e, w>>)
    <2>1. Becomes({f, e, w}, f)
      BY <1>17, <1>18, <1>21, Moves
    <2>2. {f, e} \in SUBSET {Op("release", <<p, slot[p].gen>>) : p \in S}
      BY <1>3, <1>10, <1>16
    <2>3. f \in {f, e} /\ {f, e, w} = {f, e} \cup {Op("abort", <<t>>)}
      BY <1>15
    <2>4. \E F \in SUBSET {Op("release", <<p, slot[p].gen>>) : p \in S} :
            f \in F /\ {f, e, w} = F \cup {Op("abort", <<t>>)}
      BY <2>2, <2>3
    <2> QED BY <1>14, <2>1, <2>4, InstallMove
  <1> QED BY <1>19, <1>20, <1>21

LEMMA AloneAllocate ==
    ASSUME Alone, RegistryInv, AloneInv, Allocate(Exec) PROVE AloneInv'
  <1>0. Stacks /\ Exec \in Actors
    BY DEF RegistryInv, Actors
  <1>1. Doing(Exec, "allocate")
    BY DEF Allocate
  <1>2. PICK t \in Tasks, kind \in {"single", "pair"} : Arg(Exec) = <<t, kind>>
    BY <1>0, <1>1, ArgTop
  <1>3. Arg(Exec)[1] = t /\ Arg(Exec)[2] = kind
    BY <1>2
  <1>4. Cardinality(Available) >= SlotsFor(kind)
    BY <1>0, <1>1, <1>3 DEF RegistryInv, AllocInv
  <1>5. gen' = gen /\ st' = st /\ current' = current
    BY DEF Allocate, tcb
  <1>6. ASSUME Continue(Exec, <<Op("abort", <<t>>)>>), slot' = slot, set' = set,
               wait' = wait, held' = held
        PROVE  AloneInv'
    <2>1. PICK w : w = Op("abort", <<t>>)
      OBVIOUS
    <2>2. w.op = "abort" /\ w.arg[1] = t /\ w \in Below
      BY <2>1, MadeOps DEF Op, OfTask
    <2>3. Becomes({w}, w)
      BY <1>1, <1>6, <2>1, <2>2, Moves
    <2>4. st[t] \in {"preparing", "pending"}
      BY <1>1, <1>3 DEF AloneInv, StackInv, TopInv
    <2>5. Sound(w)'
      BY <1>5, <2>2, <2>4 DEF Sound, Scheduling
    <2>6. \A u \in Tasks : ~Clears(u)
      BY <1>1, ClearsBy
    <2>7. \A u \in Tasks : Finishing(Head(todo[Exec]), u) => Finishing(w, u)
      BY <1>3, <2>2 DEF Finishing, Arg
    <2>8. "allocate" \notin {"helpCommit", "unregister"} /\ "allocate" \notin Scheduling
          /\ "allocate" \notin Suspending
      BY DEF Scheduling, Suspending, Committers, Registers
    <2>9. w.op \notin Registers /\ w.op \notin Tops
      BY <2>2 DEF Registers, Tops, Committers
    <2>10. \A u \in Tasks : current' = u /\ st[u] \in Sleepy /\ Finishing(Head(todo[Exec]), u)
                              => \E p \in {w} : Finishing(p, u)
      BY <2>7
    <2>11. {w} \in SUBSET (Below \cup Above)
      BY <2>2
    <2> QED BY <1>1, <1>5, <1>6, <2>3, <2>5, <2>6, <2>8, <2>9, <2>10, <2>11, StillMove
  <1>7. CASE ~CanInstall(t)
    BY <1>3, <1>6, <1>7 DEF Allocate
  <1>8. CASE CanInstall(t) /\ kind = "single" /\ AllocateSingle(Exec, t)
    <2>1. Cardinality(Available) >= 1
      BY <1>4, <1>8 DEF SlotsFor
    <2> QED BY <1>1, <1>3, <1>5, <1>8, <2>1, AloneSingle
  <1>9. CASE CanInstall(t) /\ kind = "pair" /\ AllocatePair(Exec, t)
    <2>1. Cardinality(Available) >= 2
      BY <1>4, <1>9 DEF SlotsFor
    <2>2. CASE /\ Continue(Exec, <<Op("abort", <<t>>)>>)
               /\ UNCHANGED <<slot, set, wait, held>>
      BY <1>6, <2>2
    <2>3. CASE ~(/\ Continue(Exec, <<Op("abort", <<t>>)>>)
                 /\ UNCHANGED <<slot, set, wait, held>>)
      BY <1>1, <1>3, <1>5, <1>9, <2>1, <2>3, AlonePair
    <2> QED BY <2>2, <2>3
  <1> QED BY <1>3, <1>7, <1>8, <1>9 DEF Allocate
-----------------------------------------------------------------------------
(* The executor begins something.                                          *)

\* Nothing is on the stack: a task that is not on its way to sleep has no
\* registration, and the running one is not on its way to sleep.
LEMMA NothingOn ==
    ASSUME RegistryInv, AloneInv, todo[Exec] = <<>>
    PROVE  /\ \A o : ~On(o) /\ ~Under(o)
           /\ \A name : ~Doing(Exec, name)
           /\ \A t \in Tasks : /\ st[t] \notin Sleepy => Live(t) = {}
                               /\ current = t => st[t] \notin Sleepy
                               /\ st[t] = "suspended" => Live(t) # {}
  <1>1. Len(todo[Exec]) = 0
    OBVIOUS
  <1>2. \A o : ~On(o) /\ ~Under(o)
    BY <1>1 DEF On, Under
  <1>3. \A name : ~Doing(Exec, name)
    BY DEF Doing
  <1>4. ASSUME NEW t \in Tasks
        PROVE  /\ st[t] \notin Sleepy => Live(t) = {}
               /\ current = t => st[t] \notin Sleepy
               /\ st[t] = "suspended" => Live(t) # {}
    <2>1. ~Clears(t) /\ ~Woken(t)
      BY <1>3 DEF Clears, Woken, Committing
    <2> QED BY <1>2, <2>1 DEF AloneInv, Quiet, Torn, Returns, Data, Asleep
  <1> QED BY <1>2, <1>3, <1>4

\* The stack stays empty.
LEMMA EmptyInv ==
    ASSUME RegistryInv', todo'[Exec] = <<>>, Data', \A t \in Tasks : Quiet(t)' /\ Returns(t)'
    PROVE  AloneInv'
  <1>1. Len(todo'[Exec]) = 0
    OBVIOUS
  <1>2. \A o : ~On(o)' /\ ~Under(o)'
    BY <1>1 DEF On, Under
  <1>3. \A name : ~Doing(Exec, name)'
    BY DEF Doing
  <1>4. StackInv'
    BY <1>2, <1>3 DEF StackInv, TopInv
  <1> QED BY <1>4 DEF AloneInv

\* A call that leaves the tasks and the registry alone.
LEMMA CallInv ==
    ASSUME Alone, RegistryInv, AloneInv, todo[Exec] = <<>>, NEW ops \in Seq(Below \cup Above),
           Call(Exec, ops), NEW N, NEW fst, Lists(ops, N, fst), fst \in N,
           slot' = slot, set' = set, wait' = wait, gen' = gen, st' = st, current' = current,
           \A t \in Tasks : held'[t] \in SUBSET held[t],
           \A o \in N : Sound(o)' /\ o.op \notin Tops /\ o.op \notin Registers
    PROVE  AloneInv'
  <1>1. Becomes(N, fst) /\ \A o : ~Under(o)
    BY CallBecomes
  <1>2. (\A name : Doing(Exec, name)' <=> fst.op = name)
    BY <1>1, TopAfter
  <1>3. TopInv'
    BY <1>2 DEF TopInv, Tops
  <1>4. ~Doing(Exec, "unregister") /\ ~Doing(Exec, "unregister")' /\ ~Doing(Exec, "helpCommit")
    <2>1. fst.op \notin Registers
      OBVIOUS
    <2> QED BY <1>2, <2>1, NothingOn DEF Registers
  <1>5. \A t \in Tasks : Epoch(t)' = Epoch(t)
    BY <1>4, EpochIs
  <1>6. Data' /\ \A t : Live(t)' = Live(t)
    BY <1>4, <1>5, NothingOn, StillData
  <1>7. \A t \in Tasks : Quiet(t)' /\ Returns(t)'
    BY <1>6, NothingOn DEF Quiet, Torn, Returns
  <1> QED BY <1>1, <1>3, <1>6, <1>7, FreshInv

\* A call of one harmless operation, or of two operations.
LEMMA CallOne ==
    ASSUME Alone, RegistryInv, AloneInv, todo[Exec] = <<>>, NEW o \in Below, Call(Exec, <<o>>),
           slot' = slot, set' = set, wait' = wait, gen' = gen, st' = st, current' = current,
           held' = held, o.op \in Harmless, o.op \notin Tops, Sound(o)'
    PROVE  AloneInv'
  <1> DEFINE B == Below \cup Above
  <1>1. o \in B
    OBVIOUS
  <1> HIDE DEF B
  <1>2. <<o>> \in Seq(B)
    BY <1>1
  <1>3. <<o>> \in Seq(Below \cup Above)
    BY <1>2 DEF B
  <1>4. Lists(<<o>>, {o}, o) /\ o \in {o}
    BY ShortLists
  <1>5. o.op \notin Registers
    BY DEF Harmless, Registers, Tops
  <1>6. \A p \in {o} : Sound(p)' /\ p.op \notin Tops /\ p.op \notin Registers
    BY <1>5
  <1>7. \A t \in Tasks : held'[t] \in SUBSET held[t]
    OBVIOUS
  <1> QED BY <1>3, <1>4, <1>6, <1>7, CallInv

LEMMA CallTwo ==
    ASSUME Alone, RegistryInv, AloneInv, todo[Exec] = <<>>, NEW o \in Below, NEW p \in Below,
           o # p, Call(Exec, <<o, p>>),
           slot' = slot, set' = set, wait' = wait, gen' = gen, st' = st, current' = current,
           \A t \in Tasks : held'[t] \in SUBSET held[t],
           Sound(o)', o.op \notin Tops, o.op \notin Registers,
           Sound(p)', p.op \notin Tops, p.op \notin Registers
    PROVE  AloneInv'
  <1> DEFINE B == Below \cup Above
  <1>1. o \in B /\ p \in B
    OBVIOUS
  <1> HIDE DEF B
  <1>2. <<o, p>> \in Seq(B)
    BY <1>1
  <1>3. <<o, p>> \in Seq(Below \cup Above)
    BY <1>2 DEF B
  <1>4. Lists(<<o, p>>, {o, p}, o) /\ o \in {o, p}
    BY ShortLists
  <1>5. \A q \in {o, p} : Sound(q)' /\ q.op \notin Tops /\ q.op \notin Registers
    OBVIOUS
  <1> QED BY <1>3, <1>4, <1>5, CallInv

\* The calls from outside the tasks: the executor starts a task, cancels one, or
\* fires a source.
LEMMA AloneOutside ==
    ASSUME Alone, RegistryInv, AloneInv, Outside(Exec) PROVE AloneInv'
  <1>0. slot \in [Slots -> SlotRec]
    BY DEF RegistryInv, Types
  <1>1. PICK o \in Below : /\ Call(Exec, <<o>>) /\ o.op \in {"start", "cancel", "wake"}
                           /\ Sound(o)'
                           /\ todo[Exec] = <<>>
                           /\ UNCHANGED <<tcb, registry, ready, lock, current, held>>
    <2>1. ASSUME NEW t \in Tasks, CallStart(Exec, t)
          PROVE  /\ todo[Exec] = <<>> /\ Call(Exec, <<Op("start", <<t>>)>>)
                 /\ UNCHANGED <<tcb, registry, ready, lock, current, held>>
      BY <2>1 DEF CallStart, host
    <2>2. ASSUME NEW t \in Tasks, CallCancel(Exec, t)
          PROVE  /\ todo[Exec] = <<>> /\ Call(Exec, <<Op("cancel", <<t>>)>>)
                 /\ UNCHANGED <<tcb, registry, ready, lock, current, held>>
      BY <2>2 DEF CallCancel, External
    <2>3. ASSUME NEW tok \in Issued, CallWake(Exec, tok)
          PROVE  /\ todo[Exec] = <<>> /\ Call(Exec, <<Op("wake", <<tok[1], tok[2], "release">>)>>)
                 /\ UNCHANGED <<tcb, registry, ready, lock, current, held>>
      BY <2>3 DEF CallWake, External
    <2>4. \A t, g : ~CallSchedule(Exec, t, g)
      BY DEF CallSchedule
    <2>5. ASSUME NEW t \in Tasks, NEW n \in {"start", "cancel"}
          PROVE  Op(n, <<t>>) \in Below /\ Op(n, <<t>>).op = n /\ Sound(Op(n, <<t>>))'
      <3>1. n \in OfTask /\ n \in Harmless
        BY DEF OfTask, Harmless
      <3> QED BY <3>1, MadeOps, HarmlessSound DEF Op
    <2>6. ASSUME NEW tok \in Issued
          PROVE  /\ Op("wake", <<tok[1], tok[2], "release">>) \in Below
                 /\ Op("wake", <<tok[1], tok[2], "release">>).op = "wake"
                 /\ Sound(Op("wake", <<tok[1], tok[2], "release">>))'
      <3>1. tok[1] \in Slots /\ tok[2] \in Nat /\ "wake" \in Harmless
        BY DEF Issued, Harmless
      <3>2. PICK x : x = <<tok[1], tok[2], "release">>
        OBVIOUS
      <3>3. Op("wake", x) \in Below
        BY <3>1, <3>2, MadeOps
      <3>4. Sound(Op("wake", x))' /\ Op("wake", x).op = "wake"
        BY <3>1, HarmlessSound DEF Op
      <3> QED BY <3>2, <3>3, <3>4
    <2> QED BY <2>1, <2>2, <2>3, <2>4, <2>5, <2>6 DEF Outside
  <1>2. o.op \in Harmless /\ o.op \notin Tops
    BY <1>1 DEF Harmless, Tops, Committers
  <1> QED BY <1>1, <1>2, CallOne DEF tcb, registry

\* The task has finished its race or its wait and gives a token back.
LEMMA AloneOutcome ==
    ASSUME Alone, RegistryInv, AloneInv, NEW t \in Tasks, ReadOutcome(t) PROVE AloneInv'
  <1>0. held \in [Tasks -> SUBSET (Slots \X Nat)] /\ Data
    BY DEF RegistryInv, Types, AloneInv
  <1>1. todo[Exec] = <<>> /\ current = t
    BY DEF ReadOutcome, Runs
  <1>2. PICK tok \in held[t] : /\ held' = [held EXCEPT ![t] = @ \ {tok}]
                               /\ Call(Exec, <<Op("isWinner", tok), Op("release", tok)>>)
    BY DEF ReadOutcome
  <1>3. PICK s \in Slots, g \in Nat : tok = <<s, g>>
    BY <1>0
  <1>4. /\ slot' = slot /\ set' = set /\ wait' = wait /\ gen' = gen /\ st' = st
        /\ current' = current
    BY DEF ReadOutcome, tcb, registry
  <1>5. PICK o, p : o = Op("isWinner", <<s, g>>) /\ p = Op("release", <<s, g>>)
    OBVIOUS
  <1>6. o \in Below /\ p \in Below
    BY <1>5, MadeOps
  <1>7. o.op = "isWinner" /\ p.op = "release" /\ p.arg[1] = s /\ p.arg[2] = g
    BY <1>5 DEF Op
  <1>8. Sound(o)'
    BY <1>7 DEF Sound, Scheduling
  <1>9. st[t] # "suspended"
    BY <1>1, NothingOn DEF Sleepy
  <1>10. Names(s, g) => slot[s].task = t
    <2>1. tok[1] = s /\ tok[2] = g /\ slot[s].gen \in Nat
      BY <1>3, TokenOf
    <2>2. \/ g < slot[s].gen
          \/ g = slot[s].gen /\ (slot[s].inUse => slot[s].task = t)
      BY <1>0, <2>1 DEF Data, Held
    <2> QED BY <2>1, <2>2 DEF Names
  <1>11. Sound(p)'
    BY <1>4, <1>7, <1>9, <1>10 DEF Sound, Scheduling, Names
  <1>12. \A u \in Tasks : held'[u] \in SUBSET held[u]
    BY <1>0, <1>2
  <1>13. Call(Exec, <<o, p>>)
    BY <1>2, <1>3, <1>5
  <1>14. o # p /\ o.op \notin Tops \cup Registers /\ p.op \notin Tops \cup Registers
    BY <1>7 DEF Tops, Registers, Committers
  <1> QED BY <1>1, <1>4, <1>6, <1>8, <1>11, <1>12, <1>13, <1>14, CallTwo

\* The coroutine ends.
LEMMA AloneComplete ==
    ASSUME Alone, RegistryInv, AloneInv, NEW t \in Tasks, Complete(t) PROVE AloneInv'
  <1>1. PICK o, p : o = Op("terminal", <<t, "completed">>) /\ p = Op("clearCurrent", <<t>>)
    OBVIOUS
  <1>2. o \in Below /\ p \in Below
    BY <1>1, MadeOps DEF OfTask, Terminal
  <1>3. o.op = "terminal" /\ p.op = "clearCurrent"
    BY <1>1 DEF Op
  <1>4. Sound(o)' /\ Sound(p)'
    BY <1>3 DEF Sound, Scheduling
  <1>5. o # p /\ o.op \notin Tops \cup Registers /\ p.op \notin Tops \cup Registers
    BY <1>3 DEF Tops, Registers, Committers
  <1>6. Call(Exec, <<o, p>>) /\ todo[Exec] = <<>>
    BY <1>1 DEF Complete, Runs
  <1>7. /\ slot' = slot /\ set' = set /\ wait' = wait /\ gen' = gen /\ st' = st
        /\ current' = current /\ held' = held
    BY DEF Complete, tcb, registry, host
  <1>8. \A u \in Tasks : held'[u] \in SUBSET held[u]
    BY <1>7
  <1> QED BY <1>2, <1>4, <1>5, <1>6, <1>7, <1>8, CallTwo

\* toka_task_prepare_suspend_token
LEMMA AlonePrepare ==
    ASSUME Alone, RegistryInv, AloneInv, NEW t \in Tasks, NEW kind \in {"single", "pair"},
           NEW b \in BOOLEAN, PrepareSuspend(t, kind, b)
    PROVE  AloneInv'
  <1>0. st \in [Tasks -> TaskStates] /\ gen \in [Tasks -> Int]
    BY DEF RegistryInv, Types
  <1>1. todo[Exec] = <<>> /\ current = t /\ st[t] = "running"
    BY DEF PrepareSuspend, Runs
  <1>2. PICK v \in {"preparing", "pending"} : st' = [st EXCEPT ![t] = v]
    BY DEF PrepareSuspend
  <1>3. /\ slot' = slot /\ set' = set /\ wait' = wait /\ held' = held /\ current' = current
        /\ gen' = [gen EXCEPT ![t] = @ + 1]
    BY DEF PrepareSuspend, registry, host
  <1>4. PICK o : o = Op("allocate", <<t, kind>>)
    OBVIOUS
  <1>5. o \in Above /\ o.op = "allocate" /\ o.arg[1] = t
    BY <1>4, MadeOps DEF Op
  <1>6. Becomes({o}, o) /\ \A p : ~Under(p)
    <2> DEFINE B == Below \cup Above
    <2>1. o \in B
      BY <1>5
    <2> HIDE DEF B
    <2>2. <<o>> \in Seq(B)
      BY <2>1
    <2>3. <<o>> \in Seq(Below \cup Above)
      BY <2>2 DEF B
    <2>4. Call(Exec, <<o>>)
      BY <1>4 DEF PrepareSuspend
    <2>5. Lists(<<o>>, {o}, o)
      BY ShortLists
    <2> QED BY <1>1, <2>3, <2>4, <2>5, CallBecomes
  <1>7. (\A name : Doing(Exec, name)' <=> o.op = name) /\ Arg(Exec)' = o.arg
    BY <1>6, TopAfter
  <1>8. st'[t] = v /\ \A u \in Tasks : u # t => st'[u] = st[u] /\ gen'[u] = gen[u]
    BY <1>0, <1>2, <1>3
  <1>9. TopInv'
    <2>1. \A p : ~Under(p)'
      BY <1>6 DEF Becomes
    <2>2. Arg(Exec)'[1] = t
      BY <1>5, <1>7
    <2>3. \A name \in Committers \cup {"unregister"} : ~Doing(Exec, name)'
      BY <1>5, <1>7 DEF Committers
    <2> QED BY <1>2, <1>8, <2>1, <2>2, <2>3 DEF TopInv
  <1>10. ~Doing(Exec, "unregister") /\ ~Doing(Exec, "unregister")' /\ ~Doing(Exec, "helpCommit")
    BY <1>1, <1>5, <1>7, NothingOn
  <1>11. Live(t) = {}
    BY <1>1, NothingOn DEF Sleepy
  <1>12. \A u \in Tasks : Live(u) # {} => Epoch(u)' = Epoch(u)
    BY <1>8, <1>10, <1>11, EpochIs
  <1>13. \A u \in Tasks : st'[u] = "suspended" => Live(u) # {}
    BY <1>1, <1>2, <1>8, NothingOn
  <1>14. Data' /\ \A u : Live(u)' = Live(u)
    BY <1>3, <1>10, <1>12, <1>13, StillData
  <1>15. ASSUME NEW u \in Tasks PROVE Quiet(u)' /\ Returns(u)'
    <2>1. Quiet(u)'
      BY <1>1, <1>8, <1>11, <1>14, NothingOn DEF Quiet, Torn
    <2>2. On(o)' /\ Finishing(o, t)
      BY <1>5, <1>6 DEF Becomes, Finishing
    <2>3. Returns(u)'
      BY <1>1, <1>3, <2>2 DEF Returns, Finishing
    <2> QED BY <2>1, <2>3
  <1>16. Sound(o)' /\ o.op \notin Registers
    BY <1>5 DEF Sound, Scheduling, Registers
  <1> QED BY <1>6, <1>9, <1>14, <1>15, <1>16, FreshInv

\* The tasks, the registry and the stack stay.
LEMMA AloneStill ==
    ASSUME RegistryInv, AloneInv,
           UNCHANGED <<st, gen, wait, slot, set, held, lock, current, todo>>
    PROVE  AloneInv'
  <1>1. (\A o : On(o)' <=> On(o)) /\ (\A o : Under(o)' <=> Under(o))
    BY DEF On, Under
  <1>2. (\A name : Doing(Exec, name)' <=> Doing(Exec, name)) /\ Arg(Exec)' = Arg(Exec)
    BY DEF Doing, Arg
  <1>3. \A t : /\ Live(t)' = Live(t) /\ Epoch(t)' = Epoch(t) /\ (Committing(t)' <=> Committing(t))
               /\ (Clears(t)' <=> Clears(t)) /\ (Woken(t)' <=> Woken(t))
    BY <1>2 DEF Live, Epoch, Undone, Committing, Clears, Woken, Doing, Arg
  <1>4. \A t : (Torn(t)' <=> Torn(t)) /\ (Linked(t)' <=> Linked(t)) /\ (Asleep(t)' <=> Asleep(t))
               /\ (Held(t)' <=> Held(t))
    BY <1>2, <1>3 DEF Torn, Linked, Asleep, Held
  <1>5. (Group' <=> Group) /\ (Decided' <=> Decided) /\ (Won' <=> Won)
    BY <1>2, <1>3 DEF Group, Decided, Won
  <1>6. \A o : Sound(o)' <=> Sound(o)
    BY <1>4 DEF Sound, Names
  <1>7. TopInv' <=> TopInv
    BY <1>1, <1>2, <1>3 DEF TopInv
  <1>8. StackInv'
    BY <1>1, <1>6, <1>7 DEF StackInv, AloneInv
  <1>9. Data'
    BY <1>4, <1>5 DEF Data, AloneInv
  <1>10. \A t \in Tasks : Quiet(t)' /\ Returns(t)'
    BY <1>1, <1>4 DEF AloneInv, Quiet, Returns, Finishing
  <1> QED BY <1>8, <1>9, <1>10 DEF AloneInv

LEMMA AloneUser ==
    ASSUME Alone, RegistryInv, AloneInv, NEW t \in Tasks, User(t) PROVE AloneInv'
  <1>1. "plain" \notin Kinds /\ Kinds \ {"plain"} \subseteq {"single", "pair"}
    BY ConstantsAssumption DEF Alone, ConstantsAssumption
  <1>2. ASSUME MarkHandled(t) PROVE AloneInv'
    BY <1>2, AloneStill DEF MarkHandled, registry, host
  <1> QED BY <1>1, <1>2, AlonePrepare, AloneOutcome, AloneComplete DEF User

\* One turn of the loop of toka_task_pop_ready.
LEMMA AlonePop == ASSUME Alone, RegistryInv, AloneInv, PopReady PROVE AloneInv'
  <1>0. st \in [Tasks -> TaskStates] /\ NoTask \notin Tasks
    BY MarksAssumption DEF RegistryInv, Types, MarksAssumption
  <1>1. /\ todo[Exec] = <<>> /\ todo' = todo /\ current = NoTask /\ gen' = gen /\ held' = held
        /\ slot' = slot /\ set' = set /\ wait' = wait
    BY DEF PopReady, registry
  <1>2. PICK u : \/ st[u] = "queued" /\ st' = [st EXCEPT ![u] = "running"] /\ current' = u
                 \/ st' = st /\ current' = current
    BY DEF PopReady, Claimable
  <1>3. \A t \in Tasks : /\ st'[t] = st[t] \/ (st[t] = "queued" /\ st'[t] = "running")
                         /\ current' = t => st'[t] = "running"
    BY <1>0, <1>1, <1>2
  <1>4. ~Doing(Exec, "unregister") /\ ~Doing(Exec, "unregister")' /\ ~Doing(Exec, "helpCommit")
    BY <1>1 DEF Doing
  <1>5. \A t \in Tasks : Epoch(t)' = Epoch(t)
    BY <1>1, <1>4, EpochIs
  <1>6. \A t \in Tasks : st'[t] = "suspended" => Live(t) # {}
    BY <1>1, <1>3, NothingOn
  <1>7. \A t \in Tasks : held'[t] \in SUBSET held[t]
    BY <1>1
  <1>8. Data' /\ \A t : Live(t)' = Live(t)
    BY <1>1, <1>4, <1>5, <1>6, <1>7, StillData
  <1>9. \A t \in Tasks : Quiet(t)'
    BY <1>1, <1>3, <1>8, NothingOn DEF Quiet, Torn, Sleepy
  <1>10. \A t \in Tasks : Returns(t)'
    BY <1>3 DEF Returns, Sleepy
  <1>11. RegistryInv'
    BY PopStep
  <1> QED BY <1>1, <1>8, <1>9, <1>10, <1>11, EmptyInv
-----------------------------------------------------------------------------
(* The theorems about the executor alone.                                  *)

\* At the start no task is registered.
LEMMA AloneInit == Init => AloneInv
  <1> SUFFICES ASSUME Init PROVE AloneInv
    OBVIOUS
  <1> DEFINE fs == FreeSlot(1, FALSE)
  <1>0. /\ \A s \in Slots : slot[s] = fs
        /\ \A i \in Sets : set[i] = NewSet
        /\ todo[Exec] = <<>> /\ Exec \in Actors
        /\ \A t \in Tasks : st[t] = "created" /\ wait[t] = NoWait /\ held[t] = {}
        /\ current = NoTask
    BY DEF Init, Actors
  <1>1. ~fs.active /\ fs.set = NoSet /\ NewSet.state = "none" /\ NoWait.slot = NoSlot
    BY DEF FreeSlot, NewSet, NoWait
  <1> HIDE DEF fs
  <1>2. \A t : Live(t) = {}
    BY <1>0, <1>1 DEF Live
  <1>3. Data
    <2>1. \A t \in Tasks : Linked(t)
      BY <1>0, <1>1, <1>2 DEF Linked
    <2>2. \A t \in Tasks : Asleep(t) /\ Held(t)
      BY <1>0 DEF Asleep, Held
    <2>3. Group /\ Decided /\ Won
      BY <1>0, <1>1 DEF Group, Decided, Won
    <2> QED BY <2>1, <2>2, <2>3 DEF Data
  <1>4. \A t \in Tasks : Quiet(t) /\ Returns(t)
    BY <1>0, <1>2 DEF Quiet, Torn, Returns, Sleepy
  <1>5. Len(todo[Exec]) = 0
    BY <1>0
  <1>6. \A o : ~On(o) /\ ~Under(o)
    BY <1>5 DEF On, Under
  <1>7. \A name : ~Doing(Exec, name)
    BY <1>0 DEF Doing
  <1>8. StackInv
    BY <1>6, <1>7 DEF StackInv, TopInv
  <1> QED BY <1>3, <1>4, <1>8 DEF AloneInv

LEMMA AloneNext == ASSUME Alone, RegistryInv, AloneInv, [Next]_vars PROVE AloneInv'
  <1>1. CASE PopReady
    BY <1>1, AlonePop
  <1>2. ASSUME Step(Exec) PROVE AloneInv'
    <2>1. CASE Publish(Exec) \/ IsWinner(Exec) \/ ClearCurrent(Exec)
      BY <2>1, AloneReturns
    <2>2. CASE RequestCancel(Exec)
      BY <2>2, AloneRequest
    <2>3. CASE CommitSuspend(Exec)
      BY <2>3, AloneCommit
    <2>4. CASE AbortSuspend(Exec)
      BY <2>4, AloneAbort
    <2>5. CASE AbortState(Exec)
      BY <2>5, AloneAbortState
    <2>6. CASE CancelActive(Exec)
      BY <2>6, AloneCancelActive
    <2>7. CASE TrySchedule(Exec) \/ ScheduleLoop(Exec)
      BY <2>7, AloneSchedule
    <2>8. CASE CommitState(Exec)
      BY <2>8, AloneCommitState
    <2>9. CASE ScheduleState(Exec)
      BY <2>9, AloneScheduleState
    <2>10. CASE AbortCas(Exec)
      BY <2>10, AloneAbortCas
    <2>11. CASE Start(Exec)
      BY <2>11, AloneStart
    <2>12. CASE ColdCancel(Exec)
      BY <2>12, AloneColdCancel
    <2>13. CASE PendWake(Exec)
      BY <2>13, AlonePendWake
    <2>14. CASE SuspendAndRegister(Exec)
      BY <2>14, AloneRegister
    <2>15. CASE TakeBackGeneration(Exec)
      BY <2>15, AloneTakeBack
    <2>16. CASE PublishTerminal(Exec)
      BY <2>16, AloneTerminal
    <2>17. CASE ReapTerminalOutcomes(Exec)
      BY <2>17, AloneReap
    <2>18. CASE Release(Exec)
      BY <2>18, AloneRelease
    <2>19. CASE CancelWait(Exec)
      BY <2>19, AloneCancelWait
    <2>20. CASE CancelArbiter(Exec)
      BY <2>20, AloneArbiter
    <2>21. CASE TryWake(Exec)
      BY <2>21, AloneTryWake
    <2>22. CASE HelpCommit(Exec)
      BY <2>22, AloneHelpCommit
    <2>23. CASE Allocate(Exec)
      BY <2>23, AloneAllocate
    <2>24. CASE CancelLoad(Exec) \/ CancelClaim(Exec)
      <3>1. PICK name \in {"cancelLoad", "cancelClaim"} : Doing(Exec, name)
        BY <2>24 DEF CancelLoad, CancelClaim
      <3> QED BY <3>1, TopSound DEF Sound
    <2> QED BY <1>2, <2>1, <2>2, <2>3, <2>4, <2>5, <2>6, <2>7, <2>8, <2>9, <2>10, <2>11, <2>12,
               <2>13, <2>14, <2>15, <2>16, <2>17, <2>18, <2>19, <2>20, <2>21, <2>22, <2>23, <2>24
            DEF Step
  <1>3. ASSUME Outside(Exec) PROVE AloneInv'
    BY <1>3, AloneOutside
  <1>4. ASSUME NEW t \in Tasks, User(t) PROVE AloneInv'
    BY <1>4, AloneUser
  <1>5. CASE UNCHANGED vars
    BY <1>5, AloneStill DEF vars, tcb, registry, ready, host
  <1> QED BY <1>1, <1>2, <1>3, <1>4, <1>5, AloneActors DEF Next

\* Where the executor is alone, its registrations, links and stack agree in every
\* reachable state.
THEOREM AloneInvHolds == ASSUME Alone PROVE Spec => []AloneInv
  <1>1. RegistryInv /\ AloneInv /\ [Next]_vars => AloneInv'
    BY AloneNext
  <1> QED BY <1>1, AloneInit, RegistryInvHolds, PTL DEF Spec

\* A registration that can still win is of the current epoch of its task and is
\* the one its task links to: with no other thread in the runtime, no event that
\* toka_wait_registry_try_wake accepts is meant for a suspension that is over.
THEOREM RegistrationIsCurrentHolds == ASSUME Alone PROVE Spec => []RegistrationIsCurrent
  <1>1. RegistryInv /\ AloneInv => RegistrationIsCurrent
    <2> SUFFICES ASSUME RegistryInv, AloneInv, NEW s \in Slots, slot[s].active, Free
                 PROVE  /\ gen[slot[s].task] = slot[s].epoch
                        /\ wait[slot[s].task].set = slot[s].set
                        /\ slot[s].set = NoSet => wait[slot[s].task].slot = s
      BY DEF RegistrationIsCurrent
    <2>1. PICK t : t = slot[s].task
      OBVIOUS
    <2>2. t \in Tasks /\ s \in Live(t)
      BY <2>1 DEF RegistryInv, SlotInv, Live
    <2>3. ~Doing(Exec, "unregister")
      BY MarksAssumption DEF AloneInv, StackInv, TopInv, Free, MarksAssumption, Actors
    <2>4. Epoch(t) = gen[t]
      BY <2>3, EpochIs
    <2>5. slot[s].epoch = Epoch(t) /\ slot[s].set = wait[t].set
          /\ (slot[s].set = NoSet => s = wait[t].slot)
      BY <2>2 DEF AloneInv, Data, Linked
    <2> QED BY <2>1, <2>4, <2>5
  <1> QED BY <1>1, RegistryInvHolds, AloneInvHolds, PTL

\* No wake-up is lost: with no other thread in the runtime, a task that is
\* suspended when every call has returned has an active registration, because
\* every event that takes one away schedules the task, at once or through the
\* commit of its set, and toka_task_commit_suspend suspends no task that has none.
THEOREM SuspendedIsRegisteredHolds == ASSUME Alone PROVE Spec => []SuspendedIsRegistered
  <1>1. RegistryInv /\ AloneInv => SuspendedIsRegistered
    <2> SUFFICES ASSUME RegistryInv, AloneInv, Idle, NEW t \in Tasks, st[t] = "suspended"
                 PROVE  Waits(t)
      BY DEF SuspendedIsRegistered
    <2>1. todo[Exec] = <<>>
      BY DEF Idle, Actors
    <2>2. Live(t) # {}
      BY <2>1, NothingOn
    <2>3. wait[t].slot \in Live(t)
      BY <2>2 DEF AloneInv, Data, Linked
    <2> QED BY <2>3, Finite DEF Live, Waits, NoSlot
  <1> QED BY <1>1, RegistryInvHolds, AloneInvHolds, PTL

\* When a task runs again after a race of two sources and no other thread is in
\* the runtime, the set is committed and its outcome slots name exactly one
\* winner: toka_wait_set_commit_winner_locked came before the task was resumed.
THEOREM RaceDecidedHolds == ASSUME Alone PROVE Spec => []RaceDecided
  <1>1. RegistryInv /\ AloneInv => RaceDecided
    <2> SUFFICES ASSUME RegistryInv, AloneInv, NEW t \in Tasks, NEW i \in Sets, Runs(t),
                        set[i].task = t, \E s \in Slots : slot[s].set = i
                 PROVE  /\ set[i].state = "inactive" /\ set[i].winner # NoSlot
                        /\ \A s \in Slots : slot[s].set = i =>
                              (slot[s].state = "won" <=> s = set[i].winner)
      BY DEF RaceDecided
    <2>1. todo[Exec] = <<>> /\ current = t
      BY DEF Runs
    <2>2. Live(t) = {} /\ \A name : ~Doing(Exec, name)
      BY <2>1, NothingOn
    <2>3. i # NoSet
      BY Finite DEF NoSet
    <2>4. ASSUME NEW s \in Slots, slot[s].set = i
          PROVE  /\ ~slot[s].active /\ set[i].state \in {"wonPending", "inactive"}
                 /\ set[i].winner # NoSlot /\ (slot[s].state = "won" <=> s = set[i].winner)
      <3>1. slot[s].task = t
        BY <2>3, <2>4 DEF AloneInv, Data, Group
      <3>2. ~slot[s].active
        BY <2>2, <3>1 DEF Live
      <3> QED BY <2>3, <2>4, <3>2 DEF AloneInv, Data, Decided, RegistryInv, SlotInv
    <2>5. set[i].state # "wonPending"
      BY <2>2 DEF AloneInv, Data, Won
    <2> QED BY <2>4, <2>5
  <1> QED BY <1>1, RegistryInvHolds, AloneInvHolds, PTL
=============================================================================
