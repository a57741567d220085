-------------------------- MODULE TaskScopeProofs --------------------------
(***************************************************************************)
(* Proofs about TaskScope, for every number of children, scopes and        *)
(* callers of request_cancel: no abort, exact reference counts, no result  *)
(* left behind, and no child missed by a cancellation.                     *)
(*                                                                         *)
(* Reference counts are sizes of sets of holders.  A step moves one actor  *)
(* and at most one registry, so each such set gains or loses at most one   *)
(* element (CardinalityOfMove); what remains is arithmetic over what the   *)
(* moved actor holds before and after.  The local invariants say at which  *)
(* program points an actor holds what.                                     *)
(***************************************************************************)
EXTENDS TaskScope, Integers, FiniteSetTheorems, TLAPS

-----------------------------------------------------------------------------
(* The inductive invariant.                                                *)

\* The records of TypeOK, with counts that might run below zero.
TaskRec == [state : {"Created", "Running"} \cup Terminal,
            refs : Int, cancel_requested : {0, 1},
            owner : {"Consumer", "Scope", "Detached"},
            detached : {0, 1}, owner_released : {0, 1},
            handle : {0, 1}, started : {0, 1}, result : {"None", "Live", "Taken", "Dropped"}]
ScopeRec == [state : {"Unused", "Open", "Closing", "Closed"},
             refs : Int, value : {0, 1}, children : SUBSET Tasks]
ParentRec == [refs : Int, cancel_requested : {0, 1},
              cancel_scopes : SUBSET Scopes, cancel_children : SUBSET Tasks]
ActRec == [pc : PCs, op : Ops, scope : Scopes \cup {None},
           scopes : SUBSET Scopes, task : Tasks \cup {None},
           kids : SUBSET Tasks, handled : {0, 1}]

Types == /\ task \in [Tasks -> TaskRec]
         /\ scope \in [Scopes -> ScopeRec]
         /\ parent \in ParentRec
         /\ act \in [Actors -> ActRec]
         /\ cancels \in 0..MaxCancels

\* Where an actor's list of children may be filled, and where the list is of
\* children it took out of a scope.
KidPCs == {"sweep", "dispose", "orphan", "detach", "drop", "drop_mark", "drop_cancel"}
TakenPCs == {"dispose", "orphan", "detach"}
\* Where a canceller refers to the scope it is at.
HoldPCs == {"cancel_all", "sweep", "release"}

\* One actor's record.
LocalOK(l) ==
    /\ l.kids # {} => l.pc \in KidPCs
    /\ l.pc = "detach" => l.task \in l.kids
    /\ l.scope \notin l.scopes
    /\ l.pc \in {"idle", "snapshot"} => l.scope = None /\ l.scopes = {} /\ l.op = "none"
    /\ l.pc \in {"cancel_all", "release", "orphan", "detach"} => l.scope \in Scopes

LocalInv ==
    /\ \A a \in Actors : LocalOK(act[a])
    /\ act[Owner].scopes = {}
    /\ \A x \in Cancellers :
         act[x].pc \in {"idle", "snapshot", "sweep", "scopes", "cancel_all",
                        "release", "orphan", "detach"}

\* The scope the owner is at is its own; close and shutdown keep it closing and
\* come to finish_close with all children ended.
OwnerInv ==
    LET o == act[Owner] IN
    /\ o.pc \in {"idle", "start", "cancel_all", "sweep", "join", "finish",
                 "dispose", "release", "orphan", "detach", "ended",
                 "drop", "drop_mark", "drop_cancel"}
    /\ o.pc = "start" => o.task \in Tasks
    /\ \/ o.pc \in {"cancel_all", "sweep", "join", "finish", "release"}
       \/ o.pc = "dispose" /\ o.op = "close"
       => o.scope \in Scopes /\ scope[o.scope].value = 1
    /\ o.pc = "finish" => o.op \in {"close", "shutdown"} /\ IsDone(o.scope)
    /\ /\ o.pc \in {"cancel_all", "sweep", "join", "finish"}
       /\ o.op \in {"close", "shutdown"}
       => scope[o.scope].state = "Closing"
    /\ o.pc = "dispose" => \A c \in o.kids : task[c].state \in Terminal
    /\ o.pc \in {"drop", "drop_mark", "drop_cancel"} => \E c \in Tasks : o.kids = {c}
    /\ o.pc = "drop" => \A c \in o.kids : task[c].handle = 0 /\ task[c].owner # "Scope"
    /\ o.pc = "drop_mark" => \A c \in o.kids : task[c].owner = "Detached"

\* A scope that is not in use has no children.
ScopeInv ==
    \A s \in Scopes :
        /\ scope[s].state = "Unused" => scope[s].refs = 0
        /\ scope[s].state \in {"Unused", "Closed"} \/ scope[s].refs = 0
             => scope[s].children = {}

\* A child's record: the handle is the consumer's, the owner's reference goes
\* when a child marked detached has ended, and with it any result.
TaskLocal(t) ==
    /\ t.handle = 1 => t.owner = "Consumer"
    /\ t.owner_released = 1 => t.owner = "Detached" /\ t.state \in Terminal
    /\ t.result = "None" <=> t.state # "Completed"
    /\ t.detached = 1 => t.owner = "Detached"
    /\ t.owner_released = 1 => t.result # "Live"

\* The scope that owns the child has not consumed its result yet.
Due(t) == t.owner = "Scope" /\ t.state # "Canceled" /\ t.result \in {"None", "Live"}

\* Child c is in the hands of a scope, or of an actor that took it out of one.
Kept(c) == \/ \E s \in Scopes : c \in scope[s].children
           \/ \E a \in Actors : act[a].pc \in TakenPCs /\ c \in act[a].kids

TaskInv ==
    \A c \in Tasks :
        /\ TaskLocal(task[c])
        /\ Due(task[c]) => Kept(c)
        /\ \A s \in Scopes :
             c \in scope[s].children /\ task[c].state = "Created"
               => act[Owner].pc = "start" /\ act[Owner].task = c

AskedOf(c) == task[c].cancel_requested = 1 \/ task[c].state \in Terminal

\* A canceller at scope s: the scope takes no more children, and those it has
\* are asked or still on the canceller's list.
Refusing == {"Closing", "Closed"}
Walk(x) ==
    act[x].pc \in HoldPCs /\ act[x].scope \in Scopes =>
        /\ scope[act[x].scope].state \in Refusing
        /\ act[x].pc = "sweep" => \A c \in scope[act[x].scope].children :
                                     c \in act[x].kids \/ AskedOf(c)
        /\ act[x].pc = "release" => AllAsked(act[x].scope)
WalkInv == \A x \in Cancellers : Walk(x)

\* As long as the cancellation stands, a scope with a child that is not asked
\* has a canceller that has not come to it yet.
PendingAt(l, s) == \/ l.pc = "snapshot"
                   \/ s \in l.scopes
                   \/ l.scope = s /\ l.pc \in {"cancel_all", "sweep"}
Pending(s) == \E x \in Cancellers : PendingAt(act[x], s)
ReachInv ==
    parent.cancel_requested = 1 =>
        \A s \in parent.cancel_scopes : AllAsked(s) \/ Pending(s)

ScopeIInv == /\ Types /\ LocalInv /\ OwnerInv /\ ScopeInv
             /\ TaskInv /\ WalkInv /\ ReachInv /\ RefsExact /\ NoAbort

-----------------------------------------------------------------------------
(* Counting.                                                               *)

One(b) == IF b THEN 1 ELSE 0

\* Two sets that differ in at most one element differ by at most one in size.
LEMMA CardinalityOfMove ==
    ASSUME NEW S, NEW T, NEW a, IsFiniteSet(S), S \ {a} = T \ {a}
    PROVE  /\ Cardinality(S) \in Nat /\ Cardinality(T) \in Nat
           /\ Cardinality(T) = Cardinality(S) + One(a \in T) - One(a \in S)
<1>1. /\ IsFiniteSet(S \ {a}) /\ Cardinality(S) \in Nat /\ Cardinality(S \ {a}) \in Nat
      /\ Cardinality(S \ {a}) = Cardinality(S) - One(a \in S)
  <2>1. IsFiniteSet(S \ {a}) /\ Cardinality(S \ {a}) = IF a \in S THEN Cardinality(S) - 1
                                                    ELSE Cardinality(S)
    BY FS_RemoveElement
  <2>2. Cardinality(S) \in Nat /\ Cardinality(S \ {a}) \in Nat
    BY <2>1, FS_CardinalityType
  <2> QED
    BY <2>1, <2>2 DEF One
<1>2. CASE a \in T
  <2>1. T = (S \ {a}) \cup {a}
    BY <1>2
  <2>2. IsFiniteSet(T) /\ Cardinality(T) = Cardinality(S \ {a}) + 1
    BY <1>1, <2>1, FS_AddElement
  <2> QED
    BY <1>1, <1>2, <2>2 DEF One
<1>3. CASE a \notin T
  <2>1. T = S \ {a}
    BY <1>3
  <2> QED
    BY <1>1, <1>3, <2>1 DEF One
<1> QED
  BY <1>2, <1>3

\* There are finitely many actors and scopes.
LEMMA Finite == /\ IsFiniteSet(Actors) /\ IsFiniteSet(Scopes) /\ IsFiniteSet(Cancellers)
                /\ Owner \in Actors /\ Cancellers \subseteq Actors /\ Owner \notin Cancellers
                /\ \A a \in Actors : a = Owner \/ a \in Cancellers
<1>1. IsFiniteSet(Cancellers) /\ IsFiniteSet(Scopes)
  BY ScopeAssumption
<1>2. IsFiniteSet(Cancellers \cup {Owner})
  BY <1>1, FS_AddElement
<1> QED
  BY <1>1, <1>2, ScopeAssumption DEF Actors

\* Who holds what: the sets that the reference counts are sizes of.
InScopes(c) == {s \in Scopes : c \in scope[s].children}
OnLists(c) == {a \in Actors : c \in act[a].kids}
HoldsScope(l, s) == s \in l.scopes \/ (l.scope = s /\ l.pc \in HoldPCs)
AtScope(s) == {x \in Cancellers : HoldsScope(act[x], s)}
Retiring == {a \in Actors : act[a].pc \in {"orphan", "detach"}}
Walking == {x \in Cancellers : act[x].pc # "idle"}

OwnerHolds(t) == One(t.owner # "Scope" /\ t.owner_released = 0)

\* The sums of RefsExact in these words.
LEMMA HoldersAre ==
    /\ \A c \in Tasks : Holders(c) = OwnerHolds(task[c]) + One(c \in parent.cancel_children)
                                     + Cardinality(InScopes(c)) + Cardinality(OnLists(c))
    /\ \A s \in Scopes : ScopeHolders(s) = scope[s].value + Cardinality(AtScope(s))
    /\ ParentHolders = One(act[Owner].pc # "ended") + Cardinality(parent.cancel_scopes)
                       + Cardinality(Retiring) + Cardinality(Walking)
  BY DEF Holders, ScopeHolders, ParentHolders, OwnerHolds, One, InScopes, OnLists, AtScope,
         HoldsScope, HoldPCs, Retiring, Walking

\* The sizes are numbers, and not zero when there is a holder.
LEMMA Sizes ==
    /\ \A c \in Tasks :
         /\ Cardinality(InScopes(c)) \in Nat /\ Cardinality(OnLists(c)) \in Nat
         /\ \A s \in Scopes : c \in scope[s].children => Cardinality(InScopes(c)) >= 1
         /\ \A a \in Actors : c \in act[a].kids => Cardinality(OnLists(c)) >= 1
    /\ \A s \in Scopes :
         /\ Cardinality(AtScope(s)) \in Nat
         /\ \A x \in Cancellers : HoldsScope(act[x], s) => Cardinality(AtScope(s)) >= 1
    /\ Cardinality(Retiring) \in Nat /\ Cardinality(Walking) \in Nat
<1>1. \A S : S \in SUBSET Actors \/ S \in SUBSET Scopes =>
          Cardinality(S) \in Nat /\ (Cardinality(S) = 0 <=> S = {})
  BY Finite, FS_Subset, FS_CardinalityType, FS_EmptySet
<1>2. /\ \A c : InScopes(c) \in SUBSET Scopes /\ OnLists(c) \in SUBSET Actors
      /\ \A s : AtScope(s) \in SUBSET Actors
      /\ Retiring \in SUBSET Actors /\ Walking \in SUBSET Actors
  BY Finite DEF InScopes, OnLists, AtScope, Retiring, Walking
<1>3. \A S : S \in SUBSET Actors \/ S \in SUBSET Scopes =>
          Cardinality(S) \in Nat /\ (S # {} => Cardinality(S) >= 1)
  BY <1>1
<1>4. /\ \A c : Cardinality(InScopes(c)) \in Nat /\ Cardinality(OnLists(c)) \in Nat
      /\ \A s : Cardinality(AtScope(s)) \in Nat
      /\ Cardinality(Retiring) \in Nat /\ Cardinality(Walking) \in Nat
  BY <1>2, <1>3
<1>5. ASSUME NEW c, NEW s \in Scopes, c \in scope[s].children
      PROVE  Cardinality(InScopes(c)) >= 1
  <2>1. InScopes(c) # {}
    BY <1>5 DEF InScopes
  <2> QED
    BY <2>1, <1>2, <1>3
<1>6. ASSUME NEW c, NEW a \in Actors, c \in act[a].kids
      PROVE  Cardinality(OnLists(c)) >= 1
  <2>1. OnLists(c) # {}
    BY <1>6 DEF OnLists
  <2> QED
    BY <2>1, <1>2, <1>3
<1>7. ASSUME NEW s, NEW x \in Cancellers, HoldsScope(act[x], s)
      PROVE  Cardinality(AtScope(s)) >= 1
  <2>1. AtScope(s) # {}
    BY <1>7 DEF AtScope
  <2> QED
    BY <2>1, <1>2, <1>3
<1> QED
  BY <1>4, <1>5, <1>6, <1>7

\* When one actor moves, every set of actors changes in that actor only.
LEMMA ActorMoves ==
    ASSUME NEW a \in Actors, \A b \in Actors : b # a => act'[b] = act[b]
    PROVE  /\ \A c \in Tasks : Cardinality(OnLists(c)') = Cardinality(OnLists(c))
                 + One(c \in act'[a].kids) - One(c \in act[a].kids)
           /\ \A s \in Scopes : Cardinality(AtScope(s)') = Cardinality(AtScope(s))
                 + One(a # Owner /\ HoldsScope(act'[a], s))
                 - One(a # Owner /\ HoldsScope(act[a], s))
           /\ Cardinality(Retiring') = Cardinality(Retiring)
                 + One(act'[a].pc \in {"orphan", "detach"})
                 - One(act[a].pc \in {"orphan", "detach"})
           /\ Cardinality(Walking') = Cardinality(Walking)
                 + One(a # Owner /\ act'[a].pc # "idle")
                 - One(a # Owner /\ act[a].pc # "idle")
<1>f. \A S \in SUBSET Actors : IsFiniteSet(S)
  BY Finite, FS_Subset
<1>1. ASSUME NEW c \in Tasks
      PROVE  Cardinality(OnLists(c)') = Cardinality(OnLists(c))
                 + One(c \in act'[a].kids) - One(c \in act[a].kids)
  <2>1. OnLists(c) \ {a} = OnLists(c)' \ {a} /\ IsFiniteSet(OnLists(c))
    BY <1>f DEF OnLists
  <2>2. /\ a \in OnLists(c) <=> c \in act[a].kids
        /\ a \in OnLists(c)' <=> c \in act'[a].kids
    BY DEF OnLists
  <2> QED
    BY <2>1, <2>2, CardinalityOfMove DEF One
<1>2. ASSUME NEW s \in Scopes
      PROVE  Cardinality(AtScope(s)') = Cardinality(AtScope(s))
                 + One(a # Owner /\ HoldsScope(act'[a], s))
                 - One(a # Owner /\ HoldsScope(act[a], s))
  <2>1. AtScope(s) \ {a} = AtScope(s)' \ {a} /\ IsFiniteSet(AtScope(s))
    BY <1>f, Finite DEF AtScope
  <2>2. /\ a \in AtScope(s) <=> a # Owner /\ HoldsScope(act[a], s)
        /\ a \in AtScope(s)' <=> a # Owner /\ HoldsScope(act'[a], s)
    BY Finite DEF AtScope
  <2> QED
    BY <2>1, <2>2, CardinalityOfMove DEF One
<1>3. /\ Cardinality(Retiring') = Cardinality(Retiring)
                 + One(act'[a].pc \in {"orphan", "detach"})
                 - One(act[a].pc \in {"orphan", "detach"})
  <2>1. Retiring \ {a} = Retiring' \ {a} /\ IsFiniteSet(Retiring)
    BY <1>f DEF Retiring
  <2>2. /\ a \in Retiring <=> act[a].pc \in {"orphan", "detach"}
        /\ a \in Retiring' <=> act'[a].pc \in {"orphan", "detach"}
    BY DEF Retiring
  <2> QED
    BY <2>1, <2>2, CardinalityOfMove DEF One
<1>4. Cardinality(Walking') = Cardinality(Walking)
                 + One(a # Owner /\ act'[a].pc # "idle")
                 - One(a # Owner /\ act[a].pc # "idle")
  <2>1. Walking \ {a} = Walking' \ {a} /\ IsFiniteSet(Walking)
    BY <1>f, Finite DEF Walking
  <2>2. /\ a \in Walking <=> a # Owner /\ act[a].pc # "idle"
        /\ a \in Walking' <=> a # Owner /\ act'[a].pc # "idle"
    BY Finite DEF Walking
  <2> QED
    BY <2>1, <2>2, CardinalityOfMove DEF One
<1> QED
  BY <1>1, <1>2, <1>3, <1>4

\* When one scope's children change, a child's set of scopes changes in it only.
LEMMA ScopeMoves ==
    ASSUME NEW s \in Scopes,
           \A r \in Scopes : r # s => scope'[r].children = scope[r].children
    PROVE  \A c \in Tasks : Cardinality(InScopes(c)') = Cardinality(InScopes(c))
                 + One(c \in scope'[s].children) - One(c \in scope[s].children)
<1> SUFFICES ASSUME NEW c \in Tasks
             PROVE  Cardinality(InScopes(c)') = Cardinality(InScopes(c))
                 + One(c \in scope'[s].children) - One(c \in scope[s].children)
  OBVIOUS
<1>1. InScopes(c) \ {s} = InScopes(c)' \ {s} /\ IsFiniteSet(InScopes(c))
  BY Finite, FS_Subset DEF InScopes
<1>2. /\ s \in InScopes(c) <=> c \in scope[s].children
      /\ s \in InScopes(c)' <=> c \in scope'[s].children
  BY DEF InScopes
<1> QED
  BY <1>1, <1>2, CardinalityOfMove DEF One

-----------------------------------------------------------------------------
(* What the operations on a child's record do to its fields.               *)

\* A retained child differs in its count only.
LEMMA RetainedFields ==
    ASSUME NEW t \in TaskRec
    PROVE  /\ Retained(t) \in TaskRec
           /\ Retained(t).refs = t.refs + 1
           /\ Retained(t).state = t.state /\ Retained(t).cancel_requested = t.cancel_requested
           /\ Retained(t).owner = t.owner /\ Retained(t).owner_released = t.owner_released
           /\ Retained(t).handle = t.handle /\ Retained(t).result = t.result
           /\ Retained(t).detached = t.detached
  BY DEF TaskRec, Retained
\* So does a released one.
LEMMA ReleasedFields ==
    ASSUME NEW t \in TaskRec
    PROVE  /\ Released(t) \in TaskRec
           /\ Released(t).refs = t.refs - 1
           /\ Released(t).state = t.state /\ Released(t).cancel_requested = t.cancel_requested
           /\ Released(t).owner = t.owner /\ Released(t).owner_released = t.owner_released
           /\ Released(t).handle = t.handle /\ Released(t).result = t.result
           /\ Released(t).detached = t.detached
  BY DEF TaskRec, Released
\* Disposing drops a live result of the owner's, and nothing else.
LEMMA DisposedFields ==
    ASSUME NEW t \in TaskRec, NEW o
    PROVE  /\ Disposed(t, o) \in TaskRec
           /\ Disposed(t, o).refs = t.refs
           /\ Disposed(t, o).state = t.state
           /\ Disposed(t, o).cancel_requested = t.cancel_requested
           /\ Disposed(t, o).owner = t.owner /\ Disposed(t, o).owner_released = t.owner_released
           /\ Disposed(t, o).handle = t.handle /\ Disposed(t, o).detached = t.detached
           /\ Disposed(t, o).result = IF t.owner = o /\ t.state = "Completed" /\ t.result = "Live"
                                        THEN "Dropped" ELSE t.result
<1>1. [t EXCEPT !.result = "Dropped"] \in TaskRec
  BY DEF TaskRec
<1> QED
  BY <1>1 DEF TaskRec, Disposed

\* Draining drops a detached child's live result, and the owner's reference of
\* one that is marked and has ended.
LEMMA DrainedFields ==
    ASSUME NEW t \in TaskRec, t.detached = 1 => t.owner = "Detached"
    PROVE  /\ Drained(t) \in TaskRec
           /\ Drained(t).refs = t.refs + OwnerHolds(Drained(t)) - OwnerHolds(t)
           /\ Drained(t).state = t.state /\ Drained(t).cancel_requested = t.cancel_requested
           /\ Drained(t).owner = t.owner /\ Drained(t).handle = t.handle
           /\ Drained(t).detached = t.detached
           /\ Drained(t).owner_released = IF t.detached = 1 /\ t.state \in Terminal
                                            THEN 1 ELSE t.owner_released
           /\ Drained(t).result = IF /\ t.owner = "Detached" /\ t.state = "Completed"
                                     /\ t.result = "Live"
                                    THEN "Dropped" ELSE t.result
<1> DEFINE d == Disposed(t, "Detached")
           r == Released(d)
<1>1. /\ d \in TaskRec /\ d.refs = t.refs /\ d.state = t.state /\ d.handle = t.handle
      /\ d.cancel_requested = t.cancel_requested /\ d.owner = t.owner
      /\ d.detached = t.detached /\ d.owner_released = t.owner_released
      /\ d.result = IF t.owner = "Detached" /\ t.state = "Completed" /\ t.result = "Live"
                      THEN "Dropped" ELSE t.result
  BY DisposedFields
<1>2. t.refs \in Int /\ OwnerHolds(t) \in {0, 1} /\ t.owner_released \in {0, 1}
  BY DEF TaskRec, OwnerHolds, One
<1>3. CASE t.detached = 1 /\ t.state \in Terminal /\ t.owner_released = 0
  <2>1. /\ r \in TaskRec /\ r.refs = d.refs - 1 /\ r.state = d.state /\ r.handle = d.handle
        /\ r.cancel_requested = d.cancel_requested /\ r.owner = d.owner
        /\ r.result = d.result /\ r.detached = d.detached
    BY <1>1, ReleasedFields
  <2>2. Drained(t) = [r EXCEPT !.owner_released = 1]
    BY <1>3 DEF Drained
  <2> HIDE DEF d, r
  <2>3. /\ Drained(t) \in TaskRec /\ Drained(t).refs = r.refs /\ Drained(t).state = r.state
        /\ Drained(t).handle = r.handle /\ Drained(t).owner_released = 1
        /\ Drained(t).cancel_requested = r.cancel_requested /\ Drained(t).owner = r.owner
        /\ Drained(t).result = r.result /\ Drained(t).detached = r.detached
    BY <2>1, <2>2 DEF TaskRec
  <2>4. OwnerHolds(t) = 1 /\ OwnerHolds(Drained(t)) = 0
    BY <1>3, <2>3 DEF OwnerHolds, One
  <2> QED
    BY <1>1, <1>2, <1>3, <2>1, <2>3, <2>4
<1>4. CASE ~(t.detached = 1 /\ t.state \in Terminal /\ t.owner_released = 0)
  <2>1. Drained(t) = d
    BY <1>4 DEF Drained
  <2>2. OwnerHolds(d) = OwnerHolds(t)
    BY <1>1 DEF OwnerHolds
  <2>3. t.detached = 1 /\ t.state \in Terminal => t.owner_released = 1
    BY <1>2, <1>4
  <2> HIDE DEF d
  <2> QED
    BY <1>1, <1>2, <2>1, <2>2, <2>3
<1> QED
  BY <1>3, <1>4

\* An asked child has the request; it has ended, and is drained, if it was cold.
LEMMA AskedFields ==
    ASSUME NEW t \in TaskRec, TaskLocal(t)
    PROVE  /\ Asked(t) \in TaskRec /\ Asked(t).cancel_requested = 1
           /\ Asked(t).refs = t.refs + OwnerHolds(Asked(t)) - OwnerHolds(t)
           /\ Asked(t).state = IF t.state = "Created" THEN "Canceled" ELSE t.state
           /\ Asked(t).owner = t.owner /\ Asked(t).handle = t.handle
           /\ Asked(t).detached = t.detached /\ Asked(t).result = t.result
           /\ Asked(t).owner_released = IF t.state = "Created" /\ t.detached = 1
                                          THEN 1 ELSE t.owner_released
<1> DEFINE told == [t EXCEPT !.cancel_requested = 1]
           u == [told EXCEPT !.state = "Canceled"]
<1>1. /\ told \in TaskRec /\ told.cancel_requested = 1 /\ told.refs = t.refs
      /\ told.state = t.state /\ told.owner = t.owner /\ told.handle = t.handle
      /\ told.detached = t.detached /\ told.result = t.result
      /\ told.owner_released = t.owner_released
  BY DEF TaskRec
<1>2. OwnerHolds(t) \in {0, 1} /\ t.refs \in Int
  BY DEF OwnerHolds, One, TaskRec
<1>3. CASE t.state = "Created"
  <2>1. /\ u \in TaskRec /\ u.cancel_requested = 1 /\ u.refs = t.refs /\ u.state = "Canceled"
        /\ u.owner = t.owner /\ u.handle = t.handle /\ u.detached = t.detached
        /\ u.result = t.result /\ u.owner_released = t.owner_released
    BY <1>1 DEF TaskRec, Terminal
  <2>2. Asked(t) = Drained(u)
    BY <1>3 DEF Asked
  <2> HIDE DEF u
  <2>3. OwnerHolds(u) = OwnerHolds(t)
    BY <2>1 DEF OwnerHolds
  <2> QED
    BY <1>3, <2>1, <2>2, <2>3, DrainedFields DEF TaskLocal, Terminal
<1>4. CASE t.state # "Created"
  <2>1. Asked(t) = told
    BY <1>4 DEF Asked
  <2>2. OwnerHolds(told) = OwnerHolds(t)
    BY <1>1 DEF OwnerHolds
  <2> QED
    BY <1>1, <1>2, <1>4, <2>1, <2>2
<1> QED
  BY <1>3, <1>4

\* A child's record goes from t to u: k references are added besides those of its
\* owner, the record stays sound, and ends and cancellations are for good.
Onward(t, u) ==
    /\ u \in TaskRec
    /\ TaskLocal(u)
    /\ t.state \in Terminal => u.state \in Terminal
    /\ t.state # "Created" => u.state # "Created"
    /\ t.cancel_requested = 1 => u.cancel_requested = 1
    /\ t.handle = 0 /\ t.owner # "Scope" => u.handle = 0 /\ u.owner # "Scope"
    /\ t.owner = "Detached" => u.owner = "Detached"
Evolves(t, u, k) ==
    /\ Onward(t, u)
    /\ u.refs = t.refs + OwnerHolds(u) - OwnerHolds(t) + k

\* A child nothing happens to.
LEMMA EvolvesStay == ASSUME NEW t \in TaskRec, TaskLocal(t) PROVE Evolves(t, t, 0)
<1>1. t.refs \in Int /\ OwnerHolds(t) \in Int
  BY DEF TaskRec, OwnerHolds, One
<1> QED
  BY <1>1 DEF Evolves, Onward

\* A retained, a released and an asked child.
LEMMA EvolvesSimple ==
    ASSUME NEW t \in TaskRec, TaskLocal(t)
    PROVE  /\ Evolves(t, Retained(t), 1) /\ (Due(Retained(t)) => Due(t))
           /\ Evolves(t, Released(t), -1) /\ (Due(Released(t)) => Due(t))
           /\ Evolves(t, Asked(t), 0) /\ (Due(Asked(t)) => Due(t))
<1>1. t.refs \in Int /\ OwnerHolds(t) \in Int /\ t.state \in {"Created", "Running"} \cup Terminal
  BY DEF TaskRec, OwnerHolds, One
<1>2. Evolves(t, Retained(t), 1) /\ (Due(Retained(t)) => Due(t))
  BY <1>1, RetainedFields DEF Evolves, Onward, OwnerHolds, TaskLocal, Due
<1>3. Evolves(t, Released(t), -1) /\ (Due(Released(t)) => Due(t))
  BY <1>1, ReleasedFields DEF Evolves, Onward, OwnerHolds, TaskLocal, Due
<1>4. Evolves(t, Asked(t), 0) /\ (Due(Asked(t)) => Due(t))
  <2> DEFINE u == Asked(t)
  <2>1. /\ u \in TaskRec /\ u.cancel_requested = 1
        /\ u.refs = t.refs + OwnerHolds(u) - OwnerHolds(t)
        /\ u.state = IF t.state = "Created" THEN "Canceled" ELSE t.state
        /\ u.owner = t.owner /\ u.handle = t.handle
        /\ u.detached = t.detached /\ u.result = t.result
        /\ u.owner_released = IF t.state = "Created" /\ t.detached = 1
                                THEN 1 ELSE t.owner_released
    BY AskedFields
  <2> HIDE DEF u
  <2>2. TaskLocal(u) /\ (Due(u) => Due(t))
    BY <1>1, <2>1 DEF TaskLocal, Terminal, Due
  <2>3. OwnerHolds(u) \in Int
    BY DEF OwnerHolds, One
  <2>4. Evolves(t, u, 0)
    BY <1>1, <2>1, <2>2, <2>3 DEF Evolves, Onward, Terminal
  <2> QED
    BY <2>2, <2>4 DEF u
<1> QED
  BY <1>2, <1>3, <1>4

\* Steps of a child's record compose.
LEMMA EvolvesTwice ==
    ASSUME NEW t \in TaskRec, NEW u, NEW v, NEW k \in Int, NEW m \in Int,
           Evolves(t, u, k), Evolves(u, v, m)
    PROVE  Evolves(t, v, k + m)
<1>1. /\ t.refs \in Int /\ u.refs \in Int /\ OwnerHolds(t) \in Int
      /\ OwnerHolds(u) \in Int /\ OwnerHolds(v) \in Int
  BY DEF Evolves, Onward, TaskRec, OwnerHolds, One
<1> QED
  BY <1>1 DEF Evolves, Onward

\* A child that is asked and then released.
LEMMA EvolvesAsked ==
    ASSUME NEW t \in TaskRec, TaskLocal(t)
    PROVE  /\ Evolves(t, Released(Asked(t)), -1)
           /\ Due(Released(Asked(t))) => Due(t)
           /\ Released(Asked(t)).cancel_requested = 1
<1> DEFINE v == Asked(t)
<1>1. v \in TaskRec /\ v.cancel_requested = 1 /\ Evolves(t, v, 0) /\ (Due(v) => Due(t))
  BY AskedFields, EvolvesSimple
<1> HIDE DEF v
<1>2. TaskLocal(v)
  BY <1>1 DEF Evolves, Onward
<1>3. Evolves(v, Released(v), -1) /\ (Due(Released(v)) => Due(v)) /\ Released(v).cancel_requested = 1
  BY <1>1, <1>2, EvolvesSimple, ReleasedFields
<1>4. Evolves(t, Released(v), 0 + (-1))
  BY <1>1, <1>3, EvolvesTwice
<1> QED
  BY <1>1, <1>3, <1>4 DEF v

\* A child that ends with a result or cancelled, draining itself when detached.
LEMMA EvolvesEnd ==
    ASSUME NEW t \in TaskRec, TaskLocal(t), t.state = "Running"
    PROVE  /\ Evolves(t, Drained([t EXCEPT !.state = "Completed", !.result = "Live"]), 0)
           /\ Evolves(t, Drained([t EXCEPT !.state = "Canceled"]), 0)
           /\ Due(Drained([t EXCEPT !.state = "Completed", !.result = "Live"])) => Due(t)
           /\ Due(Drained([t EXCEPT !.state = "Canceled"])) => Due(t)
<1> DEFINE u == [t EXCEPT !.state = "Completed", !.result = "Live"]
           v == [t EXCEPT !.state = "Canceled"]
<1>1. /\ u \in TaskRec /\ u.refs = t.refs /\ u.state = "Completed" /\ u.result = "Live"
      /\ u.cancel_requested = t.cancel_requested /\ u.owner = t.owner
      /\ u.owner_released = t.owner_released /\ u.handle = t.handle
      /\ u.detached = t.detached
  BY DEF TaskRec, Terminal
<1>2. /\ v \in TaskRec /\ v.refs = t.refs /\ v.state = "Canceled" /\ v.result = t.result
      /\ v.cancel_requested = t.cancel_requested /\ v.owner = t.owner
      /\ v.owner_released = t.owner_released /\ v.handle = t.handle
      /\ v.detached = t.detached
  BY DEF TaskRec, Terminal
<1>3. t.refs \in Int /\ OwnerHolds(t) \in {0, 1} /\ OwnerHolds(u) = OwnerHolds(t)
      /\ OwnerHolds(v) = OwnerHolds(t) /\ t.result = "None" /\ t.owner_released = 0
      /\ (t.detached = 1 => t.owner = "Detached")
  BY <1>1, <1>2 DEF TaskRec, OwnerHolds, One, TaskLocal, Terminal
<1>6. t.detached \in {0, 1} /\ u.state \in Terminal /\ v.state \in Terminal
  BY <1>1, <1>2 DEF TaskRec, Terminal
<1> HIDE DEF u, v
<1> DEFINE du == Drained(u)
           dv == Drained(v)
<1>4. /\ du \in TaskRec /\ du.refs = t.refs + OwnerHolds(du) - OwnerHolds(t)
      /\ du.state = "Completed" /\ du.cancel_requested = t.cancel_requested
      /\ du.owner = t.owner /\ du.handle = t.handle /\ du.result # "None"
      /\ du.detached = t.detached /\ (t.detached = 1 => du.result # "Live")
      /\ du.owner_released = t.detached
  BY <1>1, <1>3, <1>6, DrainedFields
<1>5. /\ dv \in TaskRec /\ dv.refs = t.refs + OwnerHolds(dv) - OwnerHolds(t)
      /\ dv.state = "Canceled" /\ dv.cancel_requested = t.cancel_requested
      /\ dv.owner = t.owner /\ dv.handle = t.handle /\ dv.result = "None"
      /\ dv.detached = t.detached /\ dv.owner_released = t.detached
  BY <1>2, <1>3, <1>6, DrainedFields
<1> HIDE DEF du, dv
<1>7. OwnerHolds(du) \in {0, 1} /\ OwnerHolds(dv) \in {0, 1}
  BY DEF OwnerHolds, One
<1>8. Evolves(t, du, 0) /\ Evolves(t, dv, 0)
  BY <1>3, <1>4, <1>5, <1>6, <1>7 DEF Evolves, Onward, TaskLocal, Terminal
<1>9. (Due(du) => Due(t)) /\ (Due(dv) => Due(t))
  BY <1>3, <1>4, <1>5 DEF Due
<1> QED
  BY <1>8, <1>9 DEF du, dv, u, v

\* A child whose owner is not the consumer any more: it drains itself if it has
\* ended, and the scope's claim on its result is over.
LEMMA EvolvesDetach ==
    ASSUME NEW t \in TaskRec, NEW u \in TaskRec, TaskLocal(t), t.owner # "Detached",
           u.owner = "Detached", u.owner_released = t.owner_released, u.handle = 0,
           u.detached = 1,
           u.refs = t.refs, u.result = t.result, u.state \in {t.state, "Canceled"},
           t.state = "Completed" => u.state = "Completed",
           t.cancel_requested = 1 => u.cancel_requested = 1
    PROVE  /\ Evolves(t, Drained(u), OwnerHolds(t) - 1)
           /\ ~Due(Drained(u))
<1>1. /\ t.refs \in Int /\ OwnerHolds(t) \in {0, 1} /\ t.owner_released = 0
      /\ OwnerHolds(u) = 1
  BY DEF TaskRec, OwnerHolds, One, TaskLocal
<1> DEFINE d == Drained(u)
<1>2. /\ d \in TaskRec /\ d.refs = t.refs + OwnerHolds(d) - 1 /\ d.state = u.state
      /\ d.cancel_requested = u.cancel_requested /\ d.owner = "Detached" /\ d.handle = 0
      /\ u.state \notin Terminal => d.owner_released = t.owner_released
      /\ d.result = "None" <=> t.result = "None"
      /\ u.state = "Completed" => d.result # "Live"
  BY <1>1, DrainedFields
<1> HIDE DEF d
<1>3. OwnerHolds(d) \in {0, 1}
  BY DEF OwnerHolds, One
<1>4. d.refs = t.refs + OwnerHolds(d) - OwnerHolds(t) + (OwnerHolds(t) - 1)
  BY <1>1, <1>2, <1>3
<1>5. TaskLocal(d)
  BY <1>1, <1>2 DEF TaskLocal, Terminal, TaskRec
<1>6. Evolves(t, d, OwnerHolds(t) - 1)
  BY <1>2, <1>4, <1>5 DEF Evolves, Onward, Terminal
<1>7. ~Due(d)
  BY <1>2 DEF Due
<1> QED
  BY <1>6, <1>7 DEF d

\* Dropping the handle of a started child leaves its count exact, and so do the
\* steps of dropping a cold one's: the reference taken, the owner changed and the
\* mark set.
LEMMA EvolvesDrop ==
    ASSUME NEW t \in TaskRec, TaskLocal(t)
    PROVE  /\ t.handle = 1 =>
                LET g == [t EXCEPT !.handle = 0]
                IN  /\ Evolves(t, DetachOwned(g, "Consumer"), 0)
                    /\ ~Due(DetachOwned(g, "Consumer"))
                    /\ Evolves(t, Retained(g), 1) /\ ~Due(Retained(g))
                    /\ Retained(g).handle = 0 /\ Retained(g).owner # "Scope"
           /\ t.handle = 0 /\ t.owner # "Scope" =>
                LET u == [t EXCEPT !.owner = "Detached"]
                IN  Evolves(t, u, 0) /\ ~Due(u) /\ u.owner = "Detached"
           /\ t.owner = "Detached" =>
                LET u == [t EXCEPT !.detached = 1]
                IN  Evolves(t, u, 0) /\ ~Due(u)
<1>1. t.refs \in Int /\ OwnerHolds(t) \in {0, 1}
  BY DEF TaskRec, OwnerHolds, One
<1>2. ASSUME t.handle = 1, NEW g, g = [t EXCEPT !.handle = 0]
      PROVE  /\ Evolves(t, DetachOwned(g, "Consumer"), 0)
             /\ ~Due(DetachOwned(g, "Consumer"))
             /\ Evolves(t, Retained(g), 1) /\ ~Due(Retained(g))
             /\ Retained(g).handle = 0 /\ Retained(g).owner # "Scope"
  <2>1. /\ g \in TaskRec /\ g.refs = t.refs /\ g.state = t.state /\ g.result = t.result
        /\ g.cancel_requested = t.cancel_requested /\ g.owner = "Consumer"
        /\ g.owner_released = t.owner_released /\ g.handle = 0 /\ t.owner = "Consumer"
        /\ g.detached = t.detached /\ t.owner_released = 0
    BY <1>2 DEF TaskRec, TaskLocal
  <2>2. OwnerHolds(t) = 1 /\ OwnerHolds(t) - 1 = 0 /\ OwnerHolds(g) = 1
    BY <2>1 DEF OwnerHolds, One
  <2>3. Evolves(t, DetachOwned(g, "Consumer"), 0) /\ ~Due(DetachOwned(g, "Consumer"))
    <3> DEFINE u == [g EXCEPT !.owner = "Detached", !.detached = 1]
    <3>1. /\ u \in TaskRec /\ u.refs = t.refs /\ u.state = t.state /\ u.owner = "Detached"
          /\ u.result = t.result /\ u.cancel_requested = t.cancel_requested
          /\ u.owner_released = t.owner_released /\ u.handle = 0 /\ u.detached = 1
      BY <2>1 DEF TaskRec
    <3>2. DetachOwned(g, "Consumer") = Drained(u)
      BY <2>1 DEF DetachOwned
    <3> HIDE DEF u
    <3>3. Evolves(t, Drained(u), OwnerHolds(t) - 1) /\ ~Due(Drained(u))
      BY <2>1, <3>1, EvolvesDetach
    <3> QED
      BY <2>2, <3>2, <3>3
  <2>4. /\ Retained(g) \in TaskRec /\ Retained(g).refs = t.refs + 1
        /\ Retained(g).state = t.state /\ Retained(g).cancel_requested = t.cancel_requested
        /\ Retained(g).owner = "Consumer" /\ Retained(g).owner_released = 0
        /\ Retained(g).handle = 0 /\ Retained(g).result = t.result
        /\ Retained(g).detached = t.detached
    BY <2>1, RetainedFields
  <2>5. OwnerHolds(Retained(g)) = 1
    BY <2>4 DEF OwnerHolds, One
  <2>6. Evolves(t, Retained(g), 1) /\ ~Due(Retained(g))
    BY <1>1, <2>1, <2>2, <2>4, <2>5 DEF Evolves, Onward, TaskLocal, Due
  <2> QED
    BY <2>3, <2>4, <2>6
<1>3. ASSUME t.handle = 0, t.owner # "Scope", NEW u, u = [t EXCEPT !.owner = "Detached"]
      PROVE  Evolves(t, u, 0) /\ ~Due(u) /\ u.owner = "Detached"
  <2>1. /\ u \in TaskRec /\ u.refs = t.refs /\ u.state = t.state /\ u.owner = "Detached"
        /\ u.result = t.result /\ u.cancel_requested = t.cancel_requested
        /\ u.owner_released = t.owner_released /\ u.handle = 0 /\ u.detached = t.detached
    BY <1>3 DEF TaskRec
  <2>2. OwnerHolds(u) = OwnerHolds(t)
    BY <1>3, <2>1 DEF OwnerHolds, One
  <2> QED
    BY <1>1, <1>3, <2>1, <2>2 DEF Evolves, Onward, TaskLocal, Due
<1>4. ASSUME t.owner = "Detached", NEW u, u = [t EXCEPT !.detached = 1]
      PROVE  Evolves(t, u, 0) /\ ~Due(u)
  <2>1. /\ u \in TaskRec /\ u.refs = t.refs /\ u.state = t.state /\ u.owner = "Detached"
        /\ u.result = t.result /\ u.cancel_requested = t.cancel_requested
        /\ u.owner_released = t.owner_released /\ u.handle = t.handle
    BY <1>4 DEF TaskRec
  <2>2. OwnerHolds(u) = OwnerHolds(t)
    BY <1>4, <2>1 DEF OwnerHolds
  <2> QED
    BY <1>1, <1>4, <2>1, <2>2 DEF Evolves, Onward, TaskLocal, Due
<1> QED
  BY <1>2, <1>3, <1>4

\* A child left over by a scope, and one the scope disposes of, lose one reference.
LEMMA EvolvesLeave ==
    ASSUME NEW t \in TaskRec, TaskLocal(t)
    PROVE  /\ Evolves(t, Orphaned(t), -1) /\ ~Due(Orphaned(t))
           /\ Evolves(t, DisposedChild(t), -1)
           /\ t.state \in Terminal => ~Due(DisposedChild(t))
<1>1. Evolves(t, Orphaned(t), -1) /\ ~Due(Orphaned(t))
  <2>1. CASE t.owner = "Scope"
    <3> DEFINE u == [t EXCEPT !.owner = "Detached", !.detached = 1]
    <3>1. /\ u \in TaskRec /\ u.refs = t.refs /\ u.state = t.state /\ u.owner = "Detached"
          /\ u.result = t.result /\ u.cancel_requested = t.cancel_requested
          /\ u.owner_released = t.owner_released /\ u.handle = 0 /\ u.detached = 1
      BY <2>1 DEF TaskRec, TaskLocal
    <3>2. Orphaned(t) = Drained(u)
      BY <2>1 DEF Orphaned, DetachOwned
    <3> HIDE DEF u
    <3>3. Evolves(t, Drained(u), OwnerHolds(t) - 1) /\ ~Due(Drained(u))
      BY <2>1, <3>1, EvolvesDetach
    <3>4. OwnerHolds(t) - 1 = -1
      BY <2>1 DEF OwnerHolds, One
    <3> QED
      BY <3>2, <3>3, <3>4
  <2>2. CASE t.owner # "Scope"
    BY <2>2, EvolvesSimple DEF Orphaned, Due
  <2> QED
    BY <2>1, <2>2
<1>2. /\ Evolves(t, DisposedChild(t), -1)
      /\ t.state \in Terminal => ~Due(DisposedChild(t))
  <2> DEFINE d == Disposed(t, "Scope")
  <2>1. /\ d \in TaskRec /\ d.refs = t.refs /\ d.state = t.state /\ d.handle = t.handle
        /\ d.cancel_requested = t.cancel_requested /\ d.owner = t.owner
        /\ d.owner_released = t.owner_released /\ d.detached = t.detached
        /\ d.result = IF t.owner = "Scope" /\ t.state = "Completed" /\ t.result = "Live"
                        THEN "Dropped" ELSE t.result
    BY DisposedFields
  <2>2. DisposedChild(t) = Released(d)
    BY DEF DisposedChild
  <2> HIDE DEF d
  <2>3. t.refs \in Int /\ OwnerHolds(t) \in {0, 1} /\ OwnerHolds(d) = OwnerHolds(t)
    BY <2>1 DEF TaskRec, OwnerHolds, One
  <2>4. TaskLocal(d)
    BY <2>1 DEF TaskLocal
  <2>5. Evolves(t, d, 0)
    BY <2>1, <2>3, <2>4 DEF Evolves, Onward
  <2>6. Evolves(d, Released(d), -1) /\ (Due(Released(d)) => Due(d))
    BY <2>1, <2>4, EvolvesSimple
  <2>7. Evolves(t, Released(d), -1)
    <3>1. Evolves(t, Released(d), 0 + (-1))
      BY <2>5, <2>6, EvolvesTwice
    <3> QED
      BY <3>1
  <2>8. t.state \in Terminal => ~Due(d)
    BY <2>1 DEF Due, TaskLocal, Terminal
  <2> QED
    BY <2>2, <2>6, <2>7, <2>8
<1> QED
  BY <1>1, <1>2

\* A child that is started, whose result is taken, or that joins a scope.
LEMMA EvolvesUse ==
    ASSUME NEW t \in TaskRec, TaskLocal(t)
    PROVE  /\ Evolves(t, Started(t), 0) /\ Started(t).state # "Created"
           /\ Due(Started(t)) => Due(t)
           /\ t.result = "Live" /\ t.handle = 1 =>
                Evolves(t, [t EXCEPT !.result = "Taken"], 0)
                /\ ~Due([t EXCEPT !.result = "Taken"])
           /\ t.handle = 1 => Evolves(t, [t EXCEPT !.owner = "Scope", !.handle = 0], 1)
<1>1. /\ t.refs \in Int /\ OwnerHolds(t) \in {0, 1}
      /\ t.handle = 1 => OwnerHolds(t) = 1 /\ t.owner = "Consumer" /\ t.owner_released = 0
  BY DEF TaskRec, OwnerHolds, One, TaskLocal
<1>2. /\ Evolves(t, Started(t), 0) /\ Started(t).state # "Created"
      /\ Due(Started(t)) => Due(t)
  <2> DEFINE u == Started(t)
  <2>1. /\ u \in TaskRec /\ u.refs = t.refs /\ u.result = t.result /\ u.handle = t.handle
        /\ u.state = (IF t.state = "Created" THEN "Running" ELSE t.state)
        /\ u.cancel_requested = t.cancel_requested /\ u.owner = t.owner
        /\ u.owner_released = t.owner_released /\ u.detached = t.detached
    BY DEF TaskRec, Started
  <2> HIDE DEF u
  <2>2. OwnerHolds(u) = OwnerHolds(t)
    BY <2>1 DEF OwnerHolds
  <2>3. Evolves(t, u, 0) /\ u.state # "Created" /\ (Due(u) => Due(t))
    BY <1>1, <2>1, <2>2 DEF Evolves, Onward, TaskLocal, Terminal, Due
  <2> QED
    BY <2>3 DEF u
<1>3. ASSUME t.result = "Live", t.handle = 1
      PROVE  Evolves(t, [t EXCEPT !.result = "Taken"], 0)
             /\ ~Due([t EXCEPT !.result = "Taken"])
  <2> DEFINE u == [t EXCEPT !.result = "Taken"]
  <2>1. /\ u \in TaskRec /\ u.refs = t.refs /\ u.result = "Taken" /\ u.handle = t.handle
        /\ u.state = t.state
        /\ u.cancel_requested = t.cancel_requested /\ u.owner = t.owner
        /\ u.owner_released = t.owner_released /\ u.detached = t.detached
    BY DEF TaskRec
  <2> HIDE DEF u
  <2>2. OwnerHolds(u) = OwnerHolds(t)
    BY <2>1 DEF OwnerHolds
  <2>3. Evolves(t, u, 0) /\ ~Due(u)
    BY <1>1, <1>3, <2>1, <2>2 DEF Evolves, Onward, TaskLocal, Due
  <2> QED
    BY <2>3 DEF u
<1>4. ASSUME t.handle = 1
      PROVE  Evolves(t, [t EXCEPT !.owner = "Scope", !.handle = 0], 1)
  <2> DEFINE u == [t EXCEPT !.owner = "Scope", !.handle = 0]
  <2>1. /\ u \in TaskRec /\ u.refs = t.refs /\ u.result = t.result /\ u.handle = 0
        /\ u.state = t.state
        /\ u.cancel_requested = t.cancel_requested /\ u.owner = "Scope"
        /\ u.owner_released = t.owner_released /\ u.detached = t.detached
    BY DEF TaskRec
  <2> HIDE DEF u
  <2>2. OwnerHolds(u) = 0
    BY <2>1 DEF OwnerHolds, One
  <2>3. Evolves(t, u, 1)
    BY <1>1, <1>4, <2>1, <2>2 DEF Evolves, Onward, TaskLocal
  <2> QED
    BY <2>3 DEF u
<1> QED
  BY <1>2, <1>3, <1>4

-----------------------------------------------------------------------------
(* What the steps of an actor do to its record.                            *)

\* Back at rest an actor forgets; otherwise only its program point changes.
LEMMA MovedFields ==
    ASSUME NEW l \in ActRec, NEW p \in PCs
    PROVE  /\ Moved(l, p) \in ActRec /\ Moved(l, p).pc = p
           /\ p = "idle" => /\ Moved(l, p).kids = {} /\ Moved(l, p).scopes = {}
                            /\ Moved(l, p).scope = None /\ Moved(l, p).task = None
                            /\ Moved(l, p).op = "none"
           /\ p # "idle" => /\ Moved(l, p).kids = l.kids /\ Moved(l, p).scopes = l.scopes
                            /\ Moved(l, p).scope = l.scope /\ Moved(l, p).task = l.task
                            /\ Moved(l, p).op = l.op
<1>1. CASE p = "idle"
  <2>1. Moved(l, p) = Resting
    BY <1>1 DEF Moved
  <2>2. /\ Resting.pc = "idle" /\ Resting.op = "none" /\ Resting.scope = None
        /\ Resting.scopes = {} /\ Resting.task = None /\ Resting.kids = {}
    BY DEF Resting
  <2>3. Resting \in ActRec
    BY DEF Resting, ActRec, PCs, Ops
  <2> QED
    BY <1>1, <2>1, <2>2, <2>3
<1>2. CASE p # "idle"
  BY <1>2 DEF Moved, ActRec
<1> QED
  BY <1>1, <1>2

\* The fields of actor a after a step to point p with kids on its list.
StepsTo(a, p, kids) ==
    /\ act' \in [Actors -> ActRec]
    /\ \A b \in Actors : b # a => act'[b] = act[b]
    /\ act'[a].pc = p /\ act'[a].kids = kids
    /\ p = "idle" => /\ act'[a].scopes = {} /\ act'[a].scope = None
                     /\ act'[a].op = "none"
    /\ p # "idle" => /\ act'[a].scopes = act[a].scopes /\ act'[a].scope = act[a].scope
                     /\ act'[a].op = act[a].op /\ act'[a].task = act[a].task

\* Goto and the steps through a list of children are such steps.
LEMMA StepsToPoint ==
    ASSUME Types, NEW a \in Actors, NEW p \in PCs, NEW kids \in SUBSET Tasks,
           p = "idle" => kids = {},
           act' = [act EXCEPT ![a] = Moved([@ EXCEPT !.kids = kids], p)]
    PROVE  StepsTo(a, p, kids)
<1> DEFINE l == [act[a] EXCEPT !.kids = kids]
<1>1. /\ l \in ActRec /\ l.kids = kids /\ l.scopes = act[a].scopes /\ l.scope = act[a].scope
      /\ l.task = act[a].task /\ l.op = act[a].op
  BY DEF Types, ActRec
<1> HIDE DEF l
<1>2. act' = [act EXCEPT ![a] = Moved(l, p)]
  BY DEF l
<1>3. /\ Moved(l, p) \in ActRec /\ Moved(l, p).pc = p
      /\ p = "idle" => /\ Moved(l, p).kids = {} /\ Moved(l, p).scopes = {}
                       /\ Moved(l, p).scope = None
                       /\ Moved(l, p).op = "none"
      /\ p # "idle" => /\ Moved(l, p).kids = l.kids /\ Moved(l, p).scopes = l.scopes
                       /\ Moved(l, p).scope = l.scope /\ Moved(l, p).task = l.task
                       /\ Moved(l, p).op = l.op
  BY <1>1, MovedFields
<1>4. /\ act' \in [Actors -> ActRec] /\ act'[a] = Moved(l, p)
      /\ \A b \in Actors : b # a => act'[b] = act[b]
  BY <1>2, <1>3 DEF Types
<1> QED
  BY <1>1, <1>3, <1>4 DEF StepsTo
\* Goto keeps the list.
LEMMA GotoPoint ==
    ASSUME Types, NEW a \in Actors, NEW p \in PCs, Goto(a, p),
           p = "idle" => act[a].kids = {}
    PROVE  StepsTo(a, p, act[a].kids)
<1>1. act[a] \in ActRec /\ act[a].kids \in SUBSET Tasks
  BY DEF Types, ActRec
<1>2. [act[a] EXCEPT !.kids = act[a].kids] = act[a]
  BY <1>1 DEF ActRec
<1>3. act' = [act EXCEPT ![a] = Moved([@ EXCEPT !.kids = act[a].kids], p)]
  BY <1>2 DEF Goto
<1> QED
  BY <1>1, <1>3, StepsToPoint

-----------------------------------------------------------------------------
(* The step.                                                               *)

\* What a step that moves actor a gives child c besides its owner's reference.
Gain(a, c) ==
    One(c \in parent'.cancel_children) - One(c \in parent.cancel_children)
    + (Cardinality(InScopes(c)') - Cardinality(InScopes(c)))
    + (One(c \in act'[a].kids) - One(c \in act[a].kids))

\* What it gives scope s, and the parent.
ScopeGain(a, s) ==
    scope'[s].value - scope[s].value
    + (One(a # Owner /\ HoldsScope(act'[a], s)) - One(a # Owner /\ HoldsScope(act[a], s)))
ParentGain(a) ==
    One(act'[Owner].pc # "ended") - One(act[Owner].pc # "ended")
    + (Cardinality(parent'.cancel_scopes) - Cardinality(parent.cancel_scopes))
    + (One(act'[a].pc \in {"orphan", "detach"}) - One(act[a].pc \in {"orphan", "detach"}))
    + (One(a # Owner /\ act'[a].pc # "idle") - One(a # Owner /\ act[a].pc # "idle"))

\* When no scope's children change, no child's set of scopes does.
LEMMA ScopesStay ==
    ASSUME \A r \in Scopes : scope'[r].children = scope[r].children
    PROVE  \A c \in Tasks : InScopes(c)' = InScopes(c)
  BY DEF InScopes

\* Reference counts stay exact when every count changes by what the moved actor,
\* the lists and the owner gain.
LEMMA RefsMove ==
    ASSUME Types, Types', RefsExact, NEW a \in Actors,
           \A b \in Actors : b # a => act'[b] = act[b],
           \A c \in Tasks : Evolves(task[c], task'[c], Gain(a, c)),
           \A s \in Scopes : scope'[s].refs = scope[s].refs + ScopeGain(a, s)
                             /\ (s \in parent'.cancel_scopes <=> scope'[s].refs > 0),
           parent'.refs = parent.refs + ParentGain(a)
    PROVE  RefsExact'
<1>1. ASSUME NEW c \in Tasks PROVE task'[c].refs = Holders(c)'
  <2>1. /\ Cardinality(OnLists(c)') = Cardinality(OnLists(c))
                                        + One(c \in act'[a].kids) - One(c \in act[a].kids)
        /\ Cardinality(OnLists(c)) \in Nat /\ Cardinality(InScopes(c)) \in Nat
    BY ActorMoves, Sizes
  <2>2. Cardinality(OnLists(c)') \in Nat /\ Cardinality(InScopes(c)') \in Nat
    <3>1. (OnLists(c)') \in SUBSET Actors /\ (InScopes(c)') \in SUBSET Scopes
      BY DEF OnLists, InScopes
    <3> QED
      BY <3>1, Finite, FS_Subset, FS_CardinalityType
  <2>3. /\ task[c].refs = OwnerHolds(task[c]) + One(c \in parent.cancel_children)
                          + Cardinality(InScopes(c)) + Cardinality(OnLists(c))
        /\ Holders(c)' = OwnerHolds(task'[c]) + One(c \in parent'.cancel_children)
                          + Cardinality(InScopes(c)') + Cardinality(OnLists(c)')
    <3>1. Holders(c)' = OwnerHolds(task[c])' + One(c \in parent.cancel_children)'
                          + Cardinality(InScopes(c))' + Cardinality(OnLists(c))'
      BY DEF Holders, OwnerHolds, One, InScopes, OnLists
    <3> QED
      BY <3>1, HoldersAre DEF RefsExact, OwnerHolds, One
  <2>4. task'[c].refs = task[c].refs + OwnerHolds(task'[c]) - OwnerHolds(task[c]) + Gain(a, c)
    BY DEF Evolves, Onward
  <2>5. /\ OwnerHolds(task'[c]) \in {0, 1} /\ OwnerHolds(task[c]) \in {0, 1}
        /\ One(c \in parent'.cancel_children) \in {0, 1}
        /\ One(c \in parent.cancel_children) \in {0, 1}
        /\ One(c \in act'[a].kids) \in {0, 1} /\ One(c \in act[a].kids) \in {0, 1}
    BY DEF OwnerHolds, One
  <2> QED
    BY <2>1, <2>2, <2>3, <2>4, <2>5 DEF Gain
<1>2. ASSUME NEW s \in Scopes PROVE scope'[s].refs = ScopeHolders(s)'
  <2>1. /\ Cardinality(AtScope(s)') = Cardinality(AtScope(s))
                 + One(a # Owner /\ HoldsScope(act'[a], s))
                 - One(a # Owner /\ HoldsScope(act[a], s))
        /\ Cardinality(AtScope(s)) \in Nat
    BY ActorMoves, Sizes
  <2>2. /\ scope[s].refs = scope[s].value + Cardinality(AtScope(s))
        /\ ScopeHolders(s)' = scope'[s].value + Cardinality(AtScope(s)')
    <3>1. ScopeHolders(s)' = scope'[s].value + Cardinality(AtScope(s)')
      BY DEF ScopeHolders, AtScope, HoldsScope, HoldPCs
    <3>2. scope[s].refs = ScopeHolders(s)
      BY DEF RefsExact
    <3> QED
      BY <3>1, <3>2, HoldersAre
  <2>3. /\ scope[s].value \in {0, 1} /\ scope'[s].value \in {0, 1}
        /\ One(a # Owner /\ HoldsScope(act'[a], s)) \in {0, 1}
        /\ One(a # Owner /\ HoldsScope(act[a], s)) \in {0, 1}
    BY DEF One, Types, ScopeRec
  <2> QED
    BY <2>1, <2>2, <2>3 DEF ScopeGain
<1>3. parent'.refs = ParentHolders'
  <2>1. /\ Cardinality(Retiring') = Cardinality(Retiring)
                 + One(act'[a].pc \in {"orphan", "detach"})
                 - One(act[a].pc \in {"orphan", "detach"})
        /\ Cardinality(Walking') = Cardinality(Walking)
                 + One(a # Owner /\ act'[a].pc # "idle")
                 - One(a # Owner /\ act[a].pc # "idle")
        /\ Cardinality(Retiring) \in Nat /\ Cardinality(Walking) \in Nat
    BY ActorMoves, Sizes
  <2>2. Cardinality(parent.cancel_scopes) \in Nat /\ Cardinality(parent'.cancel_scopes) \in Nat
    <3>1. parent.cancel_scopes \in SUBSET Scopes /\ parent'.cancel_scopes \in SUBSET Scopes
      BY DEF Types, ParentRec
    <3> QED
      BY <3>1, Finite, FS_Subset, FS_CardinalityType
  <2>3. /\ parent.refs = One(act[Owner].pc # "ended") + Cardinality(parent.cancel_scopes)
                         + Cardinality(Retiring) + Cardinality(Walking)
        /\ ParentHolders' = One(act'[Owner].pc # "ended") + Cardinality(parent'.cancel_scopes)
                         + Cardinality(Retiring') + Cardinality(Walking')
    <3>1. ParentHolders' = One(act'[Owner].pc # "ended") + Cardinality(parent'.cancel_scopes)
                         + Cardinality(Retiring') + Cardinality(Walking')
      BY DEF ParentHolders, One, Retiring, Walking
    <3>2. parent.refs = ParentHolders
      BY DEF RefsExact
    <3> QED
      BY <3>1, <3>2, HoldersAre
  <2>4. /\ One(act'[Owner].pc # "ended") \in {0, 1} /\ One(act[Owner].pc # "ended") \in {0, 1}
        /\ One(act'[a].pc \in {"orphan", "detach"}) \in {0, 1}
        /\ One(act[a].pc \in {"orphan", "detach"}) \in {0, 1}
        /\ One(a # Owner /\ act'[a].pc # "idle") \in {0, 1}
        /\ One(a # Owner /\ act[a].pc # "idle") \in {0, 1}
    BY DEF One
  <2> QED
    BY <2>1, <2>2, <2>3, <2>4 DEF ParentGain
<1> QED
  BY <1>1, <1>2, <1>3 DEF RefsExact

\* What no step undoes: ends, cancellations, and a scope's refusal of children.
GoesOn ==
    /\ \A c \in Tasks : Onward(task[c], task'[c])
    /\ \A s \in Scopes : scope[s].state \in Refusing =>
           scope'[s].state \in Refusing /\ scope'[s].children \subseteq scope[s].children

\* A child that is asked stays asked.
LEMMA StaysAsked ==
    ASSUME GoesOn
    PROVE  /\ \A c \in Tasks : AskedOf(c) => AskedOf(c)'
           /\ \A s \in Scopes : /\ scope[s].children \subseteq Tasks
                                /\ scope'[s].children \subseteq scope[s].children
                                => (AllAsked(s) => AllAsked(s)')
  BY DEF GoesOn, Onward, AskedOf, AllAsked

\* A step keeps what is known of a canceller that does not take it.
LEMMA WalkStays ==
    ASSUME Types, GoesOn, NEW x \in Cancellers, Walk(x), act'[x] = act[x]
    PROVE  Walk(x)'
<1> SUFFICES ASSUME act[x].pc \in HoldPCs, act[x].scope \in Scopes
             PROVE  /\ scope'[act[x].scope].state \in Refusing
                    /\ act[x].pc = "sweep" => \A c \in scope'[act[x].scope].children :
                                                 c \in act[x].kids \/ AskedOf(c)'
                    /\ act[x].pc = "release" => AllAsked(act[x].scope)'
  BY DEF Walk
<1> DEFINE s == act[x].scope
<1>1. /\ scope[s].state \in Refusing /\ scope'[s].state \in Refusing
      /\ scope'[s].children \subseteq scope[s].children /\ scope[s].children \subseteq Tasks
  BY DEF Walk, GoesOn, Types, ScopeRec
<1>2. act[x].pc = "release" => AllAsked(s)'
  BY <1>1, StaysAsked DEF Walk
<1>3. act[x].pc = "sweep" => \A c \in scope'[s].children : c \in act[x].kids \/ AskedOf(c)'
  BY <1>1, StaysAsked DEF Walk
<1> QED
  BY <1>1, <1>2, <1>3

\* A step of the owner leaves the walks alone: no child joins a scope that is
\* being cancelled.
LEMMA OwnerFrame ==
    ASSUME ScopeIInv, GoesOn, \A x \in Cancellers : act'[x] = act[x],
           parent'.cancel_requested = 1 =>
               /\ parent.cancel_requested = 1
               /\ \A s \in parent'.cancel_scopes :
                    \/ s \in parent.cancel_scopes /\ scope'[s].children \subseteq scope[s].children
                    \/ scope'[s].children = {},
           LocalOK(act'[Owner]), act'[Owner].scopes = {}
    PROVE  LocalInv' /\ WalkInv' /\ ReachInv'
<1>1. WalkInv'
  BY WalkStays DEF ScopeIInv, WalkInv
<1>2. LocalInv'
  BY Finite DEF ScopeIInv, LocalInv
<1>3. ReachInv'
  <2> SUFFICES ASSUME parent'.cancel_requested = 1, NEW s \in parent'.cancel_scopes
               PROVE  AllAsked(s)' \/ Pending(s)'
    BY DEF ReachInv
  <2>1. CASE s \in parent.cancel_scopes /\ scope'[s].children \subseteq scope[s].children
    <3>1. s \in Scopes /\ scope[s].children \subseteq Tasks
      BY <2>1 DEF ScopeIInv, Types, ParentRec, ScopeRec
    <3>2. AllAsked(s) \/ Pending(s)
      BY <2>1 DEF ScopeIInv, ReachInv
    <3>3. AllAsked(s) => AllAsked(s)'
      BY <2>1, <3>1, StaysAsked
    <3>4. Pending(s) => Pending(s)'
      BY DEF Pending
    <3> QED
      BY <3>2, <3>3, <3>4
  <2>2. CASE scope'[s].children = {}
    BY <2>2 DEF AllAsked
  <2> QED
    BY <2>1, <2>2
<1> QED
  BY <1>1, <1>2, <1>3

\* A step of another actor leaves the owner's scope alone.
LEMMA OwnerStays ==
    ASSUME Types, GoesOn, OwnerInv, act'[Owner] = act[Owner],
           \A s \in Scopes : scope[s].value = 1 =>
               /\ scope'[s].value = 1
               /\ scope[s].state = "Closing" => scope'[s].state = "Closing"
               /\ scope'[s].children \subseteq scope[s].children
    PROVE  OwnerInv'
<1> DEFINE o == act[Owner]
<1>1. o \in ActRec /\ o.kids \subseteq Tasks
  BY Finite DEF Types, ActRec
<1>2. ASSUME o.scope \in Scopes, scope[o.scope].value = 1, IsDone(o.scope) PROVE IsDone(o.scope)'
  BY <1>2 DEF IsDone, GoesOn, Onward, Types, ScopeRec
<1>3. /\ o.pc = "dispose" => \A c \in o.kids : task'[c].state \in Terminal
      /\ o.pc = "drop" => \A c \in o.kids : task'[c].handle = 0 /\ task'[c].owner # "Scope"
      /\ o.pc = "drop_mark" => \A c \in o.kids : task'[c].owner = "Detached"
  BY <1>1 DEF OwnerInv, GoesOn, Onward
<1> QED
  BY <1>1, <1>2, <1>3 DEF OwnerInv

\* A step of canceller x changes its own part only, unless it asks children or
\* closes scopes.
LEMMA WalkFrame ==
    ASSUME ScopeIInv, GoesOn, NEW x \in Cancellers, \A b \in Actors : b # x => act'[b] = act[b],
           \A s \in Scopes : scope[s].value = 1 =>
               /\ scope'[s].value = 1
               /\ scope[s].state = "Closing" => scope'[s].state = "Closing"
               /\ scope'[s].children \subseteq scope[s].children,
           LocalOK(act'[x]), Walk(x)',
           act'[x].pc \in {"idle", "snapshot", "sweep", "scopes", "cancel_all",
                           "release", "orphan", "detach"}
    PROVE  LocalInv' /\ WalkInv' /\ OwnerInv'
<1>1. WalkInv'
  BY WalkStays, Finite DEF ScopeIInv, WalkInv
<1>2. LocalInv'
  BY Finite DEF ScopeIInv, LocalInv
<1>3. OwnerInv'
  BY OwnerStays, Finite DEF ScopeIInv
<1> QED
  BY <1>1, <1>2, <1>3

\* The step of an actor that gives and takes no reference to a scope or the parent.
LEMMA RefsStill ==
    ASSUME Types, Types', RefsExact, NEW a \in Actors,
           \A b \in Actors : b # a => act'[b] = act[b],
           \A c \in Tasks : Evolves(task[c], task'[c], Gain(a, c)),
           \A s \in Scopes : scope'[s].refs = scope[s].refs /\ scope'[s].value = scope[s].value,
           \A s \in Scopes : a # Owner => (HoldsScope(act'[a], s) <=> HoldsScope(act[a], s)),
           parent'.refs = parent.refs, parent'.cancel_scopes = parent.cancel_scopes,
           act'[a].pc \in {"orphan", "detach"} <=> act[a].pc \in {"orphan", "detach"},
           act'[a].pc = "ended" <=> act[a].pc = "ended",
           a # Owner => (act'[a].pc = "idle" <=> act[a].pc = "idle")
    PROVE  RefsExact'
<1>1. ASSUME NEW s \in Scopes
      PROVE  /\ scope'[s].refs = scope[s].refs + ScopeGain(a, s)
             /\ s \in parent'.cancel_scopes <=> scope'[s].refs > 0
  <2>1. ScopeGain(a, s) = 0
    BY DEF ScopeGain, One, Types, ScopeRec
  <2>2. scope[s].refs \in Int
    BY DEF Types, ScopeRec
  <2> QED
    BY <2>1, <2>2 DEF RefsExact
<1>2. parent'.refs = parent.refs + ParentGain(a)
  <2>1. parent.refs \in Int /\ Cardinality(parent.cancel_scopes) \in Nat
    <3>1. parent.cancel_scopes \in SUBSET Scopes /\ parent.refs \in Int
      BY DEF Types, ParentRec
    <3> QED
      BY <3>1, Finite, FS_Subset, FS_CardinalityType
  <2>2. One(act'[Owner].pc # "ended") = One(act[Owner].pc # "ended")
    BY Finite DEF One
  <2>3. ParentGain(a) = 0
    BY <2>1, <2>2 DEF ParentGain, One
  <2> QED
    BY <2>1, <2>3
<1> QED
  BY <1>1, <1>2, RefsMove

\* Without a change of lists and records a child gains nothing.
LEMMA GainZero ==
    ASSUME ScopeIInv, NEW a \in Actors, NEW c \in Tasks,
           c \in parent'.cancel_children <=> c \in parent.cancel_children,
           Cardinality(InScopes(c)') = Cardinality(InScopes(c)),
           c \in act'[a].kids <=> c \in act[a].kids
    PROVE  Gain(a, c) = 0 /\ Evolves(task[c], task[c], Gain(a, c))
<1>1. Gain(a, c) = 0
  BY Sizes DEF Gain, One
<1> QED
  BY <1>1, EvolvesStay DEF ScopeIInv, Types, TaskInv

\* The owner's lists: a child in a scope has been started, unless the owner is
\* about to.
LEMMA StartedChildren ==
    ASSUME ScopeIInv, act[Owner].pc # "start"
    PROVE  \A s \in Scopes : \A c \in scope[s].children : c \in Tasks /\ task[c].state # "Created"
  BY DEF ScopeIInv, TaskInv, Types, ScopeRec

\* Scopes and lists that only grow keep a child kept.
LEMMA KeptStays ==
    ASSUME \A s \in Scopes : scope[s].children \subseteq scope'[s].children,
           \A a \in Actors : act[a].pc \in TakenPCs =>
               act'[a].pc \in TakenPCs /\ act[a].kids \subseteq act'[a].kids
    PROVE  \A c : Kept(c) => Kept(c)'
  BY DEF Kept

\* The calls of the owner that only choose where to go: cancel_all, the joins,
\* close, shutdown and the end of a scope's variable.
LEMMA BeginStep ==
    ASSUME ScopeIInv, NEW s \in Scopes, NEW p \in {"cancel_all", "join", "release"},
           NEW op \in Ops, NEW st \in {scope[s].state, BegunClose(scope[s].state)},
           Ready, Mine(s), Begin(p, op, s), scope' = [scope EXCEPT ![s].state = st],
           UNCHANGED <<task, parent, abort, cancels>>,
           op \in {"close", "shutdown"} /\ p # "release" => st = "Closing"
    PROVE  ScopeIInv'
<1>1. /\ Types /\ act[Owner].pc = "idle" /\ act[Owner].kids = {} /\ act[Owner].scopes = {}
      /\ act[Owner].scope = None /\ scope[s].value = 1
  BY Finite DEF ScopeIInv, Ready, At, Mine, LocalInv, LocalOK, KidPCs
<1>2. /\ act' \in [Actors -> ActRec] /\ \A b \in Actors : b # Owner => act'[b] = act[b]
      /\ act'[Owner].pc = p /\ act'[Owner].op = op /\ act'[Owner].scope = s
      /\ act'[Owner].kids = {} /\ act'[Owner].scopes = {}
  <2> DEFINE l == [act[Owner] EXCEPT !.pc = p, !.op = op, !.scope = s]
  <2>1. act[Owner] \in ActRec
    BY <1>1, Finite DEF Types
  <2>2. /\ l \in ActRec /\ l.pc = p /\ l.op = op /\ l.scope = s
        /\ l.kids = act[Owner].kids /\ l.scopes = act[Owner].scopes
    BY <2>1 DEF ActRec, PCs
  <2>3. act' = [act EXCEPT ![Owner] = l]
    BY <1>1, Finite DEF Begin, Types
  <2> HIDE DEF l
  <2> QED
    BY <1>1, <2>2, <2>3, Finite DEF Types
<1>3. /\ scope' \in [Scopes -> ScopeRec] /\ scope'[s].state = st
      /\ \A r \in Scopes : /\ scope'[r].children = scope[r].children
                           /\ scope'[r].refs = scope[r].refs
                           /\ scope'[r].value = scope[r].value
                           /\ r # s => scope'[r] = scope[r]
  BY <1>1 DEF Types, ScopeRec, BegunClose
<1>4. \A c \in Tasks : Evolves(task[c], task'[c], Gain(Owner, c))
  BY <1>1, <1>2, <1>3, ScopesStay, GainZero, Finite
<1>5. Types'
  BY <1>1, <1>2, <1>3 DEF Types
<1>6. GoesOn
  BY <1>3, <1>4 DEF GoesOn, Evolves, BegunClose, Refusing
<1>7. RefsExact'
  BY <1>1, <1>2, <1>3, <1>4, <1>5, RefsStill, Finite DEF ScopeIInv
<1>8. LocalInv' /\ WalkInv' /\ ReachInv'
  <2>1. LocalOK(act'[Owner])
    BY <1>2 DEF LocalOK
  <2> QED
    BY <1>2, <1>3, <1>6, <2>1, OwnerFrame, Finite
<1>9. OwnerInv'
  BY <1>1, <1>2, <1>3 DEF OwnerInv
<1>10. ScopeInv'
  BY <1>1, <1>3 DEF ScopeIInv, ScopeInv, BegunClose
<1>11. TaskInv'
  BY <1>1, <1>2, <1>3, <1>4, StartedChildren, KeptStays, Finite
     DEF ScopeIInv, TaskInv, TakenPCs, Evolves
<1> QED
  BY <1>5, <1>7, <1>8, <1>9, <1>10, <1>11 DEF ScopeIInv, NoAbort

\* cancel_all, the joins, close, shutdown and the drop of a scope are such calls.
LEMMA BeginSteps ==
    ASSUME ScopeIInv, NEW s \in Scopes,
           \/ CancelAll(s) \/ Join(s) \/ CancelAndJoin(s) \/ DropScope(s)
           \/ Close(s) \/ Shutdown(s)
    PROVE  ScopeIInv'
<1>1. /\ scope \in [Scopes -> ScopeRec] /\ scope = [scope EXCEPT ![s].state = scope[s].state]
      /\ scope[s] \in ScopeRec
  BY DEF ScopeIInv, Types, ScopeRec
<1>2. CASE CancelAll(s)
  BY <1>1, <1>2, BeginStep DEF CancelAll, Ops
<1>3. CASE Join(s)
  BY <1>1, <1>3, BeginStep DEF Join, Ops
<1>4. CASE CancelAndJoin(s)
  BY <1>1, <1>4, BeginStep DEF CancelAndJoin, Ops
<1>5. CASE DropScope(s)
  BY <1>1, <1>5, BeginStep DEF DropScope, Ops
<1>6. CASE Close(s)
  <2> DEFINE st == BegunClose(scope[s].state)
  <2>1. scope' = [scope EXCEPT ![s].state = st] /\ scope'[s].state = st
    BY <1>1, <1>6 DEF Close, ScopeRec
  <2> HIDE DEF st
  <2>2. CASE st = "Closing"
    BY <1>6, <2>1, <2>2, BeginStep DEF Close, Ops, st
  <2>3. CASE st # "Closing"
    BY <1>6, <2>1, <2>3, BeginStep DEF Close, Ops, st
  <2> QED
    BY <2>2, <2>3
<1>7. CASE Shutdown(s)
  <2>1. BegunClose(scope[s].state) = "Closing"
    BY <1>1, <1>7 DEF Shutdown, IsDone, ScopeIInv, ScopeInv, BegunClose, ScopeRec
  <2> QED
    BY <1>7, <2>1, BeginStep DEF Shutdown, Ops
<1> QED
  BY <1>2, <1>3, <1>4, <1>5, <1>6, <1>7

\* A step of the owner along a join, or from a finished start.
LEMMA OwnerGoes ==
    ASSUME ScopeIInv, NEW p \in {"idle", "cancel_all", "join", "release", "finish"},
           act[Owner].pc \in {"join", "start"},
           /\ act' \in [Actors -> ActRec] /\ \A b \in Actors : b # Owner => act'[b] = act[b]
           /\ act'[Owner].pc = p /\ act'[Owner].kids = {} /\ act'[Owner].scopes = {}
           /\ p = "idle" => act'[Owner].scope = None /\ act'[Owner].op = "none"
           /\ p # "idle" => act'[Owner].scope = act[Owner].scope /\ act'[Owner].op = act[Owner].op,
           act[Owner].pc = "start" => p = "idle",
           p = "finish" => act[Owner].op \in {"close", "shutdown"} /\ IsDone(act[Owner].scope),
           \A c \in Tasks : /\ Evolves(task[c], task'[c], 0) /\ (Due(task'[c]) => Due(task[c]))
                            /\ act[Owner].pc = "join" => task'[c] = task[c]
                            /\ act[Owner].pc = "start" /\ c = act[Owner].task
                                 => task'[c].state # "Created",
           task' \in [Tasks -> TaskRec],
           UNCHANGED <<scope, parent, abort, cancels>>
    PROVE  ScopeIInv'
<1>1. Types /\ act[Owner].kids = {}
  BY Finite DEF ScopeIInv, LocalInv, LocalOK, KidPCs
<1>2. \A c \in Tasks : Evolves(task[c], task'[c], Gain(Owner, c))
  BY <1>1, ScopesStay, GainZero, Finite
<1>3. Types'
  BY <1>1 DEF Types
<1>4. GoesOn
  BY <1>2 DEF GoesOn, Evolves
<1>5. RefsExact'
  BY <1>1, <1>2, <1>3, RefsStill, Finite DEF ScopeIInv
<1>6. LocalInv' /\ WalkInv' /\ ReachInv'
  <2>1. LocalOK(act'[Owner])
    BY DEF LocalOK, ScopeIInv, OwnerInv
  <2> QED
    BY <1>4, <2>1, OwnerFrame, Finite
<1>7. OwnerInv'
  <2>1. p = "finish" => IsDone(act[Owner].scope)'
    BY DEF IsDone, ScopeIInv, OwnerInv, Types, ScopeRec
  <2> QED
    BY <2>1 DEF ScopeIInv, OwnerInv
<1>8. ScopeInv'
  BY DEF ScopeIInv, ScopeInv
<1>9. TaskInv'
  <2>1. \A c : Kept(c) => Kept(c)'
    BY KeptStays, Finite DEF TakenPCs
  <2> QED
    BY <1>2, <2>1 DEF ScopeIInv, TaskInv, Evolves, Onward
<1> QED
  BY <1>3, <1>5, <1>6, <1>7, <1>8, <1>9 DEF ScopeIInv, NoAbort

\* The steps of a join, and the start of an enrolled child.
LEMMA JoinSteps ==
    ASSUME ScopeIInv, JoinCancels \/ JoinDone \/ StartChild
    PROVE  ScopeIInv'
<1>1. /\ Types /\ act[Owner] \in ActRec /\ act \in [Actors -> ActRec]
      /\ task \in [Tasks -> TaskRec]
      /\ \A c \in Tasks : task[c] \in TaskRec /\ TaskLocal(task[c])
  BY Finite DEF ScopeIInv, Types, TaskInv
<1>2. CASE JoinCancels
  <2>1. PICK p \in {"cancel_all", "join"} :
            act' = [act EXCEPT ![Owner].handled = 1, ![Owner].pc = p]
    BY <1>2 DEF JoinCancels
  <2> DEFINE l == [act[Owner] EXCEPT !.handled = 1, !.pc = p]
  <2>2. /\ l \in ActRec /\ l.pc = p /\ l.kids = act[Owner].kids /\ l.op = act[Owner].op
        /\ l.scope = act[Owner].scope /\ l.scopes = act[Owner].scopes
    BY <1>1 DEF ActRec, PCs
  <2>3. act' = [act EXCEPT ![Owner] = l]
    BY <1>1, <2>1, Finite
  <2> HIDE DEF l
  <2>4. /\ act' \in [Actors -> ActRec] /\ \A b \in Actors : b # Owner => act'[b] = act[b]
        /\ act'[Owner] = l
    BY <1>1, <2>2, <2>3, Finite
  <2>5. /\ act[Owner].pc = "join" /\ act[Owner].kids = {} /\ task' = task
        /\ UNCHANGED <<scope, parent, abort, cancels>>
    BY <1>2, Finite DEF JoinCancels, At, ScopeIInv, LocalInv, LocalOK, KidPCs
  <2>6. act[Owner].scopes = {}
    BY Finite DEF ScopeIInv, LocalInv
  <2> QED
    BY <1>1, <2>2, <2>4, <2>5, <2>6, EvolvesStay, OwnerGoes
<1>3. CASE JoinDone
  <2>1. /\ act[Owner].pc = "join" /\ act[Owner].kids = {} /\ task' = task
        /\ IsDone(act[Owner].scope)
        /\ UNCHANGED <<scope, parent, abort, cancels>>
    BY <1>3, Finite DEF JoinDone, At, My, ScopeIInv, LocalInv, LocalOK, KidPCs
  <2>2. PICK p \in {"idle", "release", "finish"} :
            Goto(Owner, p) /\ (p = "finish" => act[Owner].op \in {"close", "shutdown"})
    BY <1>3 DEF JoinDone, My
  <2>3. StepsTo(Owner, p, {})
    BY <1>1, <2>1, <2>2, GotoPoint, Finite DEF PCs
  <2>4. act[Owner].scopes = {}
    BY Finite DEF ScopeIInv, LocalInv
  <2> QED
    BY <1>1, <2>1, <2>2, <2>3, <2>4, EvolvesStay, OwnerGoes DEF StepsTo
<1>4. CASE StartChild
  <2> DEFINE c == act[Owner].task
  <2>1. /\ act[Owner].pc = "start" /\ act[Owner].kids = {} /\ c \in Tasks
        /\ UNCHANGED <<scope, parent, abort, cancels>> /\ Goto(Owner, "idle")
        /\ task' = [task EXCEPT ![c] = Started(@)]
    BY <1>4, Finite DEF StartChild, At, My, ScopeIInv, LocalInv, LocalOK, KidPCs, OwnerInv
  <2>2. StepsTo(Owner, "idle", {})
    BY <1>1, <2>1, GotoPoint, Finite DEF PCs
  <2> HIDE DEF c
  <2> DEFINE u == Started(task[c])
  <2>3. task' = [task EXCEPT ![c] = u]
    BY <1>1, <2>1
  <2>4. Evolves(task[c], u, 0) /\ u.state # "Created" /\ (Due(u) => Due(task[c]))
    BY <1>1, <2>1, EvolvesUse
  <2> HIDE DEF u
  <2>5. u \in TaskRec /\ task' \in [Tasks -> TaskRec]
    BY <1>1, <2>1, <2>3, <2>4 DEF Evolves, Onward
  <2>6. \A d \in Tasks : /\ Evolves(task[d], task'[d], 0) /\ (Due(task'[d]) => Due(task[d]))
                         /\ d = c => task'[d].state # "Created"
    BY <1>1, <2>1, <2>3, <2>4, EvolvesStay
  <2> QED
    BY <2>1, <2>2, <2>5, <2>6, OwnerGoes DEF StepsTo, c
<1> QED
  BY <1>2, <1>3, <1>4

\* A step that only touches children's records and the parent's list of
\* cancellation children: a result taken, a handle dropped, a child listed, told
\* or ended, a cancellation caught.
LEMMA RecordStep ==
    ASSUME ScopeIInv, UNCHANGED <<scope, act, abort, cancels>>, parent' \in ParentRec,
           parent'.refs = parent.refs, parent'.cancel_scopes = parent.cancel_scopes,
           parent'.cancel_requested = 1 => parent.cancel_requested = 1,
           task' \in [Tasks -> TaskRec],
           \A c \in Tasks :
               /\ Evolves(task[c], task'[c], One(c \in parent'.cancel_children)
                                             - One(c \in parent.cancel_children))
               /\ Due(task'[c]) => Due(task[c])
    PROVE  ScopeIInv'
<1>1. Types /\ Types'
  BY DEF ScopeIInv, Types
<1>2. \A c \in Tasks : Evolves(task[c], task'[c], Gain(Owner, c))
  <2> SUFFICES ASSUME NEW c \in Tasks PROVE Evolves(task[c], task'[c], Gain(Owner, c))
    OBVIOUS
  <2>1. InScopes(c)' = InScopes(c) /\ Cardinality(InScopes(c)) \in Nat
    BY ScopesStay, Sizes
  <2>2. Gain(Owner, c) = One(c \in parent'.cancel_children) - One(c \in parent.cancel_children)
    BY <2>1 DEF Gain, One
  <2> QED
    BY <2>2
<1>3. GoesOn
  BY <1>2 DEF GoesOn, Evolves
<1>4. RefsExact'
  BY <1>1, <1>2, RefsStill, Finite DEF ScopeIInv
<1>5. LocalInv' /\ WalkInv' /\ ReachInv'
  BY <1>1, <1>3, OwnerFrame, Finite DEF ScopeIInv, LocalInv
<1>6. OwnerInv'
  BY <1>1, <1>3, OwnerStays DEF ScopeIInv
<1>7. ScopeInv'
  BY DEF ScopeIInv, ScopeInv
<1>8. TaskInv'
  <2>1. \A c : Kept(c) => Kept(c)'
    BY KeptStays
  <2> QED
    BY <1>2, <2>1 DEF ScopeIInv, TaskInv, Evolves, Onward
<1> QED
  BY <1>1, <1>4, <1>5, <1>6, <1>7, <1>8 DEF ScopeIInv, NoAbort

\* The steps that change one child's record.
LEMMA RecordSteps ==
    ASSUME ScopeIInv, NEW c \in Tasks,
           \/ TakeResult(c) \/ EndChild(c)
           \/ DropHandle(c) /\ task[c].state # "Created"
           \/ RegisterCancelChild(c) \/ UnregisterCancelChild(c)
    PROVE  ScopeIInv'
<1>1. /\ task \in [Tasks -> TaskRec] /\ parent \in ParentRec
      /\ \A d \in Tasks : task[d] \in TaskRec /\ TaskLocal(task[d])
  BY DEF ScopeIInv, Types, TaskInv
<1>2. ASSUME NEW u, task' = [task EXCEPT ![c] = u], parent' \in ParentRec,
             UNCHANGED <<scope, act, abort, cancels>>,
             parent'.refs = parent.refs, parent'.cancel_scopes = parent.cancel_scopes,
             parent'.cancel_requested = parent.cancel_requested,
             \A d \in Tasks : d # c =>
                 (d \in parent'.cancel_children <=> d \in parent.cancel_children),
             Evolves(task[c], u, One(c \in parent'.cancel_children)
                                 - One(c \in parent.cancel_children)),
             Due(u) => Due(task[c])
      PROVE  ScopeIInv'
  <2>1. task' \in [Tasks -> TaskRec] /\ task'[c] = u /\ \A d \in Tasks : d # c => task'[d] = task[d]
    BY <1>1, <1>2 DEF Evolves, Onward
  <2>2. ASSUME NEW d \in Tasks, d # c
        PROVE  Evolves(task[d], task'[d], One(d \in parent'.cancel_children)
                                          - One(d \in parent.cancel_children))
    <3>1. One(d \in parent'.cancel_children) - One(d \in parent.cancel_children) = 0
      BY <1>2, <2>2 DEF One
    <3> QED
      BY <1>1, <2>1, <2>2, <3>1, EvolvesStay
  <2>3. \A d \in Tasks :
               /\ Evolves(task[d], task'[d], One(d \in parent'.cancel_children)
                                             - One(d \in parent.cancel_children))
               /\ Due(task'[d]) => Due(task[d])
    BY <1>2, <2>1, <2>2
  <2> QED
    BY <1>2, <2>1, <2>3, RecordStep
<1>3. One(c \in parent.cancel_children) - One(c \in parent.cancel_children) = 0
  BY DEF One
<1>4. CASE TakeResult(c)
  <2> DEFINE u == [task[c] EXCEPT !.result = "Taken"]
  <2>1. task' = [task EXCEPT ![c] = u]
    BY <1>1, <1>4 DEF TakeResult
  <2>2. Evolves(task[c], u, 0) /\ ~Due(u)
    BY <1>1, <1>4, EvolvesUse DEF TakeResult
  <2> HIDE DEF u
  <2> QED
    BY <1>1, <1>2, <1>3, <1>4, <2>1, <2>2 DEF TakeResult
<1>5. CASE DropHandle(c) /\ task[c].state # "Created"
  <2> DEFINE u == DetachOwned([task[c] EXCEPT !.handle = 0], "Consumer")
  <2>1. /\ task' = [task EXCEPT ![c] = u] /\ task[c].handle = 1
        /\ UNCHANGED <<scope, act, parent, abort, cancels>>
    BY <1>5 DEF DropHandle
  <2>2. Evolves(task[c], u, 0) /\ ~Due(u)
    BY <1>1, <2>1, EvolvesDrop
  <2> HIDE DEF u
  <2> QED
    BY <1>1, <1>2, <1>3, <2>1, <2>2
<1>6. CASE EndChild(c)
  <2> DEFINE u == Drained([task[c] EXCEPT !.state = "Completed", !.result = "Live"])
             v == Drained([task[c] EXCEPT !.state = "Canceled"])
  <2>1. task' = [task EXCEPT ![c] = u] \/ task' = [task EXCEPT ![c] = v]
    BY <1>6 DEF EndChild
  <2>2. /\ Evolves(task[c], u, 0) /\ (Due(u) => Due(task[c]))
        /\ Evolves(task[c], v, 0) /\ (Due(v) => Due(task[c]))
    BY <1>1, <1>6, EvolvesEnd DEF EndChild
  <2> HIDE DEF u, v
  <2> QED
    BY <1>1, <1>2, <1>3, <1>6, <2>1, <2>2 DEF EndChild
<1>7. CASE RegisterCancelChild(c)
  <2> DEFINE u == IF parent.cancel_requested = 1 THEN Asked(Retained(task[c]))
                  ELSE Retained(task[c])
  <2>1. task' = [task EXCEPT ![c] = u]
    BY <1>7 DEF RegisterCancelChild
  <2>2. /\ Evolves(task[c], Retained(task[c]), 1)
        /\ Due(Retained(task[c])) => Due(task[c])
    BY <1>1, EvolvesSimple
  <2>3. /\ Evolves(Retained(task[c]), Asked(Retained(task[c])), 0)
        /\ Due(Asked(Retained(task[c]))) => Due(Retained(task[c]))
    BY <2>2, EvolvesSimple DEF Evolves, Onward
  <2>4. Evolves(task[c], Asked(Retained(task[c])), 1 + 0)
    BY <1>1, <2>2, <2>3, EvolvesTwice
  <2>5. Evolves(task[c], u, 1) /\ (Due(u) => Due(task[c]))
    BY <2>2, <2>3, <2>4
  <2> HIDE DEF u
  <2>6. /\ parent' \in ParentRec /\ parent'.refs = parent.refs
        /\ parent'.cancel_scopes = parent.cancel_scopes
        /\ parent'.cancel_requested = parent.cancel_requested
        /\ parent'.cancel_children = parent.cancel_children \cup {c}
        /\ c \notin parent.cancel_children
    BY <1>1, <1>7 DEF RegisterCancelChild, ParentRec
  <2>7. One(c \in parent'.cancel_children) - One(c \in parent.cancel_children) = 1
    BY <2>6 DEF One
  <2> QED
    BY <1>2, <1>7, <2>1, <2>5, <2>6, <2>7 DEF RegisterCancelChild
<1>8. CASE UnregisterCancelChild(c)
  <2>1. Evolves(task[c], Released(task[c]), -1) /\ (Due(Released(task[c])) => Due(task[c]))
    BY <1>1, EvolvesSimple
  <2>2. /\ parent' \in ParentRec /\ parent'.refs = parent.refs
        /\ parent'.cancel_scopes = parent.cancel_scopes
        /\ parent'.cancel_requested = parent.cancel_requested
        /\ parent'.cancel_children = parent.cancel_children \ {c}
        /\ c \in parent.cancel_children
    BY <1>1, <1>8 DEF UnregisterCancelChild, ParentRec
  <2>3. One(c \in parent'.cancel_children) - One(c \in parent.cancel_children) = -1
    BY <2>2 DEF One
  <2> QED
    BY <1>2, <1>8, <2>1, <2>2, <2>3 DEF UnregisterCancelChild
<1> QED
  BY <1>4, <1>5, <1>6, <1>7, <1>8

\* The parent catches its cancellation.
LEMMA HandleStep == ASSUME ScopeIInv, HandleCancellation PROVE ScopeIInv'
<1>1. /\ task \in [Tasks -> TaskRec] /\ parent \in ParentRec
      /\ \A d \in Tasks : task[d] \in TaskRec /\ TaskLocal(task[d])
  BY DEF ScopeIInv, Types, TaskInv
<1>2. /\ parent' \in ParentRec /\ parent'.refs = parent.refs
      /\ parent'.cancel_scopes = parent.cancel_scopes /\ parent'.cancel_requested = 0
      /\ parent'.cancel_children = parent.cancel_children
  BY <1>1 DEF HandleCancellation, ParentRec
<1>3. \A c \in Tasks : One(c \in parent'.cancel_children) - One(c \in parent.cancel_children) = 0
  BY <1>2 DEF One
<1> QED
  BY <1>1, <1>2, <1>3, EvolvesStay, RecordStep DEF HandleCancellation

\* A scope with a value or with a canceller at it is alive; a last reference is
\* the only one.
LEMMA ScopeHeld ==
    ASSUME ScopeIInv, NEW s \in Scopes
    PROVE  /\ scope[s].refs \in Nat /\ scope[s].value \in {0, 1}
           /\ scope[s].value = 1 => scope[s].refs >= 1
           /\ \A x \in Cancellers : HoldsScope(act[x], s) =>
                scope[s].refs >= 1 /\ (scope[s].refs = 1 => scope[s].value = 0)
           /\ scope[s].refs >= 1 => scope[s].state # "Unused"
           /\ scope[s].refs = 0 => scope[s].value = 0
           /\ s \in parent.cancel_scopes <=> scope[s].refs > 0
<1>1. /\ scope[s].refs = scope[s].value + Cardinality(AtScope(s))
      /\ s \in parent.cancel_scopes <=> scope[s].refs > 0
  BY HoldersAre DEF ScopeIInv, RefsExact
<1>2. /\ scope[s].value \in {0, 1} /\ Cardinality(AtScope(s)) \in Nat
      /\ \A x \in Cancellers : HoldsScope(act[x], s) => Cardinality(AtScope(s)) >= 1
  BY Sizes DEF ScopeIInv, Types, ScopeRec
<1>3. scope[s].state = "Unused" => scope[s].refs = 0
  BY DEF ScopeIInv, ScopeInv
<1> QED
  BY <1>1, <1>2, <1>3

\* Two updates of one scope are one.
LEMMA TwoFields ==
    ASSUME Types, NEW s \in Scopes, NEW st \in {"Unused", "Open", "Closing", "Closed"},
           NEW kids \in SUBSET Tasks,
           scope' = [scope EXCEPT ![s].state = st, ![s].children = kids]
    PROVE  /\ scope' \in [Scopes -> ScopeRec]
           /\ scope'[s].state = st /\ scope'[s].children = kids
           /\ scope'[s].refs = scope[s].refs /\ scope'[s].value = scope[s].value
           /\ \A r \in Scopes : r # s => scope'[r] = scope[r]
<1> DEFINE q == [scope[s] EXCEPT !.state = st, !.children = kids]
<1>1. scope \in [Scopes -> ScopeRec] /\ scope[s] \in ScopeRec
  BY DEF Types
<1>2. scope' = [scope EXCEPT ![s] = q]
  BY <1>1
<1>3. /\ q \in ScopeRec /\ q.state = st /\ q.children = kids
      /\ q.refs = scope[s].refs /\ q.value = scope[s].value
  BY <1>1 DEF ScopeRec
<1> HIDE DEF q
<1> QED
  BY <1>1, <1>2, <1>3

\* A refused enrolment.
LEMMA RefusedStep ==
    ASSUME ScopeIInv, NEW s \in Scopes, NEW c \in Tasks, SpawnInto(s, c) \/ SpawnScoped(s, c),
           StateAtEnrollment(s) # "Open"
    PROVE  ScopeIInv'
<1>1. /\ Types /\ act[Owner].pc = "idle" /\ scope[s].value = 1 /\ scope[s] \in ScopeRec
      /\ UNCHANGED <<task, act, parent, cancels>>
      /\ abort' \in {abort, "TaskScope enrollment failed"} /\ abort = None
      /\ scope' = [scope EXCEPT ![s].state = StateAtEnrollment(s),
                                ![s].children = scope[s].children]
  BY DEF ScopeIInv, SpawnInto, SpawnScoped, Ready, At, Alive, Mine, Types
<1>2. StateAtEnrollment(s) \in Refusing /\ scope[s].state # "Unused"
  BY <1>1, ScopeHeld DEF StateAtEnrollment, Types, ScopeRec, Refusing
<1>3. /\ scope' \in [Scopes -> ScopeRec]
      /\ scope'[s].state \in Refusing /\ scope'[s].children = scope[s].children
      /\ scope'[s].state \in {scope[s].state, "Closing"}
      /\ scope'[s].refs = scope[s].refs /\ scope'[s].value = scope[s].value
      /\ \A r \in Scopes : r # s => scope'[r] = scope[r]
  <2> DEFINE st == StateAtEnrollment(s)
             kids == scope[s].children
  <2>1. st \in {"Unused", "Open", "Closing", "Closed"} /\ kids \in SUBSET Tasks
    BY <1>1, <1>2 DEF Refusing, ScopeRec
  <2>2. scope' = [scope EXCEPT ![s].state = st, ![s].children = kids]
    BY <1>1
  <2>3. st \in Refusing /\ st \in {scope[s].state, "Closing"}
    BY <1>2 DEF StateAtEnrollment
  <2> HIDE DEF st, kids
  <2>4. /\ scope' \in [Scopes -> ScopeRec]
        /\ scope'[s].state = st /\ scope'[s].children = kids
        /\ scope'[s].refs = scope[s].refs /\ scope'[s].value = scope[s].value
        /\ \A r \in Scopes : r # s => scope'[r] = scope[r]
    BY <1>1, <2>1, <2>2, TwoFields, ZenonT(60)
  <2> QED
    BY <2>3, <2>4 DEF kids
<1>4. \A c1 \in Tasks : Evolves(task[c1], task'[c1], Gain(Owner, c1))
  BY <1>1, <1>3, ScopesStay, GainZero, Finite
<1>5. Types'
  BY <1>1, <1>3 DEF Types
<1>6. GoesOn
  BY <1>3, <1>4 DEF GoesOn, Evolves
<1>7. RefsExact'
  BY <1>1, <1>3, <1>4, <1>5, RefsStill, Finite DEF ScopeIInv
<1>8. LocalInv' /\ WalkInv' /\ ReachInv'
  BY <1>1, <1>3, <1>6, OwnerFrame, Finite DEF ScopeIInv, LocalInv, Types, ParentRec
<1>9. OwnerInv'
  BY <1>1 DEF ScopeIInv, OwnerInv
<1>10. ScopeInv'
  <2>1. scope[s].refs # 0
    <3>1. scope[s].value = 1
      BY <1>1
    <3>2. scope[s].refs \in Nat /\ (scope[s].value = 1 => scope[s].refs >= 1)
      BY ScopeHeld
    <3> QED
      BY <3>1, <3>2
  <2> QED
    BY <1>3, <2>1 DEF ScopeIInv, ScopeInv, Refusing
<1>11. TaskInv'
  BY <1>1, <1>3, <1>4, StartedChildren, KeptStays DEF ScopeIInv, TaskInv, Evolves
<1> QED
  BY <1>1, <1>5, <1>7, <1>8, <1>9, <1>10, <1>11 DEF ScopeIInv, NoAbort

\* An enrolment: the child is in no scope yet and becomes one of this scope.
LEMMA EnrolledStep ==
    ASSUME ScopeIInv, NEW s \in Scopes, NEW c \in Tasks, SpawnInto(s, c) \/ SpawnScoped(s, c),
           StateAtEnrollment(s) = "Open"
    PROVE  ScopeIInv'
<1>1. /\ Types /\ act[Owner].pc = "idle" /\ act[Owner].kids = {} /\ act[Owner].scopes = {}
      /\ act[Owner].scope = None
      /\ scope[s].value = 1 /\ scope[s] \in ScopeRec /\ act[Owner] \in ActRec
      /\ UNCHANGED <<parent, abort, cancels>> /\ task[c].state = "Created"
      /\ task[c].handle = 1
      /\ scope' = [scope EXCEPT ![s].state = "Open",
                                ![s].children = scope[s].children \cup {c}]
      /\ act' = [act EXCEPT ![Owner].pc = "start", ![Owner].task = c]
      /\ task[c] \in TaskRec /\ TaskLocal(task[c])
  BY Finite DEF ScopeIInv, SpawnInto, SpawnScoped, Ready, At, Mine, Types, Cold, LocalInv,
                LocalOK, KidPCs, TaskInv
<1>2. parent.cancel_requested # 1 /\ scope[s].state = "Open"
  BY DEF StateAtEnrollment
<1>3. /\ scope' \in [Scopes -> ScopeRec]
      /\ scope'[s].state = "Open" /\ scope'[s].children = scope[s].children \cup {c}
      /\ scope'[s].refs = scope[s].refs /\ scope'[s].value = scope[s].value
      /\ \A r \in Scopes : r # s => scope'[r] = scope[r]
  <2> DEFINE kids == scope[s].children \cup {c}
  <2>1. kids \in SUBSET Tasks
    BY <1>1 DEF ScopeRec
  <2>2. scope' = [scope EXCEPT ![s].state = "Open", ![s].children = kids]
    BY <1>1
  <2> HIDE DEF kids
  <2>3. /\ scope' \in [Scopes -> ScopeRec]
        /\ scope'[s].state = "Open" /\ scope'[s].children = kids
        /\ scope'[s].refs = scope[s].refs /\ scope'[s].value = scope[s].value
        /\ \A r \in Scopes : r # s => scope'[r] = scope[r]
    BY <1>1, <2>1, <2>2, TwoFields
  <2> QED
    BY <2>3 DEF kids
<1>4. /\ act' \in [Actors -> ActRec] /\ \A b \in Actors : b # Owner => act'[b] = act[b]
      /\ act'[Owner].pc = "start" /\ act'[Owner].task = c
      /\ act'[Owner].kids = {} /\ act'[Owner].scopes = {} /\ act'[Owner].scope = None
  <2> DEFINE l == [act[Owner] EXCEPT !.pc = "start", !.task = c]
  <2>1. /\ l \in ActRec /\ l.pc = "start" /\ l.task = c /\ l.scope = act[Owner].scope
        /\ l.kids = act[Owner].kids /\ l.scopes = act[Owner].scopes
    BY <1>1 DEF ActRec, PCs
  <2>2. act' = [act EXCEPT ![Owner] = l]
    BY <1>1, Finite DEF Types
  <2> HIDE DEF l
  <2> QED
    BY <1>1, <2>1, <2>2, Finite DEF Types
<1>5. PICK u : task' = [task EXCEPT ![c] = u] /\ Evolves(task[c], u, 1)
  <2>1. CASE SpawnInto(s, c)
    <3> DEFINE u == [task[c] EXCEPT !.owner = "Scope", !.handle = 0]
    <3>1. task' = [task EXCEPT ![c] = u]
      BY <1>1, <2>1 DEF SpawnInto, Types
    <3>2. Evolves(task[c], u, 1)
      BY <1>1, EvolvesUse
    <3> QED
      BY <3>1, <3>2
  <2>2. CASE SpawnScoped(s, c)
    <3>1. task' = [task EXCEPT ![c] = Retained(task[c])]
      BY <1>1, <2>2 DEF SpawnScoped
    <3>2. Evolves(task[c], Retained(task[c]), 1)
      BY <1>1, EvolvesSimple
    <3> QED
      BY <3>1, <3>2
  <2> QED
    BY <2>1, <2>2
<1>6. task' \in [Tasks -> TaskRec] /\ task'[c] = u /\ \A d \in Tasks : d # c => task'[d] = task[d]
  BY <1>1, <1>5 DEF Types, Evolves, Onward
<1>7. \A r \in Scopes : c \notin scope[r].children
  BY <1>1, StartedChildren
<1>8. ASSUME NEW d \in Tasks PROVE Evolves(task[d], task'[d], Gain(Owner, d))
  <2>1. Cardinality(InScopes(d)') = Cardinality(InScopes(d))
                + One(d \in scope'[s].children) - One(d \in scope[s].children)
        /\ Cardinality(InScopes(d)) \in Nat
    BY <1>3, ScopeMoves, Sizes
  <2>2. CASE d = c
    <3>1. Gain(Owner, d) = 1
      BY <1>1, <1>3, <1>4, <1>7, <2>1, <2>2 DEF Gain, One
    <3> QED
      BY <1>5, <1>6, <2>2, <3>1
  <2>3. CASE d # c
    <3>1. Gain(Owner, d) = 0
      BY <1>1, <1>3, <1>4, <2>1, <2>3 DEF Gain, One
    <3> QED
      BY <1>6, <2>3, <3>1, EvolvesStay DEF ScopeIInv, Types, TaskInv
  <2> QED
    BY <2>2, <2>3
<1>9. Types'
  BY <1>1, <1>3, <1>4, <1>6 DEF Types
<1>10. GoesOn
  BY <1>2, <1>3, <1>8 DEF GoesOn, Evolves, Refusing
<1>11. RefsExact'
  BY <1>1, <1>3, <1>4, <1>8, <1>9, RefsStill, Finite DEF ScopeIInv
<1>12. LocalInv' /\ WalkInv' /\ ReachInv'
  <2>1. LocalOK(act'[Owner])
    BY <1>4 DEF LocalOK
  <2> QED
    BY <1>1, <1>2, <1>4, <1>10, <2>1, OwnerFrame, Finite
<1>13. OwnerInv'
  BY <1>4 DEF OwnerInv
<1>14. ScopeInv'
  BY <1>1, <1>3, ScopeHeld DEF ScopeIInv, ScopeInv
<1>15. TaskInv'
  <2>1. \A d : Kept(d) => Kept(d)'
    BY <1>1, <1>3, <1>4, KeptStays, Finite DEF TakenPCs
  <2>2. Kept(c)'
    BY <1>3 DEF Kept
  <2>3. \A d \in Tasks : Due(task'[d]) => Kept(d)'
    BY <1>6, <2>1, <2>2 DEF ScopeIInv, TaskInv
  <2>4. \A r \in Scopes, d \in Tasks : d \in scope'[r].children /\ d # c => task'[d].state # "Created"
    BY <1>1, <1>3, <1>6, StartedChildren
  <2> QED
    BY <1>4, <1>8, <2>3, <2>4 DEF TaskInv, Evolves, Onward
<1> QED
  BY <1>1, <1>9, <1>11, <1>12, <1>13, <1>14, <1>15 DEF ScopeIInv, NoAbort

\* A step of canceller x does not lose a scope it has yet to come to.
LEMMA ReachFrame ==
    ASSUME ScopeIInv, GoesOn, NEW x \in Cancellers, \A b \in Actors : b # x => act'[b] = act[b],
           parent'.cancel_requested = 1 => parent.cancel_requested = 1,
           \A s \in parent'.cancel_scopes :
               /\ s \in parent.cancel_scopes
               /\ scope'[s].children \subseteq scope[s].children
               /\ PendingAt(act[x], s) => PendingAt(act'[x], s) \/ AllAsked(s)'
    PROVE  ReachInv'
<1> SUFFICES ASSUME parent'.cancel_requested = 1, NEW s \in parent'.cancel_scopes
             PROVE  AllAsked(s)' \/ Pending(s)'
  BY DEF ReachInv
<1>1. s \in Scopes /\ scope[s].children \subseteq Tasks
  BY DEF ScopeIInv, Types, ParentRec, ScopeRec
<1>2. AllAsked(s) \/ Pending(s)
  BY DEF ScopeIInv, ReachInv
<1>3. AllAsked(s) => AllAsked(s)'
  BY <1>1, StaysAsked
<1>4. Pending(s) => Pending(s)' \/ AllAsked(s)'
  BY Finite DEF Pending
<1> QED
  BY <1>2, <1>3, <1>4

\* toka_task_release(parent) takes one reference, and the children still listed
\* go with the last one.
LEMMA ParentReleased ==
    ASSUME ScopeIInv, ReleaseParent
    PROVE  /\ parent' \in ParentRec /\ parent'.refs = parent.refs - 1
           /\ parent'.cancel_scopes = parent.cancel_scopes
           /\ parent'.cancel_requested = parent.cancel_requested
           /\ task' \in [Tasks -> TaskRec]
           /\ \A c \in Tasks :
                /\ Evolves(task[c], task'[c], One(c \in parent'.cancel_children)
                                              - One(c \in parent.cancel_children))
                /\ Due(task'[c]) => Due(task[c])
<1> DEFINE listed == IF parent.refs = 1 THEN parent.cancel_children ELSE {}
<1>1. /\ parent \in ParentRec /\ listed \subseteq parent.cancel_children
      /\ \A d \in Tasks : task[d] \in TaskRec /\ TaskLocal(task[d])
  BY DEF ScopeIInv, Types, TaskInv
<1>2. /\ parent' = [parent EXCEPT !.refs = @ - 1, !.cancel_children = @ \ listed]
      /\ task' = [c \in Tasks |-> IF c \in listed THEN Released(task[c]) ELSE task[c]]
  BY DEF ReleaseParent
<1> HIDE DEF listed
<1>3. /\ parent' \in ParentRec /\ parent'.refs = parent.refs - 1
      /\ parent'.cancel_scopes = parent.cancel_scopes
      /\ parent'.cancel_requested = parent.cancel_requested
      /\ parent'.cancel_children = parent.cancel_children \ listed
  <2> DEFINE r == parent.refs - 1
             k == parent.cancel_children \ listed
  <2>1. r \in Int /\ k \in SUBSET Tasks
    BY <1>1 DEF ParentRec
  <2>2. parent' = [parent EXCEPT !.refs = r, !.cancel_children = k]
    BY <1>1, <1>2 DEF ParentRec
  <2> HIDE DEF r, k
  <2>3. /\ parent' \in ParentRec /\ parent'.refs = r /\ parent'.cancel_children = k
        /\ parent'.cancel_scopes = parent.cancel_scopes
        /\ parent'.cancel_requested = parent.cancel_requested
    BY <1>1, <2>1, <2>2 DEF ParentRec
  <2> QED
    BY <2>3 DEF r, k
<1>4. ASSUME NEW c \in Tasks
      PROVE  /\ Evolves(task[c], task'[c], One(c \in parent'.cancel_children)
                                           - One(c \in parent.cancel_children))
             /\ Due(task'[c]) => Due(task[c])
  <2>1. CASE c \in listed
    <3>1. One(c \in parent'.cancel_children) - One(c \in parent.cancel_children) = -1
      BY <1>1, <1>3, <2>1 DEF One
    <3> QED
      BY <1>1, <1>2, <2>1, <3>1, EvolvesSimple
  <2>2. CASE c \notin listed
    <3>1. One(c \in parent'.cancel_children) - One(c \in parent.cancel_children) = 0
      BY <1>3, <2>2 DEF One
    <3> QED
      BY <1>1, <1>2, <2>2, <3>1, EvolvesStay
  <2> QED
    BY <2>1, <2>2
<1>5. task' \in [Tasks -> TaskRec]
  BY <1>1, <1>2, ReleasedFields
<1> QED
  BY <1>3, <1>4, <1>5

\* The steps that give back a reference to the parent.
LEMMA ReleaseStep ==
    ASSUME ScopeIInv, NEW a \in Actors, NEW p \in PCs, ReleaseParent, StepsTo(a, p, {}),
           UNCHANGED <<scope, abort, cancels>>, act[a].kids = {},
           \/ a = Owner /\ act[a].pc = "idle" /\ p = "ended"
           \/ act[a].pc = "orphan" /\ p = AfterRelease(a)
           \/ a \in Cancellers /\ act[a].pc = "scopes" /\ act[a].scopes = {} /\ p = "idle"
    PROVE  ScopeIInv'
<1>1. /\ Types /\ act' \in [Actors -> ActRec] /\ \A b \in Actors : b # a => act'[b] = act[b]
      /\ act'[a].pc = p /\ act'[a].kids = {}
      /\ act'[a].scopes = act[a].scopes
      /\ act[a].scope \notin act[a].scopes
      /\ p = "idle" => act'[a].scope = None /\ act'[a].op = "none" /\ act'[a].scopes = {}
      /\ p # "idle" => act'[a].scope = act[a].scope
      /\ p \in {"idle", "ended", "scopes"}
      /\ a = Owner => act[a].scopes = {}
  BY DEF ScopeIInv, StepsTo, LocalInv, LocalOK, AfterRelease
<1>2. /\ parent' \in ParentRec /\ parent'.refs = parent.refs - 1
      /\ parent'.cancel_scopes = parent.cancel_scopes
      /\ parent'.cancel_requested = parent.cancel_requested
      /\ task' \in [Tasks -> TaskRec]
      /\ \A c \in Tasks :
           /\ Evolves(task[c], task'[c], One(c \in parent'.cancel_children)
                                         - One(c \in parent.cancel_children))
           /\ Due(task'[c]) => Due(task[c])
  BY ParentReleased
<1>3. \A c \in Tasks : Evolves(task[c], task'[c], Gain(a, c))
  <2> SUFFICES ASSUME NEW c \in Tasks PROVE Evolves(task[c], task'[c], Gain(a, c))
    OBVIOUS
  <2>1. InScopes(c)' = InScopes(c) /\ Cardinality(InScopes(c)) \in Nat
    BY ScopesStay, Sizes
  <2>2. Gain(a, c) = One(c \in parent'.cancel_children) - One(c \in parent.cancel_children)
    BY <1>1, <2>1 DEF Gain, One
  <2> QED
    BY <1>2, <2>2
<1>4. Types'
  BY <1>1, <1>2 DEF Types
<1>5. GoesOn
  BY <1>3 DEF GoesOn, Evolves
<1>6. RefsExact'
  <2>1. \A s \in Scopes : /\ scope'[s].refs = scope[s].refs + ScopeGain(a, s)
                          /\ s \in parent'.cancel_scopes <=> scope'[s].refs > 0
    <3> SUFFICES ASSUME NEW s \in Scopes
                 PROVE  /\ scope'[s].refs = scope[s].refs + ScopeGain(a, s)
                        /\ s \in parent'.cancel_scopes <=> scope'[s].refs > 0
      OBVIOUS
    <3>1. a # Owner => (HoldsScope(act'[a], s) <=> HoldsScope(act[a], s))
      BY <1>1, Finite DEF HoldsScope, HoldPCs
    <3>2. scope[s].refs \in Int /\ scope[s].value \in Int
      BY <1>1 DEF Types, ScopeRec
    <3>3. ScopeGain(a, s) = 0
      BY <3>1, <3>2 DEF ScopeGain, One
    <3> QED
      BY <1>2, <3>2, <3>3 DEF ScopeIInv, RefsExact
  <2>2. ParentGain(a) = -1
    <3>1. Cardinality(parent.cancel_scopes) \in Nat
      BY <1>1, Finite, FS_Subset, FS_CardinalityType DEF Types, ParentRec
    <3>2. CASE a = Owner /\ act[a].pc = "idle" /\ p = "ended"
      BY <1>1, <1>2, <3>1, <3>2 DEF ParentGain, One
    <3>3. CASE act[a].pc = "orphan" /\ p = AfterRelease(a)
      <4>1. \/ One(act'[Owner].pc # "ended") = 1 /\ One(act[Owner].pc # "ended") = 1
            \/ a # Owner
        BY <1>1, <3>3 DEF One, AfterRelease
      <4>2. One(act'[Owner].pc # "ended") = One(act[Owner].pc # "ended")
        BY <1>1, <4>1, Finite
      <4>3. /\ One(act'[a].pc \in {"orphan", "detach"}) = 0
            /\ One(act[a].pc \in {"orphan", "detach"}) = 1
            /\ One(a # Owner /\ act'[a].pc # "idle") = One(a # Owner /\ act[a].pc # "idle")
        BY <1>1, <3>3 DEF One, AfterRelease
      <4> QED
        BY <1>2, <3>1, <4>2, <4>3 DEF ParentGain, One
    <3>4. CASE a \in Cancellers /\ act[a].pc = "scopes" /\ p = "idle"
      <4>1. a # Owner /\ act'[Owner] = act[Owner]
        BY <1>1, <3>4, Finite
      <4> QED
        BY <1>1, <1>2, <3>1, <3>4, <4>1 DEF ParentGain, One
    <3> QED
      BY <3>2, <3>3, <3>4
  <2>3. parent'.refs = parent.refs + ParentGain(a)
    BY <1>1, <1>2, <2>2 DEF Types, ParentRec
  <2> QED
    BY <1>1, <1>3, <1>4, <2>1, <2>3, RefsMove DEF ScopeIInv
<1>7. LocalOK(act'[a])
  BY <1>1, ScopeAssumption DEF LocalOK
<1>8. LocalInv' /\ WalkInv' /\ ReachInv' /\ OwnerInv'
  <2>1. CASE a = Owner
    <3>1. p \in {"idle", "ended"}
      BY <1>1, <2>1 DEF AfterRelease
    <3>2. OwnerInv'
      BY <1>1, <2>1, <3>1 DEF OwnerInv
    <3> QED
      BY <1>1, <1>2, <1>5, <1>7, <2>1, <3>2, OwnerFrame, Finite
  <2>2. CASE a \in Cancellers
    <3>1. p \in {"idle", "scopes"} /\ Walk(a)'
      BY <1>1, <2>2, Finite DEF AfterRelease, Walk, HoldPCs
    <3>2. ReachInv'
      BY <1>1, <1>2, <1>5, <2>2, ReachFrame DEF PendingAt
    <3> QED
      BY <1>1, <1>5, <1>7, <2>2, <3>1, <3>2, WalkFrame
  <2> QED
    BY <2>1, <2>2, Finite
<1>9. ScopeInv'
  BY DEF ScopeIInv, ScopeInv
<1>10. TaskInv'
  <2>1. \A c : Kept(c) => Kept(c)'
    BY <1>1 DEF Kept
  <2>2. act[Owner].pc # "start" \/ act'[Owner] = act[Owner]
    BY <1>1, Finite
  <2> QED
    BY <1>2, <1>3, <2>1, <2>2 DEF ScopeIInv, TaskInv, Evolves, Onward
<1> QED
  BY <1>4, <1>6, <1>8, <1>9, <1>10 DEF ScopeIInv, NoAbort

\* A step of actor a along a list of children, with scopes and parent unchanged.
LEMMA ListStep ==
    ASSUME ScopeIInv, NEW a \in Actors, UNCHANGED <<scope, parent, abort, cancels>>,
           act' \in [Actors -> ActRec], \A b \in Actors : b # a => act'[b] = act[b],
           task' \in [Tasks -> TaskRec],
           \A c \in Tasks :
               /\ Evolves(task[c], task'[c], One(c \in act'[a].kids) - One(c \in act[a].kids))
               /\ Due(task'[c]) => Kept(c)',
           LocalOK(act'[a]),
           act'[a].pc \in {"orphan", "detach"} <=> act[a].pc \in {"orphan", "detach"},
           act'[a].pc # "ended", act[a].pc # "ended", act[a].pc # "start",
           a = Owner => OwnerInv' /\ act'[a].scopes = {},
           a # Owner =>
               /\ \A s \in Scopes : HoldsScope(act'[a], s) <=> HoldsScope(act[a], s)
               /\ act'[a].pc # "idle" /\ act[a].pc # "idle"
               /\ act'[a].pc \in {"idle", "snapshot", "sweep", "scopes", "cancel_all",
                                  "release", "orphan", "detach"}
               /\ Walk(a)'
               /\ \A s \in Scopes : PendingAt(act[a], s) =>
                                       PendingAt(act'[a], s) \/ AllAsked(s)'
    PROVE  ScopeIInv'
<1>1. Types /\ Types'
  BY DEF ScopeIInv, Types
<1>2. \A c \in Tasks : Evolves(task[c], task'[c], Gain(a, c))
  <2> SUFFICES ASSUME NEW c \in Tasks PROVE Evolves(task[c], task'[c], Gain(a, c))
    OBVIOUS
  <2>1. InScopes(c)' = InScopes(c) /\ Cardinality(InScopes(c)) \in Nat
    BY ScopesStay, Sizes
  <2>2. Gain(a, c) = One(c \in act'[a].kids) - One(c \in act[a].kids)
    BY <2>1 DEF Gain, One
  <2> QED
    BY <2>2
<1>3. GoesOn
  BY <1>2 DEF GoesOn, Evolves
<1>4. RefsExact'
  BY <1>1, <1>2, RefsStill DEF ScopeIInv
<1>5. LocalInv' /\ WalkInv' /\ ReachInv' /\ OwnerInv'
  <2>1. CASE a = Owner
    BY <1>1, <1>3, <2>1, OwnerFrame, Finite
  <2>2. CASE a \in Cancellers
    <3>1. ReachInv'
      BY <1>1, <1>3, <2>2, ReachFrame, Finite DEF Types, ParentRec
    <3> QED
      BY <1>3, <2>2, <3>1, WalkFrame, Finite
  <2> QED
    BY <2>1, <2>2, Finite
<1>6. ScopeInv'
  BY DEF ScopeIInv, ScopeInv
<1>7. TaskInv'
  <2>1. act[Owner].pc # "start" \/ act'[Owner] = act[Owner]
    BY Finite
  <2> QED
    BY <1>2, <2>1 DEF ScopeIInv, TaskInv, Evolves, Onward
<1> QED
  BY <1>1, <1>4, <1>5, <1>6, <1>7 DEF ScopeIInv, NoAbort

\* Where an actor goes once its list of children is asked.
LEMMA SweepEnds ==
    ASSUME NEW a
    PROVE  /\ a # Owner /\ act[a].scope = None => AfterSweep(a) = "scopes"
           /\ a # Owner /\ act[a].scope # None => AfterSweep(a) = "release"
           /\ a = Owner => AfterSweep(a) \in {"idle", "join"}
<1>1. CASE a # Owner /\ act[a].scope = None
  BY <1>1 DEF AfterSweep, My
<1>2. CASE a # Owner /\ act[a].scope # None
  BY <1>2 DEF AfterSweep, My
<1>3. CASE a = Owner
  BY <1>3 DEF AfterSweep, My
<1> QED
  BY <1>1, <1>2, <1>3

\* CancelAllSnapshot puts the scope's children on the actor's list.
LEMMA SnapshotStep ==
    ASSUME ScopeIInv, NEW a \in Actors, CancelAllSnapshot(a)
    PROVE  ScopeIInv'
<1> DEFINE kids == scope[act[a].scope].children
           p == IF kids = {} THEN AfterSweep(a) ELSE "sweep"
<1>1. /\ Types /\ act[a] \in ActRec /\ act[a].pc = "cancel_all" /\ act[a].scope \in Scopes
      /\ act[a].kids = {} /\ kids \in SUBSET Tasks /\ act[a].scope # None
      /\ act[a].scope \notin act[a].scopes /\ LocalOK(act[a])
      /\ \A d \in Tasks : task[d] \in TaskRec /\ TaskLocal(task[d])
  BY ScopeAssumption DEF ScopeIInv, CancelAllSnapshot, At, LocalInv, LocalOK, Types, ScopeRec,
     KidPCs, TaskInv
<1>2. /\ p = "idle" => kids = {}
      /\ a # Owner => p \in {"sweep", "release"}
      /\ a = Owner => p \in {"sweep", "idle", "join"}
      /\ p # "sweep" => kids = {}
  <2>1. a # Owner => AfterSweep(a) = "release"
    BY <1>1, SweepEnds
  <2>2. a = Owner => AfterSweep(a) \in {"idle", "join"}
    BY SweepEnds
  <2> QED
    BY <2>1, <2>2
<1>3. /\ UNCHANGED <<scope, parent, abort, cancels>>
      /\ task' = [c \in Tasks |-> IF c \in kids THEN Retained(task[c]) ELSE task[c]]
      /\ act' = [act EXCEPT ![a] = Moved([@ EXCEPT !.kids = kids], p)]
  BY DEF CancelAllSnapshot, Sweep, My
<1> HIDE DEF p
<1>4. a = Owner => /\ OwnerInv /\ act[a].scopes = {}
                   /\ scope[act[a].scope].value = 1
                   /\ act[a].op \in {"close", "shutdown"} =>
                        scope[act[a].scope].state = "Closing"
  BY <1>1 DEF ScopeIInv, OwnerInv, LocalInv
<1>5. a # Owner => scope[act[a].scope].state \in Refusing
  BY <1>1, Finite DEF ScopeIInv, WalkInv, Walk, HoldPCs
<1> HIDE DEF kids
<1>6. StepsTo(a, p, kids)
  BY <1>1, <1>2, <1>3, StepsToPoint DEF PCs
<1>7. ASSUME NEW c \in Tasks
      PROVE  /\ Evolves(task[c], task'[c], One(c \in act'[a].kids) - One(c \in act[a].kids))
             /\ Due(task'[c]) => Due(task[c])
  <2>1. One(c \in act'[a].kids) - One(c \in act[a].kids) = One(c \in kids)
    BY <1>1, <1>6 DEF StepsTo, One
  <2>2. CASE c \in kids
    BY <1>1, <1>3, <2>1, <2>2, EvolvesSimple DEF One
  <2>3. CASE c \notin kids
    BY <1>1, <1>3, <2>1, <2>3, EvolvesStay DEF One
  <2> QED
    BY <2>2, <2>3
<1>8. \A c : Kept(c) => Kept(c)'
  BY <1>1, <1>3, <1>6 DEF Kept, StepsTo, TakenPCs
<1>9. LocalOK(act'[a])
  BY <1>1, <1>2, <1>6, ScopeAssumption DEF LocalOK, StepsTo, KidPCs
<1>10. a = Owner => OwnerInv'
  BY <1>1, <1>2, <1>3, <1>4, <1>6 DEF OwnerInv, StepsTo
<1>11. a # Owner => Walk(a)'
  BY <1>1, <1>2, <1>3, <1>5, <1>6 DEF Walk, StepsTo, kids, AllAsked
<1>12. a # Owner => \A s \in Scopes : /\ HoldsScope(act'[a], s) <=> HoldsScope(act[a], s)
                                      /\ PendingAt(act[a], s) =>
                                           PendingAt(act'[a], s) \/ AllAsked(s)'
  <2>1. a # Owner => \A s \in Scopes : HoldsScope(act'[a], s) <=> HoldsScope(act[a], s)
    BY <1>1, <1>2, <1>6 DEF HoldsScope, StepsTo, HoldPCs
  <2>2. \A s \in Scopes : scope[s].children = {} => AllAsked(s)'
    BY <1>3 DEF AllAsked
  <2> QED
    BY <1>1, <1>2, <1>6, <2>1, <2>2 DEF PendingAt, StepsTo, kids
<1>13. task' \in [Tasks -> TaskRec]
  BY <1>1, <1>3, RetainedFields
<1> QED
  BY <1>1, <1>2, <1>3, <1>4, <1>6, <1>7, <1>8, <1>9, <1>10, <1>11, <1>12, <1>13, ListStep
     DEF StepsTo, ScopeIInv, TaskInv

\* SweepChild asks one child of the list and gives its reference back.
LEMMA SweepStep ==
    ASSUME ScopeIInv, NEW a \in Actors, NEW c \in Tasks, SweepChild(a, c)
    PROVE  ScopeIInv'
<1> DEFINE kids == act[a].kids \ {c}
           p == IF kids = {} THEN AfterSweep(a) ELSE "sweep"
           u == Released(Asked(task[c]))
<1>1. /\ Types /\ act[a] \in ActRec /\ act[a].pc = "sweep" /\ c \in act[a].kids
      /\ act[a].scope \in Scopes \cup {None}
      /\ kids \in SUBSET Tasks /\ act[a].kids = kids \cup {c} /\ c \notin kids
      /\ act[a].scope \notin act[a].scopes /\ LocalOK(act[a])
      /\ act[a].scopes \in SUBSET Scopes
      /\ task \in [Tasks -> TaskRec]
      /\ \A d \in Tasks : task[d] \in TaskRec /\ TaskLocal(task[d])
  <2>1. /\ Types /\ act[a] \in ActRec /\ act[a].pc = "sweep" /\ c \in act[a].kids
        /\ LocalOK(act[a]) /\ task \in [Tasks -> TaskRec]
        /\ \A d \in Tasks : task[d] \in TaskRec /\ TaskLocal(task[d])
    BY DEF ScopeIInv, SweepChild, At, My, LocalInv, Types, TaskInv
  <2> QED
    BY <2>1 DEF ActRec, LocalOK
<1>2. /\ p = "idle" => kids = {}
      /\ a # Owner => p \in {"sweep", "release", "scopes"}
      /\ a # Owner => (p = "release" => act[a].scope # None)
      /\ a # Owner => (p = "scopes" => act[a].scope = None)
      /\ a = Owner => p \in {"sweep", "idle", "join"}
      /\ p # "sweep" => kids = {}
  BY SweepEnds
<1>3. /\ UNCHANGED <<scope, parent, abort, cancels>>
      /\ task' = [task EXCEPT ![c] = u]
      /\ act' = [act EXCEPT ![a] = Moved([@ EXCEPT !.kids = kids], p)]
  BY DEF SweepChild, Sweep, My
<1>4. a = Owner => /\ OwnerInv /\ act[a].scopes = {} /\ act[a].scope \in Scopes
                   /\ scope[act[a].scope].value = 1
                   /\ act[a].op \in {"close", "shutdown"} =>
                        scope[act[a].scope].state = "Closing"
  BY <1>1 DEF ScopeIInv, OwnerInv, LocalInv
<1>5. a # Owner /\ act[a].scope \in Scopes =>
          /\ scope[act[a].scope].state \in Refusing
          /\ \A d \in scope[act[a].scope].children : d \in act[a].kids \/ AskedOf(d)
  BY <1>1, Finite DEF ScopeIInv, WalkInv, Walk, HoldPCs
<1>u. Evolves(task[c], u, -1) /\ (Due(u) => Due(task[c])) /\ u.cancel_requested = 1
  BY <1>1, EvolvesAsked
<1> HIDE DEF p, kids, u
<1>6. StepsTo(a, p, kids)
  <2>1. p \in PCs
    BY <1>2 DEF PCs
  <2> QED
    BY <1>1, <1>2, <1>3, <2>1, StepsToPoint
<1>7. ASSUME NEW d \in Tasks
      PROVE  /\ Evolves(task[d], task'[d], One(d \in act'[a].kids) - One(d \in act[a].kids))
             /\ Due(task'[d]) => Due(task[d])
  <2>1. CASE d = c
    <3>1. One(d \in act'[a].kids) - One(d \in act[a].kids) = -1
      BY <1>1, <1>6, <2>1 DEF StepsTo, One
    <3> QED
      BY <1>1, <1>3, <1>u, <2>1, <3>1
  <2>2. CASE d # c
    <3>1. One(d \in act'[a].kids) - One(d \in act[a].kids) = 0
      BY <1>1, <1>6, <2>2 DEF StepsTo, One
    <3> QED
      BY <1>1, <1>3, <2>2, <3>1, EvolvesStay
  <2> QED
    BY <2>1, <2>2
<1>8. \A d : Kept(d) => Kept(d)'
  BY <1>1, <1>3, <1>6 DEF Kept, StepsTo, TakenPCs
<1>9. LocalOK(act'[a])
  BY <1>1, <1>2, <1>4, <1>6, ScopeAssumption DEF LocalOK, StepsTo, KidPCs
<1>10. a = Owner => OwnerInv'
  BY <1>1, <1>2, <1>3, <1>4, <1>6 DEF OwnerInv, StepsTo
<1>n. GoesOn
  BY <1>3, <1>7 DEF GoesOn, Evolves
<1>k. /\ \A d \in Tasks : AskedOf(d) => AskedOf(d)'
      /\ AskedOf(c)'
  BY <1>1, <1>3, <1>u, <1>n, StaysAsked DEF AskedOf
<1>l. a # Owner /\ act[a].scope \in Scopes =>
          \A d \in scope[act[a].scope].children : d \in kids \/ AskedOf(d)'
  BY <1>1, <1>5, <1>k DEF Types, ScopeRec
<1>m. ASSUME a # Owner, NEW s \in Scopes, s = act[a].scope, kids = {}
      PROVE AllAsked(s)'
  BY <1>3, <1>l, <1>m DEF AllAsked, AskedOf
<1>11. a # Owner => Walk(a)'
  <2> SUFFICES ASSUME a # Owner, act'[a].pc \in HoldPCs, act'[a].scope \in Scopes
               PROVE /\ scope'[act'[a].scope].state \in Refusing
                     /\ act'[a].pc = "sweep" => \A d \in scope'[act'[a].scope].children :
                                                   d \in act'[a].kids \/ AskedOf(d)'
                     /\ act'[a].pc = "release" => AllAsked(act[a].scope)'
    BY DEF Walk
  <2>1. act'[a].pc = p /\ p # "idle" /\ act'[a].kids = kids /\ act'[a].scope = act[a].scope
    BY <1>2, <1>6 DEF StepsTo
  <2>2. \A s \in Scopes : s = act'[a].scope /\ kids = {} => AllAsked(s)'
    BY <1>m, <2>1
  <2> QED
    BY <1>2, <1>3, <1>5, <1>l, <2>1, <2>2 DEF AllAsked
<1>12. a # Owner => \A s \in Scopes : /\ HoldsScope(act'[a], s) <=> HoldsScope(act[a], s)
                                      /\ PendingAt(act[a], s) =>
                                           PendingAt(act'[a], s) \/ AllAsked(s)'
  <2> SUFFICES ASSUME a # Owner, NEW s \in Scopes
               PROVE  /\ HoldsScope(act'[a], s) <=> HoldsScope(act[a], s)
                      /\ PendingAt(act[a], s) => PendingAt(act'[a], s) \/ AllAsked(s)'
    OBVIOUS
  <2>1. HoldsScope(act'[a], s) <=> HoldsScope(act[a], s)
    BY <1>1, <1>2, <1>6, ScopeAssumption DEF HoldsScope, StepsTo, HoldPCs
  <2> QED
    BY <1>1, <1>2, <1>6, <1>m, <2>1 DEF PendingAt, StepsTo
<1>13. task' \in [Tasks -> TaskRec]
  BY <1>1, <1>3, <1>u DEF Evolves, Onward
<1> QED
  BY <1>1, <1>2, <1>3, <1>4, <1>6, <1>7, <1>8, <1>9, <1>10, <1>11, <1>12, <1>13, ListStep
     DEF StepsTo, ScopeIInv, TaskInv

\* OrphanCancel asks one child that a freed scope left over.
LEMMA OrphanCancelStep ==
    ASSUME ScopeIInv, NEW a \in Actors, NEW c \in Tasks, OrphanCancel(a, c)
    PROVE  ScopeIInv'
<1> DEFINE l == [act[a] EXCEPT !.task = c, !.pc = "detach"]
           u == Asked(task[c])
<1>1. /\ Types /\ act[a] \in ActRec /\ act[a].pc = "orphan" /\ c \in act[a].kids
      /\ LocalOK(act[a]) /\ task \in [Tasks -> TaskRec] /\ act \in [Actors -> ActRec]
      /\ \A d \in Tasks : task[d] \in TaskRec /\ TaskLocal(task[d])
  BY DEF ScopeIInv, OrphanCancel, At, My, LocalInv, Types, TaskInv
<1>2. /\ UNCHANGED <<scope, parent, abort, cancels>> /\ task' = [task EXCEPT ![c] = u]
      /\ act' = [act EXCEPT ![a] = l]
  BY <1>1 DEF OrphanCancel
<1>3. /\ l \in ActRec /\ l.pc = "detach" /\ l.task = c /\ l.kids = act[a].kids
      /\ l.scope = act[a].scope /\ l.scopes = act[a].scopes /\ l.op = act[a].op
  BY <1>1 DEF ActRec, PCs
<1>4. u \in TaskRec /\ Evolves(task[c], u, 0) /\ (Due(u) => Due(task[c]))
  BY <1>1, AskedFields, EvolvesSimple
<1> HIDE DEF l, u
<1>5. /\ act' \in [Actors -> ActRec] /\ act'[a] = l
      /\ \A b \in Actors : b # a => act'[b] = act[b]
  BY <1>1, <1>2, <1>3
<1>6. ASSUME NEW d \in Tasks
      PROVE  /\ Evolves(task[d], task'[d], One(d \in act'[a].kids) - One(d \in act[a].kids))
             /\ Due(task'[d]) => Due(task[d])
  <2>1. One(d \in act'[a].kids) - One(d \in act[a].kids) = 0
    BY <1>3, <1>5 DEF One
  <2> QED
    BY <1>1, <1>2, <1>4, <2>1, EvolvesStay
<1>7. \A d : Kept(d) => Kept(d)'
  BY <1>1, <1>2, <1>3, <1>5 DEF Kept, TakenPCs
<1>8. LocalOK(act'[a]) /\ task' \in [Tasks -> TaskRec]
  BY <1>1, <1>2, <1>3, <1>4, <1>5 DEF LocalOK, KidPCs
<1>9. a = Owner => OwnerInv' /\ act[a].scopes = {}
  BY <1>1, <1>3, <1>5 DEF OwnerInv, ScopeIInv, LocalInv
<1>10. a # Owner => /\ Walk(a)'
                    /\ \A s \in Scopes : /\ HoldsScope(act'[a], s) <=> HoldsScope(act[a], s)
                                         /\ PendingAt(act[a], s) => PendingAt(act'[a], s)
  BY <1>1, <1>3, <1>5 DEF Walk, HoldsScope, PendingAt, HoldPCs
<1> QED
  BY <1>1, <1>2, <1>3, <1>5, <1>6, <1>7, <1>8, <1>9, <1>10, ListStep DEF ScopeIInv, TaskInv

\* OrphanDetach gives the scope's reference to that child back.
LEMMA OrphanDetachStep ==
    ASSUME ScopeIInv, NEW a \in Actors, OrphanDetach(a)
    PROVE  ScopeIInv'
<1> DEFINE c == act[a].task
           kids == act[a].kids \ {c}
           l == [act[a] EXCEPT !.kids = kids, !.task = None, !.pc = "orphan"]
           u == Orphaned(task[c])
<1>1. /\ Types /\ act[a] \in ActRec /\ act[a].pc = "detach" /\ c \in act[a].kids
      /\ LocalOK(act[a]) /\ task \in [Tasks -> TaskRec] /\ act \in [Actors -> ActRec]
      /\ \A d \in Tasks : task[d] \in TaskRec /\ TaskLocal(task[d])
  <2>1. LocalOK(act[a]) /\ act[a].pc = "detach"
    BY DEF ScopeIInv, OrphanDetach, At, My, LocalInv
  <2> QED
    BY <2>1 DEF ScopeIInv, LocalOK, Types, TaskInv
<1>2. /\ UNCHANGED <<scope, parent, abort, cancels>> /\ task' = [task EXCEPT ![c] = u]
      /\ act' = [act EXCEPT ![a] = l]
  BY <1>1 DEF OrphanDetach, My
<1> HIDE DEF u
<1>3. /\ l \in ActRec /\ l.pc = "orphan" /\ l.kids = kids /\ c \in Tasks
      /\ l.scope = act[a].scope /\ l.scopes = act[a].scopes /\ l.op = act[a].op
  BY <1>1 DEF ActRec, PCs
<1>4. u \in TaskRec /\ Evolves(task[c], u, -1) /\ ~Due(u)
  BY <1>1, <1>3, EvolvesLeave DEF u, Evolves, Onward
<1> HIDE DEF l, c
<1>5. /\ act' \in [Actors -> ActRec] /\ act'[a] = l
      /\ \A b \in Actors : b # a => act'[b] = act[b]
  BY <1>1, <1>2, <1>3
<1>6. ASSUME NEW d \in Tasks
      PROVE  /\ Evolves(task[d], task'[d], One(d \in act'[a].kids) - One(d \in act[a].kids))
             /\ Due(task'[d]) => Due(task[d]) /\ d # c
  <2>1. CASE d = c
    <3>1. One(d \in act'[a].kids) - One(d \in act[a].kids) = -1
      BY <1>1, <1>3, <1>5, <2>1 DEF One
    <3> QED
      BY <1>1, <1>2, <1>4, <2>1, <3>1
  <2>2. CASE d # c
    <3>1. One(d \in act'[a].kids) - One(d \in act[a].kids) = 0
      BY <1>3, <1>5, <2>2 DEF One
    <3> QED
      BY <1>1, <1>2, <2>2, <3>1, EvolvesStay
  <2> QED
    BY <2>1, <2>2
<1>7. \A d : d # c /\ Kept(d) => Kept(d)'
  BY <1>1, <1>2, <1>3, <1>5 DEF Kept, TakenPCs
<1>8. LocalOK(act'[a]) /\ task' \in [Tasks -> TaskRec]
  BY <1>1, <1>2, <1>3, <1>4, <1>5 DEF LocalOK, KidPCs
<1>9. a = Owner => OwnerInv' /\ act[a].scopes = {}
  BY <1>1, <1>3, <1>5 DEF OwnerInv, ScopeIInv, LocalInv
<1>10. a # Owner => /\ Walk(a)'
                    /\ \A s \in Scopes : /\ HoldsScope(act'[a], s) <=> HoldsScope(act[a], s)
                                         /\ PendingAt(act[a], s) => PendingAt(act'[a], s)
  BY <1>1, <1>3, <1>5 DEF Walk, HoldsScope, PendingAt, HoldPCs
<1> QED
  BY <1>1, <1>2, <1>3, <1>5, <1>6, <1>7, <1>8, <1>9, <1>10, ListStep DEF ScopeIInv, TaskInv

\* Where reap_finished and finish_close go once their list is disposed of.
LEMMA DisposeEnds ==
    ASSUME NEW kids
    PROVE  /\ kids # {} => AfterDispose(kids) = "dispose"
           /\ kids = {} => AfterDispose(kids) = IF act[Owner].op = "close" THEN "release"
                                                ELSE "idle"
<1>1. CASE kids # {}
  BY <1>1 DEF AfterDispose, My
<1>2. CASE kids = {} /\ act[Owner].op = "close"
  BY <1>2 DEF AfterDispose, My
<1>3. CASE kids = {} /\ act[Owner].op # "close"
  BY <1>3 DEF AfterDispose, My
<1> QED
  BY <1>1, <1>2, <1>3

\* Dispose drops the result of one ended child and the scope's reference to it.
LEMMA DisposeStep ==
    ASSUME ScopeIInv, NEW c \in Tasks, Dispose(c)
    PROVE  ScopeIInv'
<1> DEFINE kids == act[Owner].kids \ {c}
           p == AfterDispose(kids)
           u == DisposedChild(task[c])
<1>1. /\ Types /\ act[Owner] \in ActRec /\ act[Owner].pc = "dispose" /\ c \in act[Owner].kids
      /\ LocalOK(act[Owner]) /\ task \in [Tasks -> TaskRec] /\ act \in [Actors -> ActRec]
      /\ act[Owner].scopes = {} /\ OwnerInv /\ Owner \in Actors
      /\ \A d \in Tasks : task[d] \in TaskRec /\ TaskLocal(task[d])
  BY Finite DEF ScopeIInv, Dispose, At, My, LocalInv, Types, TaskInv
<1>2. /\ kids # {} => p = "dispose"
      /\ kids = {} => p = IF act[Owner].op = "close" THEN "release" ELSE "idle"
  BY DisposeEnds
<1>3. /\ UNCHANGED <<scope, parent, abort, cancels>> /\ task' = [task EXCEPT ![c] = u]
      /\ act' = [act EXCEPT ![Owner] = Moved([@ EXCEPT !.kids = kids], p)]
  BY DEF Dispose, My
<1>4. /\ kids \in SUBSET Tasks /\ c \notin kids
      /\ task[c].state \in Terminal
      /\ act[Owner].op = "close" => act[Owner].scope \in Scopes /\ scope[act[Owner].scope].value = 1
      /\ act[Owner].scope \in Scopes \cup {None}
  BY <1>1 DEF ActRec, OwnerInv
<1>u. u \in TaskRec /\ Evolves(task[c], u, -1) /\ ~Due(u)
  BY <1>1, <1>4, EvolvesLeave DEF Evolves, Onward
<1> HIDE DEF u, p
<1>5. p \in {"dispose", "release", "idle"} /\ p \in PCs /\ (p = "idle" => kids = {})
  BY <1>2 DEF PCs
<1>6. StepsTo(Owner, p, kids)
  <2> HIDE DEF kids
  <2> QED
    BY <1>1, <1>3, <1>4, <1>5, StepsToPoint
<1>7. ASSUME NEW d \in Tasks
      PROVE  /\ Evolves(task[d], task'[d], One(d \in act'[Owner].kids) - One(d \in act[Owner].kids))
             /\ Due(task'[d]) => Due(task[d]) /\ d # c
  <2>1. CASE d = c
    <3>1. One(d \in act'[Owner].kids) - One(d \in act[Owner].kids) = -1
      BY <1>1, <1>6, <2>1 DEF One, StepsTo
    <3> QED
      BY <1>1, <1>3, <1>u, <2>1, <3>1
  <2>2. CASE d # c
    <3>1. One(d \in act'[Owner].kids) - One(d \in act[Owner].kids) = 0
      BY <1>6, <2>2 DEF One, StepsTo
    <3> QED
      BY <1>1, <1>3, <2>2, <3>1, EvolvesStay
  <2> QED
    BY <2>1, <2>2
<1>8. \A d : d # c /\ Kept(d) => Kept(d)'
  <2> SUFFICES ASSUME NEW d, d # c, Kept(d) PROVE Kept(d)'
    OBVIOUS
  <2>1. CASE \E s \in Scopes : d \in scope[s].children
    BY <1>3, <2>1 DEF Kept
  <2>2. CASE \E b \in Actors : b # Owner /\ act[b].pc \in TakenPCs /\ d \in act[b].kids
    BY <1>6, <2>2 DEF Kept, StepsTo
  <2>3. CASE d \in act[Owner].kids
    <3>1. d \in kids /\ p = "dispose"
      BY <1>2, <2>3
    <3> QED
      BY <1>1, <1>6, <3>1 DEF Kept, StepsTo, TakenPCs
  <2> QED
    BY <2>1, <2>2, <2>3 DEF Kept
<1>9. LocalOK(act'[Owner]) /\ task' \in [Tasks -> TaskRec] /\ act'[Owner].scopes = {}
  BY <1>1, <1>2, <1>3, <1>4, <1>5, <1>6, <1>u, ScopeAssumption DEF LocalOK, KidPCs, StepsTo
<1>10. OwnerInv'
  <2>1. \A d \in kids : task'[d].state \in Terminal
    BY <1>1, <1>3, <1>4 DEF OwnerInv
  <2> QED
    BY <1>1, <1>2, <1>3, <1>4, <1>5, <1>6, <2>1 DEF OwnerInv, StepsTo
<1> QED
  BY <1>1, <1>3, <1>5, <1>6, <1>7, <1>8, <1>9, <1>10, ListStep DEF StepsTo, ScopeIInv, TaskInv

\* The steps that drop the handle of a cold child, with the child on the
\* owner's list meanwhile.
LEMMA DropSteps ==
    ASSUME ScopeIInv, NEW c \in Tasks,
           \/ DropHandle(c) /\ task[c].state = "Created"
           \/ DropClaims(c) \/ DropMarks(c) \/ DropCancels(c)
    PROVE  ScopeIInv'
<1>1. /\ Types /\ act[Owner] \in ActRec /\ act[Owner].scopes = {} /\ OwnerInv
      /\ LocalOK(act[Owner]) /\ task \in [Tasks -> TaskRec] /\ act \in [Actors -> ActRec]
      /\ act[Owner].kids \in SUBSET Tasks /\ Owner \in Actors
      /\ \A d \in Tasks : task[d] \in TaskRec /\ TaskLocal(task[d])
      /\ \A d \in Tasks : Due(task[d]) => Kept(d)
  BY Finite DEF ScopeIInv, LocalInv, Types, TaskInv, ActRec
<1>2. ASSUME NEW u, NEW p \in {"drop", "drop_mark", "drop_cancel", "idle"},
             NEW kids \in {{}, {c}}, p = "idle" => kids = {},
             UNCHANGED <<scope, parent, abort, cancels>>, task' = [task EXCEPT ![c] = u],
             act[Owner].pc \in {"idle", "drop", "drop_mark", "drop_cancel"},
             act[Owner].kids \in {{}, {c}}, StepsTo(Owner, p, kids),
             Evolves(task[c], u, One(c \in kids) - One(c \in act[Owner].kids)),
             Due(u) => Due(task[c]),
             p = "drop" => u.handle = 0 /\ u.owner # "Scope",
             p = "drop_mark" => u.owner = "Detached",
             p # "idle" => kids = {c}
      PROVE  ScopeIInv'
  <2>1. task'[c] = u /\ task' \in [Tasks -> TaskRec] /\ \A d \in Tasks : d # c => task'[d] = task[d]
    BY <1>1, <1>2 DEF Evolves, Onward
  <2>2. ASSUME NEW d \in Tasks
        PROVE  /\ Evolves(task[d], task'[d],
                           One(d \in act'[Owner].kids) - One(d \in act[Owner].kids))
               /\ Due(task'[d]) => Due(task[d])
    <3>1. act'[Owner].kids = kids
      BY <1>2 DEF StepsTo
    <3>2. CASE d = c
      BY <1>2, <2>1, <3>1, <3>2
    <3>3. CASE d # c
      <4>1. One(d \in act'[Owner].kids) - One(d \in act[Owner].kids) = 0
        BY <1>2, <3>1, <3>3 DEF One
      <4> QED
        BY <1>1, <2>1, <3>3, <4>1, EvolvesStay
    <3> QED
      BY <3>2, <3>3
  <2>3. \A d : Kept(d) => Kept(d)'
    BY <1>2 DEF Kept, TakenPCs, StepsTo
  <2>4. act'[Owner].scopes = {} /\ LocalOK(act'[Owner])
    BY <1>1, <1>2, ScopeAssumption DEF LocalOK, KidPCs, StepsTo
  <2>5. OwnerInv'
    BY <1>1, <1>2, <2>1 DEF OwnerInv, StepsTo
  <2> QED
    BY <1>1, <1>2, <2>1, <2>2, <2>3, <2>4, <2>5, ListStep DEF StepsTo
<1>3. CASE DropHandle(c) /\ task[c].state = "Created"
  <2> DEFINE u == Retained([task[c] EXCEPT !.handle = 0])
  <2>1. /\ task' = [task EXCEPT ![c] = u] /\ task[c].handle = 1
        /\ UNCHANGED <<scope, parent, abort, cancels>> /\ act[Owner].pc = "idle"
        /\ act' = [act EXCEPT ![Owner].pc = "drop", ![Owner].kids = {c}]
    BY <1>3 DEF DropHandle, Ready, At
  <2>2. /\ Evolves(task[c], u, 1) /\ ~Due(u)
        /\ u.handle = 0 /\ u.owner # "Scope"
    BY <1>1, <2>1, EvolvesDrop
  <2> HIDE DEF u
  <2>3. act[Owner].kids = {}
    BY <1>1, <2>1 DEF LocalOK, KidPCs
  <2> DEFINE l == [act[Owner] EXCEPT !.pc = "drop", !.kids = {c}]
  <2>4. /\ l \in ActRec /\ l.pc = "drop" /\ l.kids = {c} /\ l.op = act[Owner].op
        /\ l.scope = act[Owner].scope /\ l.scopes = act[Owner].scopes
        /\ l.task = act[Owner].task
    BY <1>1 DEF ActRec, PCs
  <2>5. act' = [act EXCEPT ![Owner] = l]
    BY <1>1, <2>1
  <2> HIDE DEF l
  <2>6. StepsTo(Owner, "drop", {c})
    BY <1>1, <2>4, <2>5 DEF StepsTo
  <2>7. One(c \in {c}) - One(c \in act[Owner].kids) = 1
    BY <2>3 DEF One
  <2> QED
    BY <1>2, <2>1, <2>2, <2>3, <2>6, <2>7
<1>4. CASE DropClaims(c)
  <2> DEFINE u == [task[c] EXCEPT !.owner = "Detached"]
  <2>1. /\ task' = [task EXCEPT ![c] = u] /\ c \in act[Owner].kids
        /\ UNCHANGED <<scope, parent, abort, cancels>> /\ act[Owner].pc = "drop"
        /\ Goto(Owner, "drop_mark")
    BY <1>1, <1>4 DEF DropClaims, At, My
  <2>2. task[c].handle = 0 /\ task[c].owner # "Scope"
    BY <1>1, <2>1 DEF OwnerInv
  <2>3. Evolves(task[c], u, 0) /\ ~Due(u) /\ u.owner = "Detached"
    BY <1>1, <2>2, EvolvesDrop
  <2> HIDE DEF u
  <2>4. act[Owner].kids = {c}
    BY <1>1, <2>1 DEF OwnerInv
  <2>5. StepsTo(Owner, "drop_mark", {c})
    BY <1>1, <2>1, <2>4, GotoPoint DEF PCs
  <2>6. One(c \in {c}) - One(c \in {c}) = 0
    BY DEF One
  <2> QED
    BY <1>2, <2>1, <2>3, <2>4, <2>5, <2>6
<1>5. CASE DropMarks(c)
  <2> DEFINE u == [task[c] EXCEPT !.detached = 1]
  <2>1. /\ task' = [task EXCEPT ![c] = u] /\ c \in act[Owner].kids
        /\ UNCHANGED <<scope, parent, abort, cancels>> /\ act[Owner].pc = "drop_mark"
        /\ Goto(Owner, "drop_cancel")
    BY <1>1, <1>5 DEF DropMarks, At, My
  <2>2. task[c].owner = "Detached"
    BY <1>1, <2>1 DEF OwnerInv
  <2>3. Evolves(task[c], u, 0) /\ ~Due(u)
    BY <1>1, <2>2, EvolvesDrop
  <2> HIDE DEF u
  <2>4. act[Owner].kids = {c}
    BY <1>1, <2>1 DEF OwnerInv
  <2>5. StepsTo(Owner, "drop_cancel", {c})
    BY <1>1, <2>1, <2>4, GotoPoint DEF PCs
  <2>6. One(c \in {c}) - One(c \in {c}) = 0
    BY DEF One
  <2> QED
    BY <1>2, <2>1, <2>3, <2>4, <2>5, <2>6
<1>6. CASE DropCancels(c)
  <2> DEFINE u == Released(Asked(task[c]))
  <2>1. /\ task' = [task EXCEPT ![c] = u] /\ c \in act[Owner].kids
        /\ UNCHANGED <<scope, parent, abort, cancels>> /\ act[Owner].pc = "drop_cancel"
        /\ Goto(Owner, "idle")
    BY <1>1, <1>6 DEF DropCancels, At, My
  <2>2. Evolves(task[c], u, -1) /\ (Due(u) => Due(task[c]))
    BY <1>1, EvolvesAsked
  <2> HIDE DEF u
  <2>3. act[Owner].kids = {c}
    BY <1>1, <2>1 DEF OwnerInv
  <2>4. act' = [act EXCEPT ![Owner] = Moved([@ EXCEPT !.kids = {}], "idle")]
    BY <2>1 DEF Goto, Moved
  <2>5. StepsTo(Owner, "idle", {})
    BY <1>1, <2>4, StepsToPoint DEF PCs
  <2>6. One(c \in {}) - One(c \in {c}) = -1
    BY DEF One
  <2> QED
    BY <1>1, <1>2, <2>1, <2>2, <2>3, <2>5, <2>6
<1> QED
  BY <1>3, <1>4, <1>5, <1>6

\* The ends of a release, of the parent and of a walk are such steps.
LEMMA ReleaseSteps ==
    ASSUME ScopeIInv,
           \/ \E a \in Actors : ReleaseEnds(a)
           \/ ParentEnds
           \/ \E x \in Cancellers : WalkEnds(x)
    PROVE  ScopeIInv'
<1>1. Types /\ \A a \in Actors : LocalOK(act[a])
  BY DEF ScopeIInv, LocalInv
<1>2. ASSUME NEW a \in Actors, ReleaseEnds(a) PROVE ScopeIInv'
  <2>1. /\ act[a].pc = "orphan" /\ act[a].kids = {} /\ ReleaseParent
        /\ Goto(a, AfterRelease(a)) /\ UNCHANGED <<scope, abort, cancels>>
    BY <1>2 DEF ReleaseEnds, At, My
  <2>2. AfterRelease(a) \in PCs
    BY DEF AfterRelease, PCs
  <2>3. StepsTo(a, AfterRelease(a), {})
    BY <1>1, <2>1, <2>2, GotoPoint
  <2> QED
    BY <2>1, <2>2, <2>3, ReleaseStep
<1>3. CASE ParentEnds
  <2>1. /\ act[Owner].pc = "idle" /\ ReleaseParent
        /\ Goto(Owner, "ended") /\ UNCHANGED <<scope, abort, cancels>>
    BY <1>3 DEF ParentEnds, Ready, At
  <2>2. "ended" \in PCs /\ act[Owner].kids = {} /\ Owner \in Actors
    BY <1>1, <2>1, Finite DEF LocalOK, KidPCs, PCs
  <2>3. StepsTo(Owner, "ended", {})
    BY <1>1, <2>1, <2>2, GotoPoint
  <2> QED
    BY <2>1, <2>2, <2>3, ReleaseStep
<1>4. ASSUME NEW x \in Cancellers, WalkEnds(x) PROVE ScopeIInv'
  <2>1. /\ act[x].pc = "scopes" /\ act[x].scopes = {} /\ ReleaseParent
        /\ Goto(x, "idle") /\ UNCHANGED <<scope, abort, cancels>>
    BY <1>4 DEF WalkEnds, At, My
  <2>2. "idle" \in PCs /\ x \in Actors /\ act[x].kids = {}
    BY <1>1, <2>1, Finite DEF LocalOK, KidPCs, PCs
  <2>3. StepsTo(x, "idle", {})
    BY <1>1, <2>1, <2>2, GotoPoint
  <2> QED
    BY <2>1, <2>2, <2>3, ReleaseStep
<1> QED
  BY <1>2, <1>3, <1>4

\* Children that leave a scope for an actor's list stay referred to and kept.
LEMMA TakenOut ==
    ASSUME ScopeIInv, NEW a \in Actors, NEW s \in Scopes, NEW taken \in SUBSET scope[s].children,
           \A r \in Scopes : r # s => scope'[r].children = scope[r].children,
           scope'[s].children = scope[s].children \ taken,
           \A b \in Actors : b # a => act'[b] = act[b],
           act[a].kids = {}, act'[a].kids = taken, taken # {} => act'[a].pc \in TakenPCs,
           task' = task, parent'.cancel_children = parent.cancel_children
    PROVE  /\ \A d \in Tasks : Evolves(task[d], task'[d], Gain(a, d))
           /\ \A d : Kept(d) => Kept(d)'
<1>1. ASSUME NEW d \in Tasks PROVE Evolves(task[d], task'[d], Gain(a, d))
  <2>1. /\ Cardinality(InScopes(d)') = Cardinality(InScopes(d))
                + One(d \in scope'[s].children) - One(d \in scope[s].children)
        /\ Cardinality(InScopes(d)) \in Nat
    BY ScopeMoves, Sizes
  <2>2. One(d \in scope'[s].children) = One(d \in scope[s].children) - One(d \in taken)
    BY DEF One
  <2>3. One(d \in act'[a].kids) = One(d \in taken) /\ One(d \in act[a].kids) = 0
    BY DEF One
  <2>4. /\ One(d \in taken) \in {0, 1} /\ One(d \in scope[s].children) \in {0, 1}
        /\ One(d \in parent'.cancel_children) = One(d \in parent.cancel_children)
        /\ One(d \in parent.cancel_children) \in {0, 1}
    BY DEF One
  <2>5. Gain(a, d) = 0
    BY <2>1, <2>2, <2>3, <2>4 DEF Gain
  <2> QED
    BY <2>5, EvolvesStay DEF ScopeIInv, Types, TaskInv
<1>2. ASSUME NEW d, Kept(d) PROVE Kept(d)'
  <2>1. CASE \E r \in Scopes : r # s /\ d \in scope[r].children
    BY <2>1 DEF Kept
  <2>2. CASE d \in scope[s].children
    <3>1. CASE d \in taken
      BY <3>1 DEF Kept
    <3>2. CASE d \notin taken
      BY <2>2, <3>2 DEF Kept
    <3> QED
      BY <3>1, <3>2
  <2>3. CASE \E b \in Actors : act[b].pc \in TakenPCs /\ d \in act[b].kids
    BY <2>3 DEF Kept
  <2> QED
    BY <1>2, <2>1, <2>2, <2>3 DEF Kept
<1> QED
  BY <1>1, <1>2

\* reap_finished and finish_close take ended children out of the owner's scope.
LEMMA ReapStep ==
    ASSUME ScopeIInv, NEW s \in Scopes, NEW taken \in SUBSET scope[s].children,
           NEW st \in {scope[s].state, "Closed"}, NEW p \in {"dispose", "release", "idle"},
           act[Owner].pc \in {"idle", "finish"}, act[Owner].scopes = {},
           \/ act[Owner].pc = "idle" /\ p = "dispose" /\ act'[Owner].op = "none"
           \/ act[Owner].pc = "finish" /\ s = act[Owner].scope,
           UNCHANGED <<task, parent, abort, cancels>>,
           scope' = [scope EXCEPT ![s].state = st, ![s].children = scope[s].children \ taken],
           st = "Closed" => taken = scope[s].children \/ scope[s].children = {},
           scope[s].value = 1,
           \A c \in taken : task[c].state \in Terminal,
           StepsTo(Owner, p, taken), taken # {} => p = "dispose",
           p = "release" => act[Owner].pc = "finish"
    PROVE  ScopeIInv'
<1>1. /\ Types /\ scope[s] \in ScopeRec /\ act[Owner].kids = {} /\ OwnerInv
      /\ LocalOK(act[Owner]) /\ act[Owner].scope \in Scopes \cup {None} /\ Owner \in Actors
  <2>1. Types /\ OwnerInv /\ LocalOK(act[Owner]) /\ act[Owner] \in ActRec /\ Owner \in Actors
    BY Finite DEF ScopeIInv, LocalInv, Types
  <2> QED
    BY <2>1 DEF LocalOK, KidPCs, Types, ActRec
<1>2. /\ scope' \in [Scopes -> ScopeRec]
      /\ scope'[s].state = st /\ scope'[s].children = scope[s].children \ taken
      /\ scope'[s].refs = scope[s].refs /\ scope'[s].value = scope[s].value
      /\ \A r \in Scopes : r # s => scope'[r] = scope[r]
  <2> DEFINE kids == scope[s].children \ taken
  <2>1. kids \in SUBSET Tasks /\ st \in {"Unused", "Open", "Closing", "Closed"}
    BY <1>1 DEF ScopeRec
  <2>2. scope' = [scope EXCEPT ![s].state = st, ![s].children = kids]
    OBVIOUS
  <2> HIDE DEF kids
  <2>3. /\ scope' \in [Scopes -> ScopeRec]
        /\ scope'[s].state = st /\ scope'[s].children = kids
        /\ scope'[s].refs = scope[s].refs /\ scope'[s].value = scope[s].value
        /\ \A r \in Scopes : r # s => scope'[r] = scope[r]
    BY <1>1, <2>1, <2>2, TwoFields, ZenonT(60)
  <2> QED
    BY <2>3 DEF kids
<1>3. /\ act' \in [Actors -> ActRec] /\ \A b \in Actors : b # Owner => act'[b] = act[b]
      /\ act'[Owner].pc = p /\ act'[Owner].kids = taken /\ act'[Owner].scopes = {}
      /\ p = "idle" => act'[Owner].scope = None /\ act'[Owner].op = "none"
      /\ p # "idle" => act'[Owner].scope = act[Owner].scope /\ act'[Owner].op = act[Owner].op
  BY DEF StepsTo
<1>4. /\ \A d \in Tasks : Evolves(task[d], task'[d], Gain(Owner, d))
      /\ \A d : Kept(d) => Kept(d)'
  BY <1>1, <1>2, <1>3, TakenOut DEF TakenPCs
<1>5. Types'
  BY <1>1, <1>2, <1>3 DEF Types
<1>6. GoesOn
  BY <1>2, <1>4 DEF GoesOn, Evolves, Refusing
<1>7. RefsExact'
  BY <1>1, <1>2, <1>3, <1>4, <1>5, RefsStill DEF ScopeIInv
<1>8. LocalInv' /\ WalkInv' /\ ReachInv'
  <2>1. LocalOK(act'[Owner])
    BY <1>1, <1>3, ScopeAssumption DEF LocalOK, KidPCs, OwnerInv
  <2>2. \A r \in parent.cancel_scopes : scope'[r].children \subseteq scope[r].children
    BY <1>1, <1>2 DEF Types, ParentRec
  <2> QED
    BY <1>3, <1>6, <2>1, <2>2, OwnerFrame, Finite
<1>9. OwnerInv'
  BY <1>1, <1>2, <1>3 DEF OwnerInv
<1>10. ScopeInv'
  BY <1>1, <1>2 DEF ScopeIInv, ScopeInv
<1>11. TaskInv'
  BY <1>1, <1>2, <1>3, <1>4, StartedChildren DEF ScopeIInv, TaskInv, Evolves
<1> QED
  BY <1>5, <1>7, <1>8, <1>9, <1>10, <1>11 DEF ScopeIInv, NoAbort

\* ReapFinished and FinishClose are such steps; finish_close never fails.
LEMMA ReapSteps ==
    ASSUME ScopeIInv, \/ \E s \in Scopes : ReapFinished(s)
                      \/ FinishClose
    PROVE  ScopeIInv'
<1>1. /\ Types /\ LocalOK(act[Owner]) /\ act[Owner] \in ActRec /\ Owner \in Actors
      /\ act[Owner].scopes = {} /\ OwnerInv /\ act \in [Actors -> ActRec]
      /\ scope \in [Scopes -> ScopeRec]
  BY Finite DEF ScopeIInv, LocalInv, Types
<1>2. ASSUME NEW s \in Scopes, ReapFinished(s) PROVE ScopeIInv'
  <2> DEFINE taken == Ended(s)
             l == [act[Owner] EXCEPT !.kids = taken, !.pc = "dispose"]
             rest == scope[s].children \ taken
  <2>1. /\ act[Owner].pc = "idle" /\ scope[s].value = 1 /\ taken # {}
        /\ scope' = [scope EXCEPT ![s].children = rest]
        /\ UNCHANGED <<task, parent, abort, cancels>>
        /\ act' = [act EXCEPT ![Owner] = l]
        /\ act[Owner].op = "none" /\ act[Owner].kids = {}
    BY <1>1, <1>2 DEF ReapFinished, Ready, At, Mine, LocalOK, KidPCs
  <2>2. taken \in SUBSET scope[s].children /\ \A c \in taken : task[c].state \in Terminal
    BY DEF Ended
  <2> HIDE DEF taken
  <2>3. /\ l \in ActRec /\ l.pc = "dispose" /\ l.kids = taken /\ l.scopes = act[Owner].scopes
        /\ l.scope = act[Owner].scope /\ l.op = act[Owner].op /\ l.task = act[Owner].task
    BY <1>1, <2>2 DEF ActRec, PCs, ScopeRec
  <2> HIDE DEF l, rest
  <2>4. StepsTo(Owner, "dispose", taken) /\ act'[Owner].op = "none"
    BY <1>1, <2>1, <2>3 DEF StepsTo
  <2>5. scope' = [scope EXCEPT ![s].state = scope[s].state, ![s].children = rest]
    BY <1>1, <2>1 DEF ScopeRec
  <2> QED
    BY <1>1, <2>1, <2>2, <2>4, <2>5, ReapStep DEF rest, ScopeIInv, ScopeInv
<1>3. CASE FinishClose
  <2> DEFINE s == act[Owner].scope
             kids == scope[s].children
             p == AfterDispose(kids)
  <2>1. /\ act[Owner].pc = "finish" /\ s \in Scopes /\ scope[s].value = 1 /\ CanFinishClose(s)
        /\ kids \in SUBSET Tasks /\ act[Owner].kids = {}
        /\ \A c \in kids : task[c].state \in Terminal
    BY <1>1, <1>3 DEF FinishClose, At, OwnerInv, LocalOK, KidPCs, CanFinishClose, IsDone, ScopeRec
  <2>2. /\ scope' = [scope EXCEPT ![s].state = "Closed", ![s].children = {}]
        /\ act' = [act EXCEPT ![Owner] = Moved([@ EXCEPT !.kids = kids], p)]
        /\ UNCHANGED <<task, parent, abort, cancels>>
    BY <1>3, <2>1 DEF FinishClose, My
  <2>3. /\ kids # {} => p = "dispose" 
        /\ kids = {} => p \in {"release", "idle"}
    BY DisposeEnds
  <2> HIDE DEF p, kids, s
  <2>4. p \in {"dispose", "release", "idle"} /\ p \in PCs
    BY <2>3 DEF PCs
  <2>5. StepsTo(Owner, p, kids)
    BY <1>1, <2>1, <2>2, <2>3, <2>4, StepsToPoint
  <2>6. {} = scope[s].children \ kids /\ kids \in SUBSET scope[s].children
    BY DEF kids
  <2>7. scope' = [scope EXCEPT ![s].state = "Closed", ![s].children = scope[s].children \ kids]
    BY <2>2, <2>6
  <2>8. kids = scope[s].children /\ s = act[Owner].scope
    BY DEF kids, s
  <2>9. /\ kids # {} => p = "dispose"
        /\ "Closed" \in {scope[s].state, "Closed"}
        /\ act[Owner].pc \in {"idle", "finish"}
        /\ p = "release" => act[Owner].pc = "finish"
        /\ \/ act[Owner].pc = "idle" /\ p = "dispose" /\ act'[Owner].op = "none"
           \/ act[Owner].pc = "finish" /\ s = act[Owner].scope
        /\ "Closed" = "Closed" => kids = scope[s].children \/ scope[s].children = {}
    BY <2>1, <2>3, <2>8
  <2>10. act[Owner].scopes = {} /\ UNCHANGED <<task, parent, abort, cancels>>
    BY <1>1, <2>2
  <2> QED
    BY <2>1, <2>4, <2>5, <2>6, <2>7, <2>9, <2>10, ReapStep
<1> QED
  BY <1>2, <1>3

\* Where toka_task_scope_release runs the actor refers to the scope.
LEMMA AtRelease ==
    ASSUME ScopeIInv, NEW a \in Actors, act[a].pc = "release"
    PROVE  LET s == act[a].scope IN
           /\ s \in Scopes /\ act[a].kids = {} /\ s \notin act[a].scopes /\ act[a] \in ActRec
           /\ scope[s] \in ScopeRec /\ scope[s].refs >= 1
           /\ act[a].scopes \in SUBSET Scopes
           /\ a = Owner => scope[s].value = 1 /\ act[a].scopes = {}
           /\ a # Owner => a \in Cancellers /\ HoldsScope(act[a], s)
                           /\ (scope[s].refs = 1 => scope[s].value = 0)
<1>1. LocalOK(act[a]) /\ act[a] \in ActRec /\ (a = Owner => act[a].scopes = {})
  BY DEF ScopeIInv, LocalInv, Types
<1>2. /\ act[a].scope \in Scopes /\ act[a].kids = {} /\ act[a].scope \notin act[a].scopes
      /\ act[a].scopes \in SUBSET Scopes
  BY <1>1 DEF LocalOK, KidPCs, ActRec
<1>3. scope[act[a].scope] \in ScopeRec
  BY <1>2 DEF ScopeIInv, Types
<1>4. a = Owner => scope[act[a].scope].value = 1
  BY DEF ScopeIInv, OwnerInv
<1>5. a # Owner => a \in Cancellers /\ HoldsScope(act[a], act[a].scope)
  BY Finite DEF HoldsScope, HoldPCs
<1> QED
  BY <1>1, <1>2, <1>3, <1>4, <1>5, ScopeHeld

\* ScopeRelease with other references left: the actor's one goes.
LEMMA ReleaseOneStep ==
    ASSUME ScopeIInv, NEW a \in Actors, ScopeRelease(a), scope[act[a].scope].refs > 1
    PROVE  ScopeIInv'
<1> DEFINE s == act[a].scope
           n == scope[s].refs - 1
           v == IF a = Owner THEN 0 ELSE scope[s].value
           q == [scope[s] EXCEPT !.refs = n, !.value = v]
           p == AfterRelease(a)
<1>1. /\ act[a].pc = "release" /\ Types /\ OwnerInv
      /\ scope' = [scope EXCEPT ![s].refs = n, ![s].value = v]
      /\ Goto(a, p) /\ UNCHANGED <<task, parent, abort, cancels>>
  <2>1. scope[s].refs # 0 /\ scope[s].refs # 1
    OBVIOUS
  <2> QED
    BY <2>1 DEF ScopeIInv, ScopeRelease, At, My
<1>2. /\ s \in Scopes /\ act[a].kids = {} /\ s \notin act[a].scopes /\ act[a] \in ActRec
      /\ scope[s] \in ScopeRec /\ act[a].scopes \in SUBSET Scopes
      /\ a = Owner => scope[s].value = 1 /\ act[a].scopes = {}
      /\ a # Owner => a \in Cancellers /\ HoldsScope(act[a], s)
  BY <1>1, AtRelease
<1>3. p \in PCs /\ (a = Owner => p = "idle") /\ (a # Owner => p = "scopes")
  BY DEF AfterRelease, PCs
<1> HIDE DEF s, p
<1>4. StepsTo(a, p, {})
  BY <1>1, <1>2, <1>3, GotoPoint
<1>5. n \in Int /\ v \in {0, 1} /\ n > 0 /\ n = scope[s].refs - 1 /\ scope[s].refs \in Int
      /\ scope[s].value \in {0, 1}
      /\ v = IF a = Owner THEN 0 ELSE scope[s].value
  BY <1>2 DEF ScopeRec, s
<1> HIDE DEF n, v
<1>6. /\ q \in ScopeRec /\ q.refs = n /\ q.value = v /\ q.state = scope[s].state
      /\ q.children = scope[s].children
  BY <1>2, <1>5 DEF ScopeRec
<1>7. scope' = [scope EXCEPT ![s] = q]
  BY <1>1, <1>2 DEF Types
<1> HIDE DEF q
<1>8. /\ scope' \in [Scopes -> ScopeRec] /\ scope'[s] = q
      /\ \A r \in Scopes : /\ r # s => scope'[r] = scope[r]
                           /\ scope'[r].children = scope[r].children
                           /\ scope'[r].state = scope[r].state
  BY <1>1, <1>2, <1>6, <1>7, ZenonT(60) DEF Types
<1>9. /\ act' \in [Actors -> ActRec] /\ \A b \in Actors : b # a => act'[b] = act[b]
      /\ act'[a].pc = p /\ act'[a].kids = {} /\ act'[a].scopes = act[a].scopes
      /\ a = Owner => act'[a].scope = None /\ act'[a].op = "none"
      /\ a # Owner => act'[a].scope = s
  BY <1>2, <1>3, <1>4 DEF StepsTo, s
<1>10. \A d \in Tasks : Evolves(task[d], task'[d], Gain(a, d))
  BY <1>1, <1>2, <1>8, <1>9, ScopesStay, GainZero
<1>11. Types'
  BY <1>1, <1>8, <1>9 DEF Types
<1>12. GoesOn
  BY <1>8, <1>10 DEF GoesOn, Evolves
<1>13. RefsExact'
  <2>1. ASSUME NEW r \in Scopes
        PROVE  /\ scope'[r].refs = scope[r].refs + ScopeGain(a, r)
               /\ r \in parent'.cancel_scopes <=> scope'[r].refs > 0
    <3>1. CASE r = s
      <4>1. ScopeGain(a, r) = -1
        <5>1. CASE a = Owner
          BY <1>2, <1>5, <1>6, <1>8, <3>1, <5>1 DEF ScopeGain, One
        <5>2. CASE a # Owner
          <6>1. HoldsScope(act[a], s) /\ ~HoldsScope(act'[a], s)
            BY <1>2, <1>3, <1>9, <5>2 DEF HoldsScope, HoldPCs
          <6> QED
            BY <1>5, <1>6, <1>8, <3>1, <5>2, <6>1 DEF ScopeGain, One
        <5> QED
          BY <5>1, <5>2
      <4>2. scope'[r].refs = scope[r].refs + ScopeGain(a, r)
        BY <1>5, <1>6, <1>8, <3>1, <4>1
      <4>3. r \in parent.cancel_scopes <=> scope[r].refs > 0
        BY ScopeHeld
      <4> QED
        BY <1>1, <1>5, <1>6, <1>8, <3>1, <4>2, <4>3
    <3>2. CASE r # s
      <4>1. a # Owner => (HoldsScope(act'[a], r) <=> HoldsScope(act[a], r))
        BY <1>1, <1>2, <1>3, <1>9, <3>2 DEF HoldsScope, HoldPCs, s
      <4>2. scope[r].refs \in Int /\ scope[r].value \in Int
        BY <1>1 DEF Types, ScopeRec
      <4>3. ScopeGain(a, r) = 0
        BY <1>8, <3>2, <4>1, <4>2 DEF ScopeGain, One
      <4> QED
        BY <1>1, <1>8, <3>2, <4>2, <4>3, ScopeHeld
    <3> QED
      BY <3>1, <3>2
  <2>2. parent'.refs = parent.refs + ParentGain(a)
    <3>1. Cardinality(parent.cancel_scopes) \in Nat /\ parent.refs \in Int
      BY <1>1, Finite, FS_Subset, FS_CardinalityType DEF Types, ParentRec
    <3>2. One(act'[Owner].pc # "ended") = One(act[Owner].pc # "ended")
      BY <1>1, <1>3, <1>9, Finite DEF One
    <3>3. /\ One(act'[a].pc \in {"orphan", "detach"}) = 0
          /\ One(act[a].pc \in {"orphan", "detach"}) = 0
          /\ One(a # Owner /\ act'[a].pc # "idle") = One(a # Owner /\ act[a].pc # "idle")
      BY <1>1, <1>3, <1>9 DEF One
    <3>4. ParentGain(a) = 0
      BY <1>1, <3>1, <3>2, <3>3 DEF ParentGain, One
    <3> QED
      BY <1>1, <3>1, <3>4
  <2> QED
    BY <1>1, <1>9, <1>10, <1>11, <2>1, <2>2, RefsMove DEF ScopeIInv
<1>14. LocalOK(act'[a])
  BY <1>2, <1>3, <1>9, ScopeAssumption DEF LocalOK
<1>15. LocalInv' /\ WalkInv' /\ ReachInv' /\ OwnerInv'
  <2>0. \A r \in parent'.cancel_scopes : r \in parent.cancel_scopes /\ r \in Scopes
    BY <1>1 DEF Types, ParentRec
  <2>1. CASE a = Owner
    <3>1. OwnerInv'
      BY <1>3, <1>9, <2>1 DEF OwnerInv
    <3> QED
      BY <1>1, <1>2, <1>8, <1>9, <1>12, <1>14, <2>0, <2>1, <3>1, OwnerFrame, Finite
  <2>2. CASE a # Owner
    <3>1. p = "scopes" /\ Walk(a)'
      BY <1>3, <1>9, <2>2 DEF Walk, HoldPCs
    <3>2. \A r \in Scopes : PendingAt(act[a], r) => PendingAt(act'[a], r)
      BY <1>1, <1>9 DEF PendingAt
    <3>3. ReachInv'
      BY <1>1, <1>2, <1>8, <1>9, <1>12, <2>0, <2>2, <3>2, ReachFrame
    <3>4. \A r \in Scopes : scope'[r].value = scope[r].value
      BY <1>5, <1>6, <1>8, <2>2
    <3> QED
      BY <1>2, <1>8, <1>9, <1>12, <1>14, <2>2, <3>1, <3>3, <3>4, WalkFrame
  <2> QED
    BY <2>1, <2>2
<1>16. ScopeInv'
  BY <1>5, <1>6, <1>8 DEF ScopeIInv, ScopeInv
<1>17. TaskInv'
  <2>1. \A d : Kept(d) => Kept(d)'
    BY <1>1, <1>2, <1>8, <1>9 DEF Kept
  <2>2. act[Owner].pc # "start" \/ act'[Owner] = act[Owner]
    BY <1>1, <1>9, Finite
  <2> QED
    BY <1>1, <1>8, <2>1, <2>2 DEF ScopeIInv, TaskInv
<1> QED
  BY <1>1, <1>11, <1>13, <1>15, <1>16, <1>17 DEF ScopeIInv, NoAbort

\* ScopeRelease of the last reference: the scope leaves the parent's weak list,
\* and its children go to the actor's own.
LEMMA ReleaseLastStep ==
    ASSUME ScopeIInv, NEW a \in Actors, ScopeRelease(a), scope[act[a].scope].refs = 1
    PROVE  ScopeIInv'
<1> DEFINE s == act[a].scope
           kids == scope[s].children
           q == [state |-> "Closed", refs |-> 0, value |-> 0, children |-> {}]
           l == [act[a] EXCEPT !.kids = kids, !.pc = "orphan"]
           rest == parent.cancel_scopes \ {s}
<1>1. /\ act[a].pc = "release" /\ Types /\ OwnerInv /\ act \in [Actors -> ActRec]
      /\ parent \in ParentRec
      /\ scope' = [scope EXCEPT ![s] = q] /\ parent' = [parent EXCEPT !.cancel_scopes = rest]
      /\ act' = [act EXCEPT ![a].kids = kids, ![a].pc = "orphan"]
      /\ UNCHANGED <<task, abort, cancels>>
  <2>1. scope[s].refs # 0 /\ ~(scope[s].refs > 1)
    OBVIOUS
  <2> QED
    BY <2>1 DEF ScopeIInv, Types, ScopeRelease, At, My
<1>2. /\ s \in Scopes /\ act[a].kids = {} /\ s \notin act[a].scopes /\ act[a] \in ActRec
      /\ scope[s] \in ScopeRec /\ act[a].scopes \in SUBSET Scopes
      /\ a = Owner => scope[s].value = 1 /\ act[a].scopes = {}
      /\ a # Owner => a \in Cancellers /\ HoldsScope(act[a], s) /\ scope[s].value = 0
  BY <1>1, AtRelease
<1>3. q \in ScopeRec /\ q.refs = 0 /\ q.value = 0 /\ q.state = "Closed" /\ q.children = {}
  BY DEF ScopeRec
<1>4. kids \in SUBSET Tasks
  BY <1>2 DEF ScopeRec
<1>5. act' = [act EXCEPT ![a] = l]
  BY <1>1
<1> HIDE DEF q, kids
<1>6. /\ l \in ActRec /\ l.pc = "orphan" /\ l.kids = kids /\ l.scope = s
      /\ l.scopes = act[a].scopes /\ l.op = act[a].op
  BY <1>2, <1>4 DEF ActRec, PCs
<1> HIDE DEF l
<1>7. s \in parent.cancel_scopes /\ rest \in SUBSET Scopes
  BY <1>1, <1>2, ScopeHeld DEF ParentRec
<1> HIDE DEF s, rest
<1>8. /\ parent' \in ParentRec /\ parent'.refs = parent.refs /\ parent'.cancel_scopes = rest
      /\ parent'.cancel_requested = parent.cancel_requested
      /\ parent'.cancel_children = parent.cancel_children
  BY <1>1, <1>7 DEF ParentRec
<1>9. /\ scope' \in [Scopes -> ScopeRec] /\ scope'[s] = q
      /\ \A r \in Scopes : r # s => scope'[r] = scope[r]
  BY <1>1, <1>2, <1>3 DEF Types
<1>10. /\ act' \in [Actors -> ActRec] /\ \A b \in Actors : b # a => act'[b] = act[b]
       /\ act'[a] = l
  BY <1>1, <1>5, <1>6
<1>11. /\ \A d \in Tasks : Evolves(task[d], task'[d], Gain(a, d))
       /\ \A d : Kept(d) => Kept(d)'
  <2>1. kids \in SUBSET scope[s].children /\ scope'[s].children = scope[s].children \ kids
    BY <1>3, <1>9 DEF kids
  <2>2. act'[a].kids = kids /\ act'[a].pc \in TakenPCs
    BY <1>6, <1>10 DEF TakenPCs
  <2> QED
    BY <1>1, <1>2, <1>8, <1>9, <1>10, <2>1, <2>2, TakenOut
<1>12. Types'
  BY <1>1, <1>8, <1>9, <1>10 DEF Types
<1>13. GoesOn
  BY <1>3, <1>9, <1>11 DEF GoesOn, Evolves, Refusing
<1>14. RefsExact'
  <2>1. ASSUME NEW r \in Scopes
        PROVE  /\ scope'[r].refs = scope[r].refs + ScopeGain(a, r)
               /\ r \in parent'.cancel_scopes <=> scope'[r].refs > 0
    <3>1. CASE r = s
      <4>0. scope[s].refs = 1
        BY DEF s
      <4>1. ScopeGain(a, r) = -1
        <5>1. CASE a = Owner
          BY <1>2, <1>3, <1>9, <3>1, <5>1 DEF ScopeGain, One
        <5>2. CASE a # Owner
          <6>1. HoldsScope(act[a], s) /\ ~HoldsScope(act'[a], s)
            BY <1>2, <1>6, <1>10, <5>2 DEF HoldsScope, HoldPCs
          <6> QED
            BY <1>2, <1>3, <1>9, <3>1, <5>2, <6>1 DEF ScopeGain, One
        <5> QED
          BY <5>1, <5>2
      <4> QED
        BY <1>3, <1>8, <1>9, <3>1, <4>0, <4>1 DEF rest
    <3>2. CASE r # s
      <4>1. a # Owner => (HoldsScope(act'[a], r) <=> HoldsScope(act[a], r))
        BY <1>1, <1>2, <1>6, <1>10, <3>2 DEF HoldsScope, HoldPCs, s
      <4>2. scope[r].refs \in Int /\ scope[r].value \in Int
        BY <1>1 DEF Types, ScopeRec
      <4>3. ScopeGain(a, r) = 0
        BY <1>9, <3>2, <4>1, <4>2 DEF ScopeGain, One
      <4>4. r \in rest <=> r \in parent.cancel_scopes
        BY <3>2 DEF rest
      <4> QED
        BY <1>8, <1>9, <3>2, <4>2, <4>3, <4>4, ScopeHeld
    <3> QED
      BY <3>1, <3>2
  <2>2. parent'.refs = parent.refs + ParentGain(a)
    <3>1. /\ Cardinality(parent.cancel_scopes) \in Nat /\ parent.refs \in Int
          /\ Cardinality(rest) = Cardinality(parent.cancel_scopes) - 1
      <4>1. IsFiniteSet(parent.cancel_scopes) /\ parent.refs \in Int
        BY <1>1, Finite, FS_Subset DEF ParentRec
      <4> QED
        BY <1>7, <4>1, FS_RemoveElement, FS_CardinalityType DEF rest
    <3>2. One(act'[Owner].pc # "ended") = One(act[Owner].pc # "ended")
      BY <1>1, <1>6, <1>10, Finite DEF One
    <3>3. /\ One(act'[a].pc \in {"orphan", "detach"}) = 1
          /\ One(act[a].pc \in {"orphan", "detach"}) = 0
          /\ One(a # Owner /\ act'[a].pc # "idle") = One(a # Owner /\ act[a].pc # "idle")
      BY <1>1, <1>6, <1>10 DEF One
    <3>4. ParentGain(a) = 0
      BY <1>8, <3>1, <3>2, <3>3 DEF ParentGain, One
    <3> QED
      BY <1>8, <3>1, <3>4
  <2> QED
    BY <1>1, <1>10, <1>11, <1>12, <2>1, <2>2, RefsMove DEF ScopeIInv
<1>15. LocalOK(act'[a])
  BY <1>2, <1>6, <1>10, ScopeAssumption DEF LocalOK, KidPCs
<1>16. LocalInv' /\ WalkInv' /\ ReachInv' /\ OwnerInv'
  <2>0. \A r \in parent'.cancel_scopes : /\ r \in parent.cancel_scopes /\ r \in Scopes
                                         /\ scope'[r].children \subseteq scope[r].children
    BY <1>7, <1>8, <1>9 DEF rest
  <2>1. CASE a = Owner
    <3>1. OwnerInv'
      BY <1>6, <1>10, <2>1 DEF OwnerInv
    <3> QED
      BY <1>2, <1>6, <1>8, <1>10, <1>13, <1>15, <2>0, <2>1, <3>1, OwnerFrame, Finite
  <2>2. CASE a # Owner
    <3>1. Walk(a)'
      BY <1>6, <1>10, <2>2 DEF Walk, HoldPCs
    <3>2. \A r \in Scopes : PendingAt(act[a], r) => PendingAt(act'[a], r)
      BY <1>1, <1>6, <1>10 DEF PendingAt
    <3>3. ReachInv'
      BY <1>2, <1>8, <1>10, <1>13, <2>0, <2>2, <3>2, ReachFrame
    <3>4. \A r \in Scopes : scope[r].value = 1 => scope'[r] = scope[r]
      BY <1>2, <1>9, <2>2
    <3> QED
      BY <1>2, <1>6, <1>10, <1>13, <1>15, <2>2, <3>1, <3>3, <3>4, WalkFrame
  <2> QED
    BY <2>1, <2>2
<1>17. ScopeInv'
  BY <1>3, <1>9 DEF ScopeIInv, ScopeInv
<1>18. TaskInv'
  <2>2. act[Owner].pc # "start" \/ act'[Owner] = act[Owner]
    BY <1>1, <1>10, Finite
  <2>3. \A r \in Scopes : scope'[r].children \subseteq scope[r].children
    BY <1>3, <1>9
  <2> QED
    BY <1>1, <1>11, <2>2, <2>3 DEF ScopeIInv, TaskInv
<1> QED
  BY <1>1, <1>12, <1>14, <1>16, <1>17, <1>18 DEF ScopeIInv, NoAbort

\* ScopeRelease never underflows.
LEMMA ScopeReleaseStep ==
    ASSUME ScopeIInv, NEW a \in Actors, ScopeRelease(a)
    PROVE  ScopeIInv'
<1>1. act[a].pc = "release"
  BY DEF ScopeRelease, At
<1>2. scope[act[a].scope] \in ScopeRec /\ scope[act[a].scope].refs >= 1
  BY <1>1, AtRelease
<1>3. scope[act[a].scope].refs = 1 \/ scope[act[a].scope].refs > 1
  BY <1>2 DEF ScopeRec
<1> QED
  BY <1>3, ReleaseOneStep, ReleaseLastStep

\* NewScope: the value's reference, the weak entry, and a reference to the parent.
LEMMA NewScopeStep ==
    ASSUME ScopeIInv, NEW s \in Scopes, NewScope(s)
    PROVE  ScopeIInv'
<1> DEFINE st == IF parent.cancel_requested = 1 THEN "Closing" ELSE "Open"
           q == [scope[s] EXCEPT !.state = st, !.refs = 1, !.value = 1]
           n == parent.refs + 1
           all == parent.cancel_scopes \cup {s}
<1>1. /\ act[Owner].pc = "idle" /\ Types /\ scope[s] \in ScopeRec /\ parent \in ParentRec
      /\ scope[s].state = "Unused" /\ scope[s].refs = 0 /\ scope[s].children = {}
      /\ scope' = [scope EXCEPT ![s].state = st, ![s].refs = 1, ![s].value = 1]
      /\ parent' = [parent EXCEPT !.refs = n, !.cancel_scopes = all]
      /\ UNCHANGED <<task, act, abort, cancels>>
  BY DEF ScopeIInv, Types, ScopeInv, NewScope, Ready, At
<1>2. scope[s].value = 0 /\ s \notin parent.cancel_scopes
  BY <1>1, ScopeHeld
<1>3. st \in {"Closing", "Open"} /\ n \in Int /\ all \in SUBSET Scopes
  BY <1>1 DEF ParentRec
<1>r. scope[s] \in ScopeRec /\ scope \in [Scopes -> ScopeRec]
  BY <1>1 DEF Types
<1> HIDE DEF st, n, all
<1>4. /\ parent' \in ParentRec /\ parent'.refs = n /\ parent'.cancel_scopes = all
      /\ parent'.cancel_requested = parent.cancel_requested
      /\ parent'.cancel_children = parent.cancel_children
  BY <1>1, <1>3 DEF ParentRec
<1>5. q \in ScopeRec /\ q.refs = 1 /\ q.value = 1 /\ q.state = st /\ q.children = {}
  <2>1. q \in ScopeRec
    <3>1. st \in {"Unused", "Open", "Closing", "Closed"} /\ 1 \in Int /\ 1 \in {0, 1}
      BY <1>3
    <3>2. [scope[s] EXCEPT !.state = st] \in ScopeRec
      BY <1>r, <3>1 DEF ScopeRec
    <3>3. \A r \in ScopeRec : [r EXCEPT !.refs = 1] \in ScopeRec
      BY <3>1 DEF ScopeRec
    <3>4. \A r \in ScopeRec : [r EXCEPT !.value = 1] \in ScopeRec
      BY <3>1 DEF ScopeRec
    <3>5. q = [[[scope[s] EXCEPT !.state = st] EXCEPT !.refs = 1] EXCEPT !.value = 1]
      BY <1>r DEF ScopeRec
    <3> QED
      BY <3>2, <3>3, <3>4, <3>5
  <2>2. q.refs = 1 /\ q.value = 1 /\ q.state = st /\ q.children = scope[s].children
    BY <1>r DEF ScopeRec
  <2> QED
    BY <1>1, <2>1, <2>2
<1>6. scope' = [scope EXCEPT ![s] = q]
  BY <1>1 DEF Types
<1> HIDE DEF q
<1>7. /\ scope' \in [Scopes -> ScopeRec] /\ scope'[s] = q
      /\ \A r \in Scopes : /\ r # s => scope'[r] = scope[r]
                           /\ scope'[r].children = scope[r].children
  <2>1. /\ scope' \in [Scopes -> ScopeRec] /\ scope'[s] = q
        /\ \A r \in Scopes : r # s => scope'[r] = scope[r]
    BY <1>r, <1>5, <1>6
  <2> QED
    BY <1>1, <1>5, <2>1
<1>8. \A d \in Tasks : Evolves(task[d], task'[d], Gain(Owner, d))
  BY <1>1, <1>4, <1>7, ScopesStay, GainZero, Finite
<1>9. Types'
  BY <1>1, <1>4, <1>7 DEF Types
<1>10. GoesOn
  BY <1>1, <1>7, <1>8 DEF GoesOn, Evolves, Refusing
<1>11. RefsExact'
  <2>1. ASSUME NEW r \in Scopes
        PROVE  /\ scope'[r].refs = scope[r].refs + ScopeGain(Owner, r)
               /\ r \in parent'.cancel_scopes <=> scope'[r].refs > 0
    <3>1. CASE r = s
      <4>1. ScopeGain(Owner, r) = 1
        BY <1>2, <1>5, <1>7, <3>1 DEF ScopeGain, One
      <4> QED
        BY <1>1, <1>4, <1>5, <1>7, <3>1, <4>1 DEF all
    <3>2. CASE r # s
      <4>1. scope[r].refs \in Int /\ scope[r].value \in Int
        BY <1>1 DEF Types, ScopeRec
      <4>2. ScopeGain(Owner, r) = 0
        BY <1>7, <3>2, <4>1 DEF ScopeGain, One
      <4>3. r \in all <=> r \in parent.cancel_scopes
        BY <3>2 DEF all
      <4> QED
        BY <1>4, <1>7, <3>2, <4>1, <4>2, <4>3, ScopeHeld
    <3> QED
      BY <3>1, <3>2
  <2>2. parent'.refs = parent.refs + ParentGain(Owner)
    <3>1. /\ Cardinality(parent.cancel_scopes) \in Nat /\ parent.refs \in Int
          /\ Cardinality(all) = Cardinality(parent.cancel_scopes) + 1
      <4>1. IsFiniteSet(parent.cancel_scopes) /\ parent.refs \in Int
        BY <1>1, Finite, FS_Subset DEF ParentRec
      <4> QED
        BY <1>2, <4>1, FS_AddElement, FS_CardinalityType DEF all
    <3>2. ParentGain(Owner) = 1
      BY <1>1, <1>4, <3>1 DEF ParentGain, One
    <3> QED
      BY <1>4, <3>1, <3>2 DEF n
  <2> QED
    BY <1>1, <1>8, <1>9, <2>1, <2>2, RefsMove, Finite DEF ScopeIInv
<1>12. LocalInv' /\ WalkInv' /\ ReachInv'
  <2>1. LocalOK(act'[Owner]) /\ act'[Owner].scopes = {}
    BY <1>1, Finite DEF ScopeIInv, LocalInv
  <2>2. \A r \in parent'.cancel_scopes :
            \/ r \in parent.cancel_scopes /\ scope'[r].children \subseteq scope[r].children
            \/ scope'[r].children = {}
    BY <1>3, <1>4, <1>5, <1>7 DEF all
  <2> QED
    BY <1>1, <1>4, <1>10, <2>1, <2>2, OwnerFrame
<1>13. OwnerInv'
  BY <1>1 DEF OwnerInv
<1>14. ScopeInv'
  BY <1>3, <1>5, <1>7 DEF ScopeIInv, ScopeInv
<1>15. TaskInv'
  BY <1>1, <1>7, KeptStays DEF ScopeIInv, TaskInv
<1> QED
  BY <1>1, <1>9, <1>11, <1>12, <1>13, <1>14, <1>15 DEF ScopeIInv, NoAbort

\* RequestCancel: a walk begins, with a reference to the parent; every scope is
\* before it.
LEMMA RequestStep ==
    ASSUME ScopeIInv, NEW x \in Cancellers, RequestCancel(x)
    PROVE  ScopeIInv'
<1> DEFINE n == parent.refs + 1
<1>1. /\ act[x].pc = "idle" /\ Types /\ parent \in ParentRec /\ x \in Actors /\ x # Owner
      /\ act[x].kids = {} /\ act[x].scopes = {} /\ act[x].scope = None /\ act[x].op = "none"
      /\ cancels' \in 0..MaxCancels /\ Goto(x, "snapshot")
      /\ parent' = [parent EXCEPT !.refs = n, !.cancel_requested = 1]
      /\ UNCHANGED <<task, scope, abort>>
  <2>1. LocalOK(act[x]) /\ act[x].pc = "idle" /\ x \in Actors /\ x # Owner
    BY Finite DEF ScopeIInv, LocalInv, RequestCancel, At
  <2> QED
    BY <2>1, ScopeAssumption DEF ScopeIInv, RequestCancel, LocalOK, KidPCs, Types
<1>2. n \in Int /\ parent.refs \in Int
  BY <1>1 DEF ParentRec
<1> HIDE DEF n
<1>3. /\ parent' \in ParentRec /\ parent'.refs = n /\ parent'.cancel_requested = 1
      /\ parent'.cancel_scopes = parent.cancel_scopes
      /\ parent'.cancel_children = parent.cancel_children
  BY <1>1, <1>2 DEF ParentRec
<1>4. StepsTo(x, "snapshot", {})
  BY <1>1, GotoPoint DEF PCs
<1>5. /\ act' \in [Actors -> ActRec] /\ \A b \in Actors : b # x => act'[b] = act[b]
      /\ act'[x].pc = "snapshot" /\ act'[x].kids = {} /\ act'[x].scopes = {}
      /\ act'[x].scope = None /\ act'[x].op = "none"
  BY <1>1, <1>4 DEF StepsTo
<1>6. \A d \in Tasks : Evolves(task[d], task'[d], Gain(x, d))
  BY <1>1, <1>3, <1>5, ScopesStay, GainZero
<1>7. Types'
  BY <1>1, <1>3, <1>5 DEF Types
<1>8. GoesOn
  BY <1>1, <1>6 DEF GoesOn, Evolves
<1>9. RefsExact'
  <2>1. ASSUME NEW r \in Scopes
        PROVE  /\ scope'[r].refs = scope[r].refs + ScopeGain(x, r)
               /\ r \in parent'.cancel_scopes <=> scope'[r].refs > 0
    <3>1. scope[r].refs \in Int /\ scope[r].value \in Int
      BY <1>1 DEF Types, ScopeRec
    <3>2. ScopeGain(x, r) = 0
      BY <1>1, <1>5, <3>1, ScopeAssumption DEF ScopeGain, One, HoldsScope
    <3> QED
      BY <1>1, <1>3, <3>1, <3>2, ScopeHeld
  <2>2. parent'.refs = parent.refs + ParentGain(x)
    <3>1. Cardinality(parent.cancel_scopes) \in Nat
      BY <1>1, Finite, FS_Subset, FS_CardinalityType DEF ParentRec
    <3>2. act'[Owner] = act[Owner]
      BY <1>1, <1>5, Finite
    <3>3. ParentGain(x) = 1
      BY <1>1, <1>3, <1>5, <3>1, <3>2 DEF ParentGain, One
    <3> QED
      BY <1>2, <1>3, <3>3 DEF n
  <2> QED
    BY <1>1, <1>5, <1>6, <1>7, <2>1, <2>2, RefsMove DEF ScopeIInv
<1>10. LocalInv' /\ WalkInv' /\ OwnerInv'
  <2>1. LocalOK(act'[x])
    BY <1>5 DEF LocalOK
  <2>2. Walk(x)'
    BY <1>5 DEF Walk, HoldPCs
  <2> QED
    BY <1>1, <1>5, <1>8, <2>1, <2>2, WalkFrame
<1>11. ReachInv'
  BY <1>5 DEF ReachInv, Pending, PendingAt
<1>12. ScopeInv'
  BY <1>1 DEF ScopeIInv, ScopeInv
<1>13. TaskInv'
  <2>1. \A d : Kept(d) => Kept(d)'
    BY <1>1, <1>5 DEF Kept
  <2>2. act'[Owner] = act[Owner]
    BY <1>1, <1>5, Finite
  <2> QED
    BY <1>1, <2>1, <2>2 DEF ScopeIInv, TaskInv
<1> QED
  BY <1>1, <1>7, <1>9, <1>10, <1>11, <1>12, <1>13 DEF ScopeIInv, NoAbort

\* SnapshotLists never meets a dead scope, and refers to every scope and child it
\* lists.
LEMMA SnapshotListsStep ==
    ASSUME ScopeIInv, NEW x \in Cancellers, SnapshotLists(x)
    PROVE  ScopeIInv'
<1> DEFINE kids == parent.cancel_children
           all == parent.cancel_scopes
           p == IF kids = {} THEN "scopes" ELSE "sweep"
           l == [act[x] EXCEPT !.kids = kids, !.scopes = all]
<1>1. /\ act[x].pc = "snapshot" /\ Types /\ parent \in ParentRec /\ x \in Actors /\ x # Owner
      /\ act[x].kids = {} /\ act[x].scopes = {} /\ act[x].scope = None /\ act[x] \in ActRec
      /\ act \in [Actors -> ActRec] /\ scope \in [Scopes -> ScopeRec]
      /\ \A d \in Tasks : task[d] \in TaskRec /\ TaskLocal(task[d])
  <2>1. LocalOK(act[x]) /\ act[x].pc = "snapshot" /\ x \in Actors /\ x # Owner
    BY Finite DEF ScopeIInv, LocalInv, SnapshotLists, At
  <2> QED
    BY <2>1 DEF ScopeIInv, LocalOK, KidPCs, Types, TaskInv
<1>2. kids \in SUBSET Tasks /\ all \in SUBSET Scopes
  BY <1>1 DEF ParentRec
<1>3. \A s \in all : scope[s].refs # 0
  BY <1>2, ScopeHeld
<1>4. /\ task' = [c \in Tasks |-> IF c \in kids THEN Retained(task[c]) ELSE task[c]]
      /\ scope' = [s \in Scopes |-> IF s \in all THEN ScopeRetained(scope[s]) ELSE scope[s]]
      /\ act' = [act EXCEPT ![x] = Moved(l, p)]
      /\ UNCHANGED <<parent, abort, cancels>>
  BY <1>3 DEF SnapshotLists
<1>5. /\ p \in PCs /\ p # "idle" /\ p \in {"scopes", "sweep"} /\ (kids # {} => p = "sweep")
  BY DEF PCs
<1>6. /\ l \in ActRec /\ l.kids = kids /\ l.scopes = all /\ l.scope = None
      /\ l.op = act[x].op
  BY <1>1, <1>2 DEF ActRec
<1> HIDE DEF l, p
<1>7. /\ act' \in [Actors -> ActRec] /\ \A b \in Actors : b # x => act'[b] = act[b]
      /\ act'[x].pc = p /\ act'[x].kids = kids /\ act'[x].scopes = all
      /\ act'[x].scope = None
  <2>1. /\ Moved(l, p) \in ActRec /\ Moved(l, p).pc = p /\ Moved(l, p).kids = l.kids
        /\ Moved(l, p).scopes = l.scopes /\ Moved(l, p).scope = l.scope
    BY <1>5, <1>6, MovedFields
  <2>2. /\ act' \in [Actors -> ActRec] /\ act'[x] = Moved(l, p)
        /\ \A b \in Actors : b # x => act'[b] = act[b]
    BY <1>1, <1>4, <2>1
  <2> QED
    BY <1>6, <2>1, <2>2
<1>8. ASSUME NEW s \in Scopes
      PROVE  /\ scope'[s] \in ScopeRec /\ scope'[s].refs = scope[s].refs + One(s \in all)
             /\ scope'[s].value = scope[s].value /\ scope'[s].state = scope[s].state
             /\ scope'[s].children = scope[s].children
  <2> DEFINE r == scope[s]
  <2>1. r \in ScopeRec /\ r.refs \in Int
    BY <1>1 DEF ScopeRec
  <2> HIDE DEF r
  <2>2. /\ ScopeRetained(r) \in ScopeRec /\ ScopeRetained(r).refs = r.refs + 1
        /\ ScopeRetained(r).value = r.value /\ ScopeRetained(r).state = r.state
        /\ ScopeRetained(r).children = r.children
    BY <2>1 DEF ScopeRetained, ScopeRec
  <2>3. scope'[s] = IF s \in all THEN ScopeRetained(r) ELSE r
    BY <1>4 DEF r
  <2>4. CASE s \in all
    BY <2>1, <2>2, <2>3, <2>4 DEF One, r
  <2>5. CASE s \notin all
    BY <2>1, <2>3, <2>5 DEF One, r
  <2> QED
    BY <2>4, <2>5
<1>9. scope' \in [Scopes -> ScopeRec]
  BY <1>4, <1>8
<1> HIDE DEF kids, all
<1>10. task' \in [Tasks -> TaskRec]
  BY <1>1, <1>4, RetainedFields
<1>11. ASSUME NEW d \in Tasks
       PROVE  Evolves(task[d], task'[d], Gain(x, d)) /\ (Due(task'[d]) => Due(task[d]))
  <2>1. InScopes(d)' = InScopes(d) /\ Cardinality(InScopes(d)) \in Nat
    BY <1>8, ScopesStay, Sizes
  <2>2. Gain(x, d) = One(d \in kids)
    BY <1>1, <1>4, <1>7, <2>1 DEF Gain, One
  <2>3. CASE d \in kids
    BY <1>1, <1>4, <2>2, <2>3, EvolvesSimple DEF One
  <2>4. CASE d \notin kids
    BY <1>1, <1>4, <2>2, <2>4, EvolvesStay DEF One
  <2> QED
    BY <2>3, <2>4
<1>12. Types'
  BY <1>1, <1>4, <1>7, <1>9, <1>10 DEF Types
<1>13. GoesOn
  BY <1>8, <1>11 DEF GoesOn, Evolves
<1>14. RefsExact'
  <2>1. ASSUME NEW r \in Scopes
        PROVE  /\ scope'[r].refs = scope[r].refs + ScopeGain(x, r)
               /\ r \in parent'.cancel_scopes <=> scope'[r].refs > 0
    <3>1. scope[r].refs \in Nat /\ scope[r].value \in Int
          /\ (r \in parent.cancel_scopes <=> scope[r].refs > 0)
      BY ScopeHeld
    <3>2. ~HoldsScope(act[x], r) /\ (HoldsScope(act'[x], r) <=> r \in all)
      BY <1>1, <1>7, ScopeAssumption DEF HoldsScope
    <3>3. ScopeGain(x, r) = One(r \in all)
      BY <1>1, <1>8, <3>1, <3>2 DEF ScopeGain, One
    <3> QED
      BY <1>4, <1>8, <3>1, <3>3 DEF One, all
  <2>2. parent'.refs = parent.refs + ParentGain(x)
    <3>1. Cardinality(parent.cancel_scopes) \in Nat /\ parent.refs \in Int
      BY <1>1, Finite, FS_Subset, FS_CardinalityType DEF ParentRec
    <3>2. act'[Owner] = act[Owner]
      BY <1>1, <1>7, Finite
    <3>3. ParentGain(x) = 0
      BY <1>1, <1>4, <1>5, <1>7, <3>1, <3>2 DEF ParentGain, One
    <3> QED
      BY <1>4, <3>1, <3>3
  <2> QED
    BY <1>1, <1>7, <1>11, <1>12, <2>1, <2>2, RefsMove DEF ScopeIInv
<1>15. LocalInv' /\ WalkInv' /\ OwnerInv'
  <2>1. LocalOK(act'[x])
    BY <1>2, <1>5, <1>7, ScopeAssumption DEF LocalOK, KidPCs
  <2>2. Walk(x)'
    BY <1>7, ScopeAssumption DEF Walk
  <2> QED
    BY <1>1, <1>5, <1>7, <1>8, <1>13, <2>1, <2>2, WalkFrame
<1>16. ReachInv'
  <2>1. \A s \in parent'.cancel_scopes :
            /\ s \in parent.cancel_scopes
            /\ scope'[s].children \subseteq scope[s].children
            /\ PendingAt(act'[x], s)
    BY <1>2, <1>4, <1>7, <1>8 DEF PendingAt, all
  <2> QED
    BY <1>4, <1>7, <1>13, <2>1, ReachFrame
<1>17. ScopeInv'
  <2>1. \A s \in Scopes : scope'[s].refs = 0 => scope[s].refs = 0
    BY <1>8, ScopeHeld DEF One
  <2>2. \A s \in Scopes : scope[s].refs = 0 => scope'[s].refs = 0
    BY <1>3, <1>8 DEF One
  <2> QED
    BY <1>8, <2>1, <2>2 DEF ScopeIInv, ScopeInv
<1>18. TaskInv'
  <2>1. \A d : Kept(d) => Kept(d)'
    BY <1>1, <1>7, <1>8 DEF Kept
  <2>2. act'[Owner] = act[Owner]
    BY <1>1, <1>7, Finite
  <2> QED
    BY <1>8, <1>11, <2>1, <2>2 DEF ScopeIInv, TaskInv, Evolves, Onward
<1> QED
  BY <1>4, <1>12, <1>14, <1>15, <1>16, <1>17, <1>18 DEF ScopeIInv, NoAbort

\* CloseScope marks the next scope of the walk; the reference stays with it.
LEMMA CloseScopeStep ==
    ASSUME ScopeIInv, NEW x \in Cancellers, NEW s \in Scopes, CloseScope(x, s)
    PROVE  ScopeIInv'
<1> DEFINE st == BegunClose(scope[s].state)
           q == [scope[s] EXCEPT !.state = st]
           rest == act[x].scopes \ {s}
           l == [act[x] EXCEPT !.scopes = rest, !.scope = s, !.pc = "cancel_all"]
<1>1. /\ act[x].pc = "scopes" /\ Types /\ x \in Actors /\ x # Owner /\ s \in act[x].scopes
      /\ act[x] \in ActRec /\ act[x].kids = {} /\ act \in [Actors -> ActRec]
      /\ scope \in [Scopes -> ScopeRec] /\ scope[s] \in ScopeRec
      /\ scope' = [scope EXCEPT ![s].state = st]
      /\ act' = [act EXCEPT ![x].scopes = rest, ![x].scope = s, ![x].pc = "cancel_all"]
      /\ UNCHANGED <<task, parent, abort, cancels>>
  <2>1. LocalOK(act[x]) /\ act[x].pc = "scopes" /\ x \in Actors /\ x # Owner
    BY Finite DEF ScopeIInv, LocalInv, CloseScope, At
  <2> QED
    BY <2>1 DEF ScopeIInv, CloseScope, My, LocalOK, KidPCs, Types
<1>2. scope[s].refs >= 1 /\ scope[s].state # "Unused"
  BY <1>1, ScopeHeld DEF HoldsScope
<1>3. /\ st \in Refusing /\ (scope[s].state \in Refusing => st = scope[s].state)
      /\ (scope[s].state = "Closed" <=> st = "Closed")
  BY <1>1, <1>2 DEF BegunClose, Refusing, ScopeRec
<1> HIDE DEF st
<1>4. /\ q \in ScopeRec /\ q.state = st /\ q.refs = scope[s].refs /\ q.value = scope[s].value
      /\ q.children = scope[s].children
  BY <1>1, <1>3 DEF ScopeRec, Refusing
<1>5. scope' = [scope EXCEPT ![s] = q] /\ act' = [act EXCEPT ![x] = l]
  BY <1>1
<1>6. /\ l \in ActRec /\ l.pc = "cancel_all" /\ l.scopes = rest /\ l.scope = s /\ l.kids = {}
      /\ l.op = act[x].op
  <2>1. rest \in SUBSET Scopes
    BY <1>1 DEF ActRec
  <2> HIDE DEF rest
  <2> QED
    BY <1>1, <2>1 DEF ActRec, PCs
<1> HIDE DEF q, l
<1>7. /\ scope' \in [Scopes -> ScopeRec] /\ scope'[s] = q
      /\ \A r \in Scopes : /\ r # s => scope'[r] = scope[r]
                           /\ scope'[r].children = scope[r].children
                           /\ scope'[r].refs = scope[r].refs
                           /\ scope'[r].value = scope[r].value
  <2>1. scope' \in [Scopes -> ScopeRec] /\ scope'[s] = q /\ \A r \in Scopes : r # s => scope'[r] = scope[r]
    BY <1>1, <1>4, <1>5
  <2> QED
    BY <1>4, <2>1
<1>8. /\ act' \in [Actors -> ActRec] /\ \A b \in Actors : b # x => act'[b] = act[b]
      /\ act'[x] = l
  <2>1. x \in Actors /\ act \in [Actors -> ActRec]
    BY <1>1
  <2> QED
    BY <1>5, <1>6, <2>1
<1>9. \A d \in Tasks : Evolves(task[d], task'[d], Gain(x, d))
  BY <1>1, <1>6, <1>7, <1>8, ScopesStay, GainZero
<1>10. Types'
  BY <1>1, <1>7, <1>8 DEF Types
<1>11. GoesOn
  BY <1>3, <1>4, <1>7, <1>9 DEF GoesOn, Evolves
<1>12. RefsExact'
  <2>1. \A r \in Scopes : HoldsScope(act'[x], r) <=> HoldsScope(act[x], r)
    BY <1>1, <1>6, <1>8 DEF HoldsScope, HoldPCs
  <2> QED
    BY <1>1, <1>6, <1>7, <1>8, <1>9, <1>10, <2>1, RefsStill DEF ScopeIInv
<1>13. LocalInv' /\ WalkInv' /\ OwnerInv'
  <2>1. LocalOK(act'[x])
    BY <1>6, <1>8 DEF LocalOK
  <2>2. Walk(x)'
    BY <1>3, <1>4, <1>6, <1>7, <1>8 DEF Walk
  <2>3. \A r \in Scopes : scope[r].value = 1 =>
               /\ scope'[r].value = 1
               /\ scope[r].state = "Closing" => scope'[r].state = "Closing"
               /\ scope'[r].children \subseteq scope[r].children
    BY <1>3, <1>4, <1>7 DEF Refusing
  <2> QED
    BY <1>1, <1>6, <1>8, <1>11, <2>1, <2>2, <2>3, WalkFrame
<1>14. ReachInv'
  <2>1. \A r \in parent'.cancel_scopes :
            /\ r \in parent.cancel_scopes
            /\ scope'[r].children \subseteq scope[r].children
            /\ PendingAt(act[x], r) => PendingAt(act'[x], r)
    BY <1>1, <1>6, <1>7, <1>8 DEF PendingAt, Types, ParentRec
  <2> QED
    BY <1>1, <1>8, <1>11, <2>1, ReachFrame
<1>15. ScopeInv'
  BY <1>2, <1>3, <1>4, <1>7 DEF ScopeIInv, ScopeInv, Refusing
<1>16. TaskInv'
  <2>1. \A d : Kept(d) => Kept(d)'
    BY <1>1, <1>7, <1>8 DEF Kept
  <2>2. act'[Owner] = act[Owner]
    BY <1>1, <1>8, Finite
  <2> QED
    BY <1>1, <1>7, <2>1, <2>2 DEF ScopeIInv, TaskInv
<1> QED
  BY <1>1, <1>10, <1>12, <1>13, <1>14, <1>15, <1>16 DEF ScopeIInv, NoAbort

-----------------------------------------------------------------------------
(* The theorems.                                                           *)

\* The first state satisfies the invariant: nobody holds anything.
LEMMA ScopeInit == Init => ScopeIInv
<1> SUFFICES ASSUME Init PROVE ScopeIInv
  OBVIOUS
<1>1. /\ \A c \in Tasks : /\ task[c] \in TaskRec /\ task[c].state = "Created" /\ task[c].refs = 1
                          /\ task[c].owner = "Consumer" /\ task[c].owner_released = 0
                          /\ task[c].result = "None" /\ task[c].detached = 0
      /\ task \in [Tasks -> TaskRec]
  BY DEF Init, TaskRec, Terminal
<1>2. /\ \A s \in Scopes : /\ scope[s] \in ScopeRec /\ scope[s].state = "Unused"
                           /\ scope[s].refs = 0 /\ scope[s].value = 0 /\ scope[s].children = {}
      /\ scope \in [Scopes -> ScopeRec]
  BY DEF Init, ScopeRec
<1>3. /\ parent \in ParentRec /\ parent.refs = 1 /\ parent.cancel_requested = 0
      /\ parent.cancel_scopes = {} /\ parent.cancel_children = {}
  BY DEF Init, ParentRec
<1>4. /\ Resting \in ActRec /\ Resting.pc = "idle" /\ Resting.op = "none" /\ Resting.scope = None
      /\ Resting.scopes = {} /\ Resting.kids = {}
  BY DEF Resting, ActRec, PCs, Ops
<1>5. act \in [Actors -> ActRec] /\ \A a \in Actors : act[a] = Resting
  BY <1>4 DEF Init
<1>6. Types
  BY <1>1, <1>2, <1>3, <1>5, ScopeAssumption DEF Types, Init
<1>7. LocalInv /\ OwnerInv /\ ScopeInv /\ WalkInv /\ ReachInv /\ NoAbort
  <2>1. LocalInv
    BY <1>4, <1>5, Finite DEF LocalInv, LocalOK
  <2>2. OwnerInv
    BY <1>4, <1>5, Finite DEF OwnerInv
  <2>3. WalkInv
    BY <1>4, <1>5, Finite DEF WalkInv, Walk, HoldPCs
  <2> QED
    BY <1>2, <1>3, <2>1, <2>2, <2>3 DEF Init, ScopeInv, ReachInv, NoAbort
<1>8. TaskInv
  BY <1>1, <1>2 DEF TaskInv, TaskLocal, Due
<1>9. RefsExact
  <2>1. /\ Cardinality({}) = 0
        /\ \A c \in Tasks : InScopes(c) = {} /\ OnLists(c) = {}
        /\ \A s \in Scopes : AtScope(s) = {}
        /\ Retiring = {} /\ Walking = {}
    <3>1. \A c \in Tasks : InScopes(c) = {} /\ OnLists(c) = {}
      BY <1>2, <1>4, <1>5 DEF InScopes, OnLists
    <3>2. \A s \in Scopes : AtScope(s) = {}
      BY <1>4, <1>5, Finite, ScopeAssumption DEF AtScope, HoldsScope
    <3>3. Retiring = {} /\ Walking = {}
      BY <1>4, <1>5, Finite DEF Retiring, Walking
    <3> QED
      BY <3>1, <3>2, <3>3, FS_EmptySet
  <2>2. \A c \in Tasks : task[c].refs = Holders(c)
    <3> SUFFICES ASSUME NEW c \in Tasks PROVE task[c].refs = Holders(c)
      OBVIOUS
    <3>1. OwnerHolds(task[c]) = 1 /\ One(c \in parent.cancel_children) = 0
      BY <1>1, <1>3 DEF OwnerHolds, One
    <3>2. Cardinality(InScopes(c)) = 0 /\ Cardinality(OnLists(c)) = 0
      BY <2>1
    <3>3. Holders(c) = OwnerHolds(task[c]) + One(c \in parent.cancel_children)
                       + Cardinality(InScopes(c)) + Cardinality(OnLists(c))
      BY HoldersAre
    <3> QED
      BY <1>1, <3>1, <3>2, <3>3
  <2>3. \A s \in Scopes : /\ scope[s].refs = ScopeHolders(s)
                          /\ s \in parent.cancel_scopes <=> scope[s].refs > 0
    <3> SUFFICES ASSUME NEW s \in Scopes
                 PROVE  /\ scope[s].refs = ScopeHolders(s)
                        /\ s \in parent.cancel_scopes <=> scope[s].refs > 0
      OBVIOUS
    <3>1. Cardinality(AtScope(s)) = 0 /\ scope[s].refs = 0 /\ scope[s].value = 0
      BY <1>2, <2>1
    <3>2. ScopeHolders(s) = scope[s].value + Cardinality(AtScope(s))
      BY HoldersAre
    <3> QED
      BY <1>3, <3>1, <3>2
  <2>4. parent.refs = ParentHolders
    BY <1>3, <1>4, <1>5, <2>1, HoldersAre, Finite DEF One
  <2> QED
    BY <2>2, <2>3, <2>4 DEF RefsExact
<1> QED
  BY <1>6, <1>7, <1>8, <1>9 DEF ScopeIInv

\* Every step keeps the invariant.
LEMMA ScopeStep == ScopeIInv /\ [Next]_vars => ScopeIInv'
<1> SUFFICES ASSUME ScopeIInv, [Next]_vars PROVE ScopeIInv'
  OBVIOUS
<1>1. CASE Use
  <2>1. ASSUME NEW s \in Scopes, NewScope(s) PROVE ScopeIInv'
    BY <2>1, NewScopeStep
  <2>2. ASSUME NEW s \in Scopes,
               \/ CancelAll(s) \/ Join(s) \/ CancelAndJoin(s) \/ DropScope(s)
               \/ Close(s) \/ Shutdown(s)
        PROVE  ScopeIInv'
    BY <2>2, BeginSteps
  <2>3. ASSUME NEW s \in Scopes, ReapFinished(s) PROVE ScopeIInv'
    BY <2>3, ReapSteps
  <2>4. ASSUME NEW s \in Scopes, NEW c \in Tasks, SpawnInto(s, c) \/ SpawnScoped(s, c)
        PROVE  ScopeIInv'
    BY <2>4, EnrolledStep, RefusedStep
  <2>5. ASSUME NEW c \in Tasks,
               \/ TakeResult(c) \/ DropHandle(c)
               \/ RegisterCancelChild(c) \/ UnregisterCancelChild(c)
        PROVE  ScopeIInv'
    BY <2>5, RecordSteps, DropSteps
  <2> QED
    BY <1>1, <2>1, <2>2, <2>3, <2>4, <2>5, HandleStep DEF Use
<1>2. CASE Proceed
  <2>1. ASSUME NEW a \in Actors, CancelAllSnapshot(a) PROVE ScopeIInv'
    BY <2>1, SnapshotStep
  <2>2. ASSUME NEW a \in Actors, ScopeRelease(a) PROVE ScopeIInv'
    BY <2>2, ScopeReleaseStep
  <2>3. ASSUME NEW a \in Actors, OrphanDetach(a) PROVE ScopeIInv'
    BY <2>3, OrphanDetachStep
  <2>4. ASSUME NEW a \in Actors, ReleaseEnds(a) PROVE ScopeIInv'
    BY <2>4, ReleaseSteps
  <2>5. ASSUME NEW a \in Actors, NEW c \in Tasks, SweepChild(a, c) \/ OrphanCancel(a, c)
        PROVE  ScopeIInv'
    BY <2>5, SweepStep, OrphanCancelStep
  <2>6. ASSUME NEW c \in Tasks, \/ Dispose(c)
                                \/ DropClaims(c) \/ DropMarks(c) \/ DropCancels(c)
        PROVE  ScopeIInv'
    BY <2>6, DisposeStep, DropSteps
  <2>7. ASSUME NEW x \in Cancellers, SnapshotLists(x) PROVE ScopeIInv'
    BY <2>7, SnapshotListsStep
  <2>8. ASSUME NEW x \in Cancellers, WalkEnds(x) PROVE ScopeIInv'
    BY <2>8, ReleaseSteps
  <2>9. ASSUME NEW x \in Cancellers, NEW s \in Scopes, CloseScope(x, s) PROVE ScopeIInv'
    BY <2>9, CloseScopeStep
  <2> QED
    BY <1>2, <2>1, <2>2, <2>3, <2>4, <2>5, <2>6, <2>7, <2>8, <2>9, JoinSteps, ReapSteps
       DEF Proceed
<1>3. CASE \E c \in Tasks : EndChild(c)
  BY <1>3, RecordSteps
<1>4. CASE ParentEnds
  BY <1>4, ReleaseSteps
<1>5. CASE \E x \in Cancellers : RequestCancel(x)
  BY <1>5, RequestStep
<1>6. CASE UNCHANGED vars
  <2>1. UNCHANGED <<task, scope, parent, act, abort, cancels>>
    BY <1>6 DEF vars
  <2>2. /\ Types' /\ LocalInv' /\ OwnerInv' /\ ScopeInv' /\ WalkInv' /\ NoAbort'
    BY <2>1 DEF ScopeIInv, Types, LocalInv, OwnerInv, IsDone, ScopeInv, WalkInv, Walk, AskedOf,
                AllAsked, NoAbort
  <2>3. TaskInv' /\ ReachInv'
    BY <2>1 DEF ScopeIInv, TaskInv, Kept, ReachInv, AllAsked, Pending
  <2>4. RefsExact'
    BY <2>1 DEF ScopeIInv, RefsExact, Holders, ScopeHolders, ParentHolders
  <2> QED
    BY <2>2, <2>3, <2>4 DEF ScopeIInv
<1> QED
  BY <1>1, <1>2, <1>3, <1>4, <1>5, <1>6 DEF Next

\* The inductive invariant holds in every reachable state.
THEOREM ScopeIInvHolds == Spec => []ScopeIInv
  BY ScopeInit, ScopeStep, PTL DEF Spec

\* The counts of the type invariant are natural numbers because they are exact.
LEMMA ScopeTypes == ScopeIInv => TypeOK
<1> SUFFICES ASSUME ScopeIInv PROVE TypeOK
  OBVIOUS
<1>1. Types /\ RefsExact
  BY DEF ScopeIInv
<1>2. \A c \in Tasks : task[c].refs \in Nat
  <2> SUFFICES ASSUME NEW c \in Tasks PROVE task[c].refs \in Nat
    OBVIOUS
  <2>1. task[c].refs = OwnerHolds(task[c]) + One(c \in parent.cancel_children)
                       + Cardinality(InScopes(c)) + Cardinality(OnLists(c))
    BY <1>1, HoldersAre DEF RefsExact
  <2>2. /\ OwnerHolds(task[c]) \in Nat /\ One(c \in parent.cancel_children) \in Nat
        /\ Cardinality(InScopes(c)) \in Nat /\ Cardinality(OnLists(c)) \in Nat
    BY Sizes DEF OwnerHolds, One
  <2> QED
    BY <2>1, <2>2
<1>3. \A s \in Scopes : scope[s].refs \in Nat
  BY ScopeHeld
<1>4. parent.refs \in Nat
  <2>1. parent.refs = One(act[Owner].pc # "ended") + Cardinality(parent.cancel_scopes)
                      + Cardinality(Retiring) + Cardinality(Walking)
    BY <1>1, HoldersAre DEF RefsExact
  <2>2. /\ One(act[Owner].pc # "ended") \in Nat /\ Cardinality(Retiring) \in Nat
        /\ Cardinality(Walking) \in Nat
    BY Sizes DEF One
  <2>3. Cardinality(parent.cancel_scopes) \in Nat
    BY <1>1, Finite, FS_Subset, FS_CardinalityType DEF Types, ParentRec
  <2> QED
    BY <2>1, <2>2, <2>3
<1>5. \A t \in TaskRec : t.refs \in Nat =>
         t \in [state : {"Created", "Running"} \cup Terminal,
                refs : Nat, cancel_requested : {0, 1},
                owner : {"Consumer", "Scope", "Detached"},
                detached : {0, 1}, owner_released : {0, 1},
                handle : {0, 1}, started : {0, 1},
                result : {"None", "Live", "Taken", "Dropped"}]
  BY DEF TaskRec
<1>6. \A t \in ScopeRec : t.refs \in Nat =>
         t \in [state : {"Unused", "Open", "Closing", "Closed"},
                refs : Nat, value : {0, 1}, children : SUBSET Tasks]
  BY DEF ScopeRec
<1>7. \A t \in ParentRec : t.refs \in Nat =>
         t \in [refs : Nat, cancel_requested : {0, 1},
                cancel_scopes : SUBSET Scopes, cancel_children : SUBSET Tasks]
  BY DEF ParentRec
<1> QED
  BY <1>1, <1>2, <1>3, <1>4, <1>5, <1>6, <1>7 DEF TypeOK, Types, ActRec

\* Type correctness: no reference count of toka_rt.c runs below zero.
THEOREM ScopeTypeCorrect == Spec => []TypeOK
  BY ScopeIInvHolds, ScopeTypes, PTL

\* No call of the scope protocol aborts the process, for any number of children,
\* scopes and callers of request_cancel: toka_task_scope_release never finds a
\* count of zero, the snapshot of a cancellation never finds a dead scope on the
\* parent's list, and finish_close never finds a live child.
THEOREM ScopeNeverAborts == Spec => []NoAbort
<1>1. ScopeIInv => NoAbort
  BY DEF ScopeIInv
<1> QED
  BY <1>1, ScopeIInvHolds, PTL

\* The reference counts of children, scopes and the parent are the numbers of
\* their holders, and the parent's weak list names the scopes that are alive.
THEOREM ScopeRefsExact == Spec => []RefsExact
<1>1. ScopeIInv => RefsExact
  BY DEF ScopeIInv
<1> QED
  BY <1>1, ScopeIInvHolds, PTL

\* A child nobody refers to any more has had its result consumed.
THEOREM ScopeResultsDisposed == Spec => []ResultsDisposed
<1>1. ScopeIInv => ResultsDisposed
  <2> SUFFICES ASSUME ScopeIInv, NEW c \in Tasks, task[c].refs = 0
               PROVE  task[c].result # "Live"
    BY DEF ResultsDisposed
  <2>1. /\ TaskLocal(task[c]) /\ (Due(task[c]) => Kept(c)) /\ task[c] \in TaskRec
    BY DEF ScopeIInv, TaskInv, Types
  <2>2. task[c].refs = OwnerHolds(task[c]) + One(c \in parent.cancel_children)
                       + Cardinality(InScopes(c)) + Cardinality(OnLists(c))
    BY HoldersAre DEF ScopeIInv, RefsExact
  <2>3. /\ OwnerHolds(task[c]) \in Nat /\ One(c \in parent.cancel_children) \in Nat
        /\ Cardinality(InScopes(c)) \in Nat /\ Cardinality(OnLists(c)) \in Nat
    BY Sizes DEF OwnerHolds, One
  <2>4. OwnerHolds(task[c]) = 0 /\ Cardinality(InScopes(c)) = 0 /\ Cardinality(OnLists(c)) = 0
    <3>1. /\ OwnerHolds(task[c]) <= 0 /\ Cardinality(InScopes(c)) <= 0
          /\ Cardinality(OnLists(c)) <= 0
      BY <2>2, <2>3
    <3> QED
      BY <2>3, <3>1
  <2>5. ~Kept(c)
    <3>1. ~(1 <= 0)
      OBVIOUS
    <3> QED
      BY <2>4, <3>1, Sizes DEF Kept
  <2>6. task[c].owner = "Scope" \/ task[c].owner_released = 1
    BY <2>1, <2>4 DEF OwnerHolds, One, TaskRec
  <2> QED
    BY <2>1, <2>5, <2>6 DEF TaskLocal, Due
<1> QED
  BY <1>1, ScopeIInvHolds, PTL

\* No child slips through a cancellation: a child is enrolled before the walk
\* lists it or is refused, whatever interleaves.
THEOREM ScopeCancelReaches == Spec => []CancelReachesChildren
<1>1. ScopeIInv => CancelReachesChildren
  <2> SUFFICES ASSUME ScopeIInv PROVE CancelReachesChildren
    OBVIOUS
  <2>1. ASSUME NEW x \in Cancellers, act[x].pc = "release" PROVE AllAsked(act[x].scope)
    <3>1. LocalOK(act[x]) /\ Walk(x)
      BY Finite DEF ScopeIInv, LocalInv, WalkInv
    <3> QED
      BY <2>1, <3>1 DEF LocalOK, Walk, HoldPCs
  <2>2. ASSUME parent.cancel_requested = 1, \A x \in Cancellers : act[x].pc = "idle",
               NEW s \in parent.cancel_scopes
        PROVE  AllAsked(s)
    <3>1. \A x \in Cancellers : act[x].scopes = {}
      <4>1. \A x \in Cancellers : LocalOK(act[x])
        BY Finite DEF ScopeIInv, LocalInv
      <4> QED
        BY <2>2, <4>1 DEF LocalOK
    <3>2. ~Pending(s)
      BY <2>2, <3>1 DEF Pending, PendingAt
    <3> QED
      BY <2>2, <3>2 DEF ScopeIInv, ReachInv
  <2> QED
    BY <2>1, <2>2 DEF CancelReachesChildren
<1> QED
  BY <1>1, ScopeIInvHolds, PTL
=============================================================================
