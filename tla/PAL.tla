-------------------------------- MODULE PAL --------------------------------
(***************************************************************************)
(* The borrow checker of the Toka compiler: the Path-Anchored Ledger       *)
(* (PALChecker) as Sema drives it over one function.                       *)
(*                                                                         *)
(* A behaviour is the analysis of one accepted program, statement by       *)
(* statement, by code that goes once through every arm of every branch.    *)
(* A rejected operation ends the compilation, so acceptance is the guard   *)
(* of an action.  Beside the analysis runs ONE execution of the program:   *)
(* for every branch it takes one arm, for every loop it runs the body once *)
(* or not at all, and `loans` are the references that are really held on   *)
(* that execution.  The ledger never sees which arm is taken; the          *)
(* properties compare what it knows with what is really lent.              *)
(***************************************************************************)
EXTENDS Naturals, Sequences

CONSTANTS Roots,      \* variables that can be borrowed
          Paths,      \* access paths, [root, proj]
          Indices,    \* elements of an array: the values a dynamic index takes
          Refs,       \* reference variables
          Values,     \* variables of types that carry borrows inside
          DropReads,  \* the Values whose destructor reads what they carry
          MaxDepth,   \* bound on nested scopes
          MaxOps,     \* bound on the length of the program
          Reborrows,  \* 1 if the program borrows what an entry already names
          AliasedFors,\* 1 if a loop with a writable alias runs over a collection
                      \* that an entry already names
          Temp        \* holder of the borrows of one statement

ASSUME PALAssumption ==
    /\ \A p \in Paths : p.root \in Roots /\ Len(p.proj) \in Nat
    /\ Paths # {}
    /\ \A x \in Roots : [root |-> x, proj |-> <<>>] \in Paths
    /\ DropReads \subseteq Values
    /\ Refs \cap Values = {} /\ Roots \cap Refs = {} /\ Temp \notin Refs \cup Values
    /\ MaxDepth \in Nat \ {0}
    /\ MaxOps \in Nat
    /\ Reborrows \in {0, 1} /\ AliasedFors \in {0, 1}

VARIABLES pal,     \* PALChecker: LedgerStack, CarrierStack, TransientBorrows;
                   \* with it the moved flags, which Sema snapshots with it
          scopes,  \* Scope chain: the variables declared at each level
          flow,    \* open blocks, if and for expressions
          stmt,    \* "open" inside a statement
          dead,    \* roots whose scope was left
          loans,   \* the execution: references held, [holder, path, mode]
          exec,    \* the execution: "on", or "gone" once it returned
          clash,   \* accepted operations that hit a loan really held
          ops      \* length of the program so far

vars == <<pal, scopes, flow, stmt, dead, loans, exec, clash, ops>>

PathStates == {"Free", "Shared", "Mut"}
Modes == {"Shared", "Mut"}
Holders == Refs \cup Values
PALStates == [ledger : Seq([Paths -> PathStates]),
              carriers : Seq([Values -> SUBSET Paths]),
              transient : SUBSET Paths, moved : SUBSET Roots]

TypeOK ==
    /\ pal \in PALStates
    /\ scopes \in Seq(Seq(Roots \cup Holders))
    /\ Len(pal.ledger) = Len(scopes) /\ Len(pal.carriers) = Len(scopes)
    /\ stmt \in {"none", "open"}
    /\ dead \subseteq Roots
    /\ loans \subseteq [holder : Holders \cup {Temp}, path : Paths, mode : Modes]
    /\ exec \in {"on", "gone"}
    /\ clash \subseteq {"borrow", "access", "move", "drop", "flagged"}
    /\ ops \in 0..MaxOps

NoLedger == [p \in Paths |-> "Free"]
NoCarriers == [v \in Values |-> {}]

Init ==
    /\ pal = [ledger |-> <<NoLedger>>, carriers |-> <<NoCarriers>>,
              transient |-> {}, moved |-> {}]
    /\ scopes = << <<>> >>
    /\ flow = <<>>
    /\ stmt = "none"
    /\ dead = {}
    /\ loans = {}
    /\ exec = "on"
    /\ clash = {}
    /\ ops = 0

-----------------------------------------------------------------------------
(* Access paths.                                                           *)

Shorter(p, q) == IF Len(p) <= Len(q) THEN Len(p) ELSE Len(q)

\* Mutant: two different index projections are taken for different elements.
OverlapMutant(p, q) ==
    /\ p.root = q.root
    /\ \A i \in 1..Shorter(p.proj, q.proj) : p.proj[i] = q.proj[i]

\* classifyAccessPathOverlap, where only NoOverlap matters: two paths are
\* apart when at one place they take different fields or constant indexes.
Overlap(p, q) ==
    /\ p.root = q.root
    /\ \A i \in 1..Shorter(p.proj, q.proj) :
         \/ p.proj[i] = q.proj[i]
         \/ p.proj[i].kind # q.proj[i].kind
         \/ p.proj[i].kind = "dynamic"

\* accessPathIsLegacyPrefix
IsPrefixPath(p, q) ==
    /\ p.root = q.root
    /\ Len(p.proj) <= Len(q.proj)
    /\ \A i \in 1..Len(p.proj) : p.proj[i] = q.proj[i]

Element(i) == [kind |-> "constant", name |-> i]

\* What a path stands for when the program runs: every dynamic index has
\* some value.  Two paths alias when they can name storage of each other.
Places(p) ==
    {c \in [1..Len(p.proj) -> {p.proj[i] : i \in 1..Len(p.proj)}
                                \cup {Element(n) : n \in Indices}] :
        \A i \in 1..Len(p.proj) :
          IF p.proj[i].kind = "dynamic" THEN \E n \in Indices : c[i] = Element(n)
                                        ELSE c[i] = p.proj[i]}
Aliases(p, q) ==
    /\ p.root = q.root
    /\ \E c \in Places(p), d \in Places(q) :
         \A i \in 1..Shorter(p.proj, q.proj) : c[i] = d[i]

-----------------------------------------------------------------------------
(* PALChecker.                                                             *)

Levels(s) == 1..Len(s.ledger)
Whole(x) == [root |-> x, proj |-> <<>>]
Carried(s) == UNION {s.carriers[k][v] : k \in Levels(s), v \in Values}

\* verifyAccess
VerifyAccess(s, p) ==
    \A k \in Levels(s), q \in Paths : s.ledger[k][q] = "Mut" => ~Overlap(q, p)

\* Mutant: what values carry is not looked at.
VerifyInvalidationMutant(s, p) ==
    \A k \in Levels(s), q \in Paths : s.ledger[k][q] # "Free" => ~Overlap(q, p)

\* verifyExclusiveMutation, verifyInvalidation
VerifyInvalidation(s, p) ==
    /\ \A k \in Levels(s), q \in Paths :
         s.ledger[k][q] # "Free" => ~Overlap(q, p)
    /\ \A q \in Carried(s) : ~Overlap(q, p)

\* verifyPayloadWrite
VerifyPayloadWrite(s, p) ==
    /\ VerifyAccess(s, p)
    /\ \A k \in Levels(s), q \in Paths :
         s.ledger[k][q] = "Shared" => (q = p \/ ~IsPrefixPath(p, q))
    /\ \A q \in Carried(s) : ~Overlap(q, p)

\* recordBorrow: when it succeeds, and the checker after it
CanRecord(s, p, mode) ==
    IF mode = "Mut" THEN VerifyInvalidation(s, p) ELSE VerifyAccess(s, p)
Recorded(s, p, mode) ==
    [s EXCEPT !.ledger[Len(s.ledger)][p] = mode, !.transient = @ \cup {p}]

\* getState
GetState(s, p) ==
    IF \A k \in Levels(s) : s.ledger[k][p] = "Free" THEN "Free" ELSE "Held"

\* commitTransient: the innermost entry of p is copied to the binding's
\* level, and no marker of p is left for the end of the statement.
Committed(s, p, level) ==
    LET at == {k \in level..Len(s.ledger) : s.ledger[k][p] # "Free"}
        from == CHOOSE k \in at : \A j \in at : j <= k
        keep == IF at = {} THEN s.ledger[level][p]
                ELSE IF s.ledger[level][p] = "Free" \/ s.ledger[from][p] = "Mut"
                       THEN s.ledger[from][p]
                ELSE s.ledger[level][p]
    IN  [s EXCEPT !.ledger[level][p] = keep, !.transient = @ \ {p}]

\* clearTransient: only the innermost map is cleaned
Cleared(s) ==
    [s EXCEPT !.ledger[Len(s.ledger)] =
                  [p \in Paths |-> IF p \in s.transient THEN "Free" ELSE @[p]],
              !.transient = {}]

\* releaseBorrow
ReleasedBorrow(s, p) ==
    [s EXCEPT !.ledger = [k \in Levels(s) |-> [s.ledger[k] EXCEPT ![p] = "Free"]],
              !.transient = @ \ {p}]

\* releaseCarrierBorrows
ReleasedCarrier(s, v) ==
    [s EXCEPT !.carriers =
        [k \in Levels(s) |-> [s.carriers[k] EXCEPT ![v] = {}]]]

\* replaceCarrierBorrows and accumulateCarrierBorrows, for a holder declared
\* at the given level
ReplacedCarrier(s, v, sources, level) ==
    [ReleasedCarrier(s, v) EXCEPT !.carriers[level][v] = sources]
AccumulatedCarrier(s, v, sources, level) ==
    LET has == {k \in Levels(s) : s.carriers[k][v] # {}}
        at == IF has = {} THEN level ELSE CHOOSE k \in has : \A j \in has : k <= j
    IN  [s EXCEPT !.carriers[at][v] = @ \cup sources]

\* markMoved of a whole variable
MarkedMoved(s, x) ==
    [s EXCEPT
        !.ledger = [k \in Levels(s) |->
                      [p \in Paths |-> IF IsPrefixPath(Whole(x), p) THEN "Free"
                                       ELSE s.ledger[k][p]]],
        !.moved = @ \cup {x}]

\* pushScope and popScope
Pushed(s) == [s EXCEPT !.ledger = Append(@, NoLedger),
                       !.carriers = Append(@, NoCarriers)]
Popped(s) == [s EXCEPT !.ledger = SubSeq(@, 1, Len(@) - 1),
                       !.carriers = SubSeq(@, 1, Len(@) - 1)]

Join(a, b) == IF "Mut" \in {a, b} THEN "Mut"
              ELSE IF "Shared" \in {a, b} THEN "Shared" ELSE "Free"

\* Mutant: an entry is kept only when both branches have it.
MergedMutant(a, b) ==
    [a EXCEPT !.ledger = [k \in Levels(a) |-> [p \in Paths |->
        IF "Free" \in {a.ledger[k][p], b.ledger[k][p]} THEN "Free"
        ELSE Join(a.ledger[k][p], b.ledger[k][p])]]]

\* mergeBranches, both branches reaching the join
Merged(a, b) ==
    [ledger |-> [k \in Levels(a) |-> [p \in Paths |->
        Join(a.ledger[k][p], b.ledger[k][p])]],
     carriers |-> [k \in Levels(a) |-> [v \in Values |->
        a.carriers[k][v] \cup b.carriers[k][v]]],
     transient |-> a.transient \cup b.transient,
     moved |-> a.moved \cup b.moved]

-----------------------------------------------------------------------------
(* The program: scopes, declarations and the execution followed.           *)

Depth == Len(scopes)
Declared(k) == {scopes[k][i] : i \in 1..Len(scopes[k])}
Visible == UNION {Declared(k) : k \in 1..Depth}
LevelOf(n) == CHOOSE k \in 1..Depth : n \in Declared(k)
PlaceOf(n, k) == CHOOSE i \in 1..Len(scopes[k]) : scopes[k][i] = n
Usable(p) == p.root \in Visible /\ p.root \notin pal.moved

WithDeclared(n) == [scopes EXCEPT ![Depth] = Append(@, n)]

\* The execution passes through the point the analysis is at.
Live == /\ exec = "on"
        /\ \A i \in 1..Len(flow) : flow[i].arm = flow[i].runs

\* What is really lent here: the loans of variables and of the statement,
\* and the collections the running `for` loops iterate over.
Held ==
    loans \cup {[holder |-> Temp, path |-> flow[i].source, mode |-> flow[i].mode] :
                  i \in {j \in 1..Len(flow) : flow[j].kind = "for"}}

Hits(p) == {l \in Held : Aliases(l.path, p)}
HitsOf(p, mode) == {l \in Hits(p) : mode = "Mut" \/ l.mode = "Mut"}
Report(kind, hits) == clash' = IF Live /\ hits # {} THEN clash \cup {kind}
                                                    ELSE clash

LoansOf(h, sources, mode) == {[holder |-> h, path |-> p, mode |-> mode] : p \in sources}
Without(hs) == {l \in loans : l.holder \notin hs}
SetLoans(new) == loans' = IF Live THEN new ELSE loans

\* An operation makes the program longer; what ends one does not.  Once the
\* execution followed has returned there is nothing left to compare.
Grow == exec = "on" /\ ops < MaxOps /\ ops' = ops + 1
Stay == exec = "on" /\ ops' = ops

\* A variable declaration (Scope::define)
DeclareRoot(x) ==
    /\ Stay
    /\ stmt = "none"
    /\ x \notin Visible \cup dead
    /\ scopes' = WithDeclared(x)
    /\ UNCHANGED <<pal, flow, stmt, dead, loans, exec, clash>>

\* Does the path already have the entry this borrow would share?
Fresh(p, level) ==
    \/ Reborrows = 1
    \/ /\ pal.ledger[level][p] = "Free"
       /\ \A i \in 1..Len(flow) :
            ~(flow[i].kind = "for" /\ flow[i].added = 1 /\ flow[i].source = p)

-----------------------------------------------------------------------------
(* Statements.                                                             *)

\* `&p` or `&#p` as an argument: the borrow lasts to the end of the statement
Borrow(p, mode) ==
    /\ Grow
    /\ Usable(p)
    /\ p \in pal.transient \/ Reborrows = 1 \/ pal.ledger[Depth][p] = "Free"
    /\ CanRecord(pal, p, mode)
    /\ pal' = Recorded(pal, p, mode)
    /\ stmt' = "open"
    /\ Report("borrow", HitsOf(p, mode))
    /\ SetLoans(loans \cup LoansOf(Temp, {p}, mode))
    /\ UNCHANGED <<scopes, flow, dead, exec>>

\* The end of checkStmt
EndStmt ==
    /\ Stay
    /\ pal' = Cleared(pal)
    /\ stmt' = "none"
    /\ SetLoans(Without({Temp}))
    /\ UNCHANGED <<scopes, flow, dead, exec, clash>>

\* `auto &r = &p`: the loan is committed in the scope of the declaration
LetRef(r, p, mode) ==
    /\ Grow
    /\ r \notin Visible
    /\ Usable(p)
    /\ CanRecord(pal, p, mode)
    /\ pal' = Cleared(Committed(Recorded(pal, p, mode), p, Depth))
    /\ scopes' = WithDeclared(r)
    /\ stmt' = "none"
    /\ Report("borrow", HitsOf(p, mode))
    /\ SetLoans(Without({Temp}) \cup LoansOf(r, {p}, mode))
    /\ UNCHANGED <<flow, dead, exec>>

\* A source that dies before the reference is refused (getScopeDepth).
Outlives(p, r) == LevelOf(p.root) <= LevelOf(r)

\* `&r = &p` for a declared reference, from any depth below its scope.
AssignRef(r, p, mode) ==
    /\ Grow
    /\ r \in Visible
    /\ Usable(p)
    /\ Outlives(p, r)
    /\ Fresh(p, LevelOf(r))
    /\ CanRecord(pal, p, mode)
    /\ pal' = Cleared(Committed(Recorded(pal, p, mode), p, LevelOf(r)))
    /\ stmt' = "none"
    /\ Report("borrow", HitsOf(p, mode))
    /\ SetLoans(Without({Temp, r}) \cup LoansOf(r, {p}, mode))
    /\ UNCHANGED <<scopes, flow, dead, exec>>

\* A value that carries borrows is declared or assigned as a whole.
BindValue(v, sources) ==
    LET level == IF v \in Visible THEN LevelOf(v) ELSE Depth IN
    /\ Grow
    /\ \A p \in sources : Usable(p) /\ VerifyAccess(pal, p)
    /\ scopes' = IF v \in Visible THEN scopes ELSE WithDeclared(v)
    /\ pal' = Cleared(ReplacedCarrier(pal, v, sources, level))
    /\ stmt' = "none"
    /\ Report("borrow", UNION {HitsOf(p, "Shared") : p \in sources})
    /\ SetLoans(Without({Temp, v}) \cup LoansOf(v, sources, "Shared"))
    /\ UNCHANGED <<flow, dead, exec>>

\* A call stores one more borrow in a value (spawning into a TaskScope).
Accumulate(v, p) ==
    /\ Grow
    /\ v \in Visible
    /\ Usable(p)
    /\ VerifyAccess(pal, p)
    /\ pal' = Cleared(AccumulatedCarrier(pal, v, {p}, LevelOf(v)))
    /\ stmt' = "none"
    /\ Report("borrow", HitsOf(p, "Shared"))
    /\ SetLoans(Without({Temp}) \cup LoansOf(v, {p}, "Shared"))
    /\ UNCHANGED <<scopes, flow, dead, exec>>

\* `cede v`: the value is handed on and with it what it carried
CedeValue(v) ==
    /\ Grow
    /\ v \in Visible
    /\ pal' = ReleasedCarrier(pal, v)
    /\ stmt' = "open"
    /\ SetLoans(Without({v}))
    /\ UNCHANGED <<scopes, flow, dead, exec, clash>>

\* A variable is read, or its payload written.
Read(p) ==
    /\ Stay
    /\ Usable(p)
    /\ VerifyAccess(pal, p)
    /\ Report("access", HitsOf(p, "Shared"))
    /\ UNCHANGED <<pal, scopes, flow, stmt, dead, loans, exec>>

Write(p) ==
    /\ Stay
    /\ Usable(p)
    /\ VerifyPayloadWrite(pal, p)
    /\ Report("access", {l \in Hits(p) : \/ l.mode = "Mut"
                                         \/ l.holder \in Values
                                         \/ l.path # p /\ IsPrefixPath(p, l.path)})
    /\ UNCHANGED <<pal, scopes, flow, stmt, dead, loans, exec>>

\* A variable is moved out: verifyInvalidation, then markMoved.
Move(x) ==
    /\ Grow
    /\ Usable(Whole(x))
    /\ VerifyInvalidation(pal, Whole(x))
    /\ pal' = MarkedMoved(pal, x)
    /\ stmt' = "open"
    /\ Report("move", Hits(Whole(x)))
    /\ UNCHANGED <<scopes, flow, dead, loans, exec>>

-----------------------------------------------------------------------------
(* Scopes.                                                                 *)

\* Mutant: only holders of outer scopes are looked for.
SurvivesMutant(v, x, d) == LevelOf(v) < d

\* survivingCarrierBorrow: v is still there, or its destructor still runs,
\* when x of the scope d is destroyed (in reverse declaration order).
Survives(v, x, d) ==
    \/ LevelOf(v) < d
    \/ LevelOf(v) = d /\ v \in DropReads /\ PlaceOf(v, d) < PlaceOf(x, d)

\* checkCleanupScope: no source is destroyed under a value that carries it
CheckCleanupScope(d) ==
    \A x \in Declared(d) \cap (Roots \ pal.moved) :
      \A v \in Values \cap Visible :
        Survives(v, x, d) => \A k \in 1..d : \A q \in pal.carriers[k][v] :
                               ~Overlap(q, Whole(x))

\* The scopes that are left: a return leaves all of them (checkCleanupOnEdge).
Leaving(jump) == IF jump = 1 THEN 1..Depth ELSE {Depth}

\* The loans a destroyed variable is still needed for, when the program runs
DropHits(d) ==
    {l \in loans : /\ l.path.root \in Declared(d)
                   /\ l.holder # Temp
                   /\ \/ LevelOf(l.holder) < d
                      \/ /\ LevelOf(l.holder) = d /\ l.holder \in DropReads
                         /\ PlaceOf(l.holder, d) < PlaceOf(l.path.root, d)}

\* After a branch that moved it in one arm a variable counts as moved, and is
\* not looked at; where the other arm ran, its drop flag still destroys it.
DropKind(l) == IF l.path.root \in pal.moved THEN "flagged" ELSE "drop"

\* What leaving the innermost scope, or returning from it, does besides
\* popping the checker.
LeaveScope(jump) ==
    /\ Stay
    /\ stmt = "none"
    /\ \A d \in Leaving(jump) : CheckCleanupScope(d)
    /\ clash' = clash \cup {DropKind(l) : l \in
                   IF Live THEN UNION {DropHits(d) : d \in Leaving(jump)} ELSE {}}
    /\ dead' = dead \cup (Declared(Depth) \cap Roots)

\* Open a block: enterScope; the condition's borrows are over when it runs.
Enter(frame) ==
    /\ Grow
    /\ Depth < MaxDepth
    /\ Live \/ frame.runs = 1
    /\ flow' = Append(flow, frame)
    /\ scopes' = Append(scopes, <<>>)
    /\ stmt' = "none"
    /\ SetLoans(Without({Temp}))
    /\ UNCHANGED <<dead, exec>>

Frame(kind, run) ==
    [kind |-> kind, base |-> pal, first |-> pal, arm |-> 1, runs |-> run,
     jumped |-> 0, added |-> 0, source |-> CHOOSE p \in Paths : TRUE,
     mode |-> "Shared"]
Top == flow[Len(flow)]
PopFlow == flow' = SubSeq(flow, 1, Len(flow) - 1)
PopScopes == scopes' = SubSeq(scopes, 1, Depth - 1)

\* The checker when an arm ends: exitScope, and the clearTransient of the
\* block statement.
ArmEnd == Cleared(Popped(pal))

\* The execution at the end of an arm it took; a jump ends the function.
ArmLoans(jump) ==
    /\ SetLoans(IF jump = 1 THEN {} ELSE Without(Declared(Depth)))
    /\ exec' = IF Live /\ jump = 1 THEN "gone" ELSE exec

Block ==
    /\ stmt = "none"
    /\ Enter(Frame("block", 1))
    /\ pal' = Pushed(pal)
    /\ clash' = clash

EndBlock ==
    /\ flow # <<>> /\ Top.kind = "block"
    /\ LeaveScope(0)
    /\ pal' = ArmEnd
    /\ PopFlow /\ PopScopes
    /\ ArmLoans(0)
    /\ stmt' = stmt

If(run) ==
    /\ Enter(Frame("if", run))
    /\ pal' = Pushed(pal)
    /\ clash' = clash

\* The then-arm ends and an else-arm follows, from the ledger before the if.
Else(jump) ==
    /\ flow # <<>> /\ Top.kind = "if" /\ Top.arm = 1
    /\ LeaveScope(jump)
    /\ pal' = Pushed(Top.base)
    /\ flow' = [flow EXCEPT ![Len(flow)].arm = 2, ![Len(flow)].first = ArmEnd,
                            ![Len(flow)].jumped = jump]
    /\ scopes' = [scopes EXCEPT ![Depth] = <<>>]
    /\ ArmLoans(jump)
    /\ stmt' = stmt

\* The ledger after the if, by which arms reach its end
EndIf(jump) ==
    /\ flow # <<>> /\ Top.kind = "if" /\ Top.arm = 2
    /\ LeaveScope(jump)
    /\ pal' = Cleared(CASE Top.jumped = 1 /\ jump = 1 -> Top.base
                        [] Top.jumped = 1 /\ jump = 0 -> ArmEnd
                        [] Top.jumped = 0 /\ jump = 1 -> Top.first
                        [] OTHER -> Merged(Top.first, ArmEnd))
    /\ PopFlow /\ PopScopes
    /\ ArmLoans(jump)
    /\ stmt' = stmt

\* An if without else
EndThen(jump) ==
    /\ flow # <<>> /\ Top.kind = "if" /\ Top.arm = 1
    /\ LeaveScope(jump)
    /\ pal' = Cleared(IF jump = 1 THEN Top.base ELSE Merged(ArmEnd, Top.base))
    /\ PopFlow /\ PopScopes
    /\ ArmLoans(jump)
    /\ stmt' = stmt

\* `for` over a collection: the collection is lent to the loop, exclusively
\* if its variable is a writable alias, unless an entry of exactly its path is
\* there already.  (A loop over copies of an array's elements lends nothing:
\* to the ledger it is an `if` without else.)
For(p, mode, run) ==
    LET added == IF GetState(pal, p) = "Free" THEN 1 ELSE 0 IN
    /\ Usable(p)
    /\ mode = "Mut" => added = 1 \/ AliasedFors = 1
    /\ VerifyAccess(pal, p)
    /\ added = 1 => CanRecord(pal, p, mode)
    /\ pal' = Pushed(IF added = 1
                       THEN Committed(Recorded(pal, p, mode), p, Depth)
                       ELSE pal)
    /\ Report("borrow", HitsOf(p, mode))
    /\ Enter([Frame("for", run) EXCEPT !.source = p, !.added = added, !.mode = mode])

EndFor(jump) ==
    LET after == IF jump = 1 THEN Top.base ELSE Merged(ArmEnd, Top.base) IN
    /\ flow # <<>> /\ Top.kind = "for"
    /\ LeaveScope(jump)
    /\ pal' = Cleared(IF Top.added = 1 THEN ReleasedBorrow(after, Top.source)
                                       ELSE after)
    /\ PopFlow /\ PopScopes
    /\ ArmLoans(jump)
    /\ stmt' = stmt

Next ==
    \/ EndStmt \/ Block \/ EndBlock
    \/ \E x \in Roots : DeclareRoot(x) \/ Move(x)
    \/ \E p \in Paths : Read(p) \/ Write(p)
    \/ \E p \in Paths, mode \in Modes : Borrow(p, mode)
    \/ \E r \in Refs, p \in Paths, mode \in Modes :
         LetRef(r, p, mode) \/ AssignRef(r, p, mode)
    \/ \E v \in Values : CedeValue(v)
    \/ \E v \in Values : BindValue(v, {}) \/ \E p \in Paths : BindValue(v, {p})
    \/ \E v \in DropReads, p \in Paths : Accumulate(v, p)
    \/ \E run \in {1, 2} :
         If(run) \/ \E p \in Paths, mode \in Modes : For(p, mode, run)
    \/ \E jump \in {0, 1} :
         Else(jump) \/ EndIf(jump) \/ EndThen(jump) \/ EndFor(jump)

Spec == Init /\ [][Next]_vars

-----------------------------------------------------------------------------
(* Properties.                                                             *)

\* An entry of the ledger s answers for the loan to the end of its holder.
CoveredIn(s, l) ==
    \E k \in 1..(IF l.holder = Temp THEN Len(s.ledger) ELSE LevelOf(l.holder)) :
      IF l.holder \in Values THEN l.path \in s.carriers[k][l.holder]
      ELSE \/ s.ledger[k][l.path] = "Mut"
           \/ s.ledger[k][l.path] = "Shared" /\ l.mode = "Shared"

\* A reference that the program really holds is on record until the scope of
\* its holder ends, whatever was committed, cleared, merged or restored in
\* between (commitTransient, clearTransient, mergeBranches, releaseBorrow).
LoansCovered == Live => \A l \in Held : CoveredIn(pal, l)

\* No accepted borrow, loop, read or write meets a loan that really excludes
\* it, on an execution that runs every loop body at most once, of a program in
\* which a loop with a writable alias is over a collection no entry names yet
\* (recordBorrow, verifyAccess, verifyPayloadWrite and the path overlap they
\* use).  With AliasedFors = 1 the loop's exclusive loan is not recorded and
\* the claim fails.
NoAliasedWrite == clash \cap {"borrow", "access"} = {}

\* A body that runs again begins where it ended: it was judged from the ledger
\* before the loop, which would have to answer for every loan it leaves behind.
\* The code does not ask for that, so the properties above say nothing of a
\* second round (visitForExpr analyses the body once).
RoundsAgree ==
    [][EndFor(0) /\ Live => \A l \in loans' : CoveredIn(Top.base, l)]_vars

\* No accepted move takes a variable away under a reference or a value that
\* still reads it (verifyInvalidation before markMoved).
NoMoveOfLent == "move" \notin clash

\* No scope destroys a variable that a reference or a value outliving it, or
\* a destructor running after it, still reads, if the variable was moved in no
\* arm of a branch before (checkCleanupScope).
NoDangling == "drop" \notin clash

\* The same of a variable that was moved in the arm the execution did not take:
\* it is destroyed by its drop flag (checkCleanupScope skips it).
NoFlaggedDrop == "flagged" \notin clash

=============================================================================
