------------------------ MODULE ThreadHandoffProofs ------------------------
(***************************************************************************)
(* Proofs about ThreadHandoff, for every bound on the number of failures.  *)
(*                                                                         *)
(* The argument is one inductive invariant, IInv.  The safety properties   *)
(* talk about what the control block holds at the instant one of the two   *)
(* threads looks at it; IInv adds where each thread stands, because the    *)
(* same fields are legal at one program point and not at another.          *)
(***************************************************************************)
EXTENDS ThreadHandoff, TLAPS

\* The initial state of the protocol satisfies the inductive invariant.
LEMMA InitIInv == Init => IInv
  BY MaxFailuresAssumption
  DEF Init, IInv, TypeOK, NoRequireFails, ReferencesInv, NativeInv, ResultInv,
      UsesInv, OwnerCounted, WorkerCounted, WorkerRan, WorkerSettled, Native, Pointer,
      Result, Status, OwnerSteps, WorkerSteps

\* Every step of the owner and of the worker preserves it.
LEMMA NextIInv == IInv /\ [Next]_vars => IInv'
<1> SUFFICES ASSUME IInv, [Next]_vars PROVE IInv'
  OBVIOUS
<1> USE MaxFailuresAssumption
    DEF IInv, TypeOK, NoRequireFails, ReferencesInv, NativeInv, ResultInv,
        UsesInv, OwnerCounted, WorkerCounted, WorkerRan, WorkerSettled, Native, Pointer,
        Result, Status, OwnerSteps, WorkerSteps, Running, wrapper, block, caller
<1>1. CASE Prepare
  BY <1>1 DEF Prepare
<1>2. CASE PrepareFails
  BY <1>2 DEF PrepareFails, CanFail
<1>3. CASE DisposePrepared
  BY <1>3 DEF DisposePrepared
<1>4. CASE Start
  BY <1>4 DEF Start, InitialReferences
<1>5. CASE StartFails
  BY <1>5 DEF StartFails, CanFail
<1>6. CASE ClosedCall
  BY <1>6 DEF ClosedCall
<1>7. CASE BusyCall
  BY <1>7 DEF BusyCall
<1>8. CASE Join
  BY <1>8 DEF Join, Reserve
<1>9. CASE Detach
  BY <1>9 DEF Detach, Reserve
<1>10. CASE DropHandle
  BY <1>10 DEF DropHandle, Reserve
<1>11. CASE NativeJoinFails
  BY <1>11 DEF NativeJoinFails, KeepSlot, CanFail, RequireFails
<1>12. CASE NativeDetachFails
  BY <1>12 DEF NativeDetachFails, KeepSlot, CanFail, RequireFails
<1>13. CASE ConsumeOut
  BY <1>13 DEF ConsumeOut, ClearOut
<1>14. CASE StartReturns
  BY <1>14 DEF StartReturns, RequireFails
<1>15. CASE NativeJoin
  BY <1>15 DEF NativeJoin, WorkerTerminated
<1>16. CASE JoinCommit
  BY <1>16 DEF JoinCommit, RequireFails
<1>17. CASE NativeDetach
  BY <1>17 DEF NativeDetach
<1>18. CASE DetachCommit
  BY <1>18 DEF DetachCommit, RequireFails
<1>19. CASE OwnerDiscards
  BY <1>19 DEF OwnerDiscards
<1>20. CASE OwnerDisposes
  BY <1>20 DEF OwnerDisposes
<1>21. CASE OwnerReleases
  BY <1>21 DEF OwnerReleases, RequireFails, LastReference, Quiescent
<1>22. CASE OwnerDestroys
  BY <1>22 DEF OwnerDestroys
<1>23. CASE WorkerEnters
  BY <1>23 DEF WorkerEnters, RequireFails
<1>24. CASE RunOnce
  BY <1>24 DEF RunOnce
<1>25. CASE WorkerPublishes
  BY <1>25 DEF WorkerPublishes, RequireFails, WorkerOwnsResult
<1>26. CASE WorkerDiscards
  BY <1>26 DEF WorkerDiscards
<1>27. CASE WorkerDisposes
  BY <1>27 DEF WorkerDisposes
<1>28. CASE WorkerReleases
  BY <1>28 DEF WorkerReleases, RequireFails, LastReference, Quiescent
<1>29. CASE WorkerDestroys
  BY <1>29 DEF WorkerDestroys
<1>30. CASE Exited
  BY <1>30 DEF Exited, vars
<1>31. CASE UNCHANGED vars
  BY <1>31 DEF vars
<1> QED
  BY <1>1, <1>2, <1>3, <1>4, <1>5, <1>6, <1>7, <1>8, <1>9, <1>10, <1>11, <1>12, <1>13, <1>14, <1>15, <1>16, <1>17, <1>18, <1>19, <1>20, <1>21, <1>22, <1>23, <1>24, <1>25, <1>26, <1>27, <1>28, <1>29, <1>30, <1>31
  DEF Next, OwnerContinues, WorkerStep

\* The inductive invariant holds in every reachable state.
THEOREM IInvHolds == Spec => []IInv
  BY InitIInv, NextIInv, PTL DEF Spec

\* Every variable of the protocol keeps its type; in particular references
\* stays within 0..2 (the unsigned counter never wraps).
THEOREM TypeCorrect == Spec => []TypeOK
<1>1. IInv => TypeOK
  BY DEF IInv
<1> QED
  BY <1>1, IInvHolds, PTL

\* No require() of the protocol can fail, so the process exits only when an
\* implicit drop cannot detach.
THEOREM RequiresHold == Spec => []NoRequireFails
<1>1. IInv => NoRequireFails
  BY DEF IInv
<1> QED
  BY <1>1, IInvHolds, PTL

\* The control block is not freed while either side may still use it.
THEOREM NoUseAfterFree == Spec => []FreedMeansUnused
<1>1. IInv => FreedMeansUnused
  BY DEF IInv, FreedMeansUnused, TypeOK, ReferencesInv, OwnerCounted, Pointer,
         WorkerCounted
<1> QED
  BY <1>1, IInvHolds, PTL

\* The environment and the result are each consumed at most once.
THEOREM AtMostOnce == Spec => []ConsumedAtMostOnce
<1>1. IInv => ConsumedAtMostOnce
  BY DEF IInv, ConsumedAtMostOnce, UsesInv
<1> QED
  BY <1>1, IInvHolds, PTL

\* A protocol at rest has leaked neither block, environment nor result.
THEOREM NoLeak == Spec => []NothingLeaked
<1>1. IInv => NothingLeaked
  BY DEF IInv, NothingLeaked, TypeOK, ReferencesInv, NativeInv, ResultInv,
         UsesInv, OwnerCounted, WorkerCounted, WorkerRan, WorkerSettled, Native, Pointer,
         Result, Running
<1> QED
  BY <1>1, IInvHolds, PTL

\* Who runs the destructor of an unjoined result is decided by the order of its
\* completion and the detach: the worker (trampoline) discards only after the
\* detach was committed and the handle is gone, the owner
\* (toka_thread_detach_v1) only once the worker has published and is past every
\* use of the result.
THEOREM DiscardsInOrder == Spec => DiscarderIsDecidedByOrder
<1> DEFINE A == /\ (WorkerDiscards => handle = "null" /\ native = "Detached" /\ op # "join")
                /\ (OwnerDiscards => worker \in {"release", "destroy", "exited"})
<1>1. IInv => A
  <2>1. ASSUME IInv, WorkerDiscards PROVE handle = "null" /\ native = "Detached" /\ op # "join"
    BY <2>1 DEF WorkerDiscards, IInv, TypeOK, ReferencesInv, NativeInv, ResultInv, UsesInv,
        OwnerCounted, WorkerCounted, WorkerRan, WorkerSettled, Native, Pointer, Result,
        OwnerSteps, WorkerSteps
  <2>2. ASSUME IInv, OwnerDiscards PROVE worker \in {"release", "destroy", "exited"}
    BY <2>2 DEF OwnerDiscards, IInv, TypeOK, ReferencesInv, NativeInv, ResultInv, UsesInv,
        OwnerCounted, WorkerCounted, WorkerRan, WorkerSettled, Native, Pointer, Result,
        OwnerSteps, WorkerSteps
  <2> QED
    BY <2>1, <2>2
<1>2. IInv /\ [Next]_vars => [A]_vars
  BY <1>1
<1>3. [][A]_vars => DiscarderIsDecidedByOrder
  BY DEF DiscarderIsDecidedByOrder
<1> QED
  BY <1>2, <1>3, IInvHolds, PTL DEF Spec

\* A join or a detach that reports a native error (toka_thread_join_v1,
\* toka_thread_detach_v1) leaves the owner with its handle: the control block is
\* live, counted and open for another attempt.
THEOREM FailedCallKeepsHandle == Spec => FailureKeepsHandle
<1> DEFINE A == (status' \in {"Join", "Detach"} /\ failures' # failures) =>
                  /\ handle' = "set" /\ native' = "Open" /\ references' >= 1
                  /\ control' = "live"
<1>1. IInv /\ IInv' /\ [Next]_vars => [A]_vars
  <2> SUFFICES ASSUME IInv, IInv', Next, status' \in {"Join", "Detach"}, failures' # failures
               PROVE  /\ handle' = "set" /\ native' = "Open" /\ references' >= 1
                      /\ control' = "live"
    OBVIOUS
  <2> USE DEF wrapper, block, caller, vars
  <2>1. NativeJoinFails \/ NativeDetachFails
    BY DEF Next, Prepare, PrepareFails, DisposePrepared, Start, StartFails, ClosedCall, BusyCall,
       Join, Detach, DropHandle, ConsumeOut, OwnerContinues, WorkerStep, Exited, StartReturns,
       NativeJoin, JoinCommit, NativeDetach, DetachCommit, OwnerDiscards, OwnerDisposes,
       OwnerReleases, OwnerDestroys, WorkerEnters, RunOnce, WorkerPublishes, WorkerDiscards,
       WorkerDisposes, WorkerReleases, WorkerDestroys, RequireFails, Reserve, KeepSlot, ClearOut
  <2>2. handle' = "set" /\ native' = "Open" /\ control' = "live"
    BY <2>1 DEF NativeJoinFails, NativeDetachFails, KeepSlot, RequireFails, IInv, TypeOK,
       NativeInv, ReferencesInv, ResultInv, NoRequireFails, OwnerCounted, WorkerCounted,
       Pointer, Native
  <2>3. references' >= 1
    BY <2>2 DEF IInv, TypeOK, ReferencesInv, NativeInv, OwnerCounted, WorkerCounted
  <2> QED
    BY <2>2, <2>3
<1>2. [][A]_vars => FailureKeepsHandle
  BY DEF FailureKeepsHandle
<1> QED
  BY <1>1, <1>2, IInvHolds, PTL DEF Spec
=============================================================================
