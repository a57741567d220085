------------------------- MODULE TaskResultProofs -------------------------
(***************************************************************************)
(* Proofs about TaskResult, for any number of helper threads.              *)
(*                                                                         *)
(* The argument is the inductive invariant IInv.  Two words decide who may *)
(* do what: the result byte elects the publisher of the terminal state and *)
(* the disposition word elects the consumer of the payload.  IInv says     *)
(* that each election has one winner while the winner is at work, and that *)
(* nobody enters the second election before the first one ended in         *)
(* Completed.                                                              *)
(***************************************************************************)
EXTENDS TaskResult, FiniteSetTheorems, TLAPS

\* A new task satisfies the inductive invariant.
LEMMA InitIInv == Init => IInv
  BY DEF IInv, TypeOK, RunIsWorkers, OnePublisher, PendingIsOpen, ClaimantsSawEnd,
         OneConsumer, Accounts, TerminalAgrees, Dropping, Terminal, Ending, PCs,
         CallNames, At, Goto, Unchanged, result_vars, owner_vars, count_vars,
         memory_vars,
         Init, Actors

\* The routines that every thread may execute preserve the invariant.
LEMMA SharedIInv == ASSUME IInv, NEW a \in Actors, Shared(a) PROVE IInv'
<1> USE DEF IInv, TypeOK, RunIsWorkers, OnePublisher, PendingIsOpen, ClaimantsSawEnd,
        OneConsumer, Accounts, TerminalAgrees, Dropping, Terminal, Ending, PCs,
        CallNames, At, Goto, Unchanged, result_vars, owner_vars, count_vars,
        memory_vars
<1>1. CASE ClaimStart(a)
  BY <1>1 DEF ClaimStart
<1>2. CASE PushReady(a)
  BY <1>2 DEF PushReady, Retain
<1>3. CASE StartDone(a)
  BY <1>3 DEF StartDone, Release, ReleaseWith, AfterStart
<1>4. CASE PublishEnter(a)
  BY <1>4 DEF PublishEnter, Retain, AfterPublish
<1>5. CASE PublishResult(a)
  BY <1>5 DEF PublishResult, CanPublish
<1>6. CASE PublishState(a)
  BY <1>6 DEF PublishState
<1>7. CASE UncountDetached(a)
  BY <1>7 DEF UncountDetached, Uncount
<1>8. CASE PublishExit(a)
  BY <1>8 DEF PublishExit, ReleaseWith, AfterPublish
<1>20. CASE PublishDone(a)
  BY <1>20 DEF PublishDone, Release, ReleaseWith
<1>9. CASE Drain(a)
  BY <1>9 DEF Drain, MayDispose
<1>10. CASE ClaimDrop(a)
  BY <1>10 DEF ClaimDrop, Claimable, Retain
<1>11. CASE MarkTaken(a)
  BY <1>11 DEF MarkTaken
<1>12. CASE MarkDropped(a)
  BY <1>12 DEF MarkDropped, ReleaseWith
<1>13. CASE ReleaseOwner(a)
  BY <1>13 DEF ReleaseOwner, OwnerDue, AfterOwner
<1>14. CASE ReleaseOwnerRef(a)
  BY <1>14 DEF ReleaseOwnerRef, Release, ReleaseWith, AfterOwner
<1>15. CASE CancelLook(a)
  BY <1>15 DEF CancelLook
<1>16. CASE Finalize(a)
  BY <1>16 DEF Finalize, Retain
<1>17. CASE Cleanup(a)
  BY <1>17 DEF Cleanup
<1>18. CASE FinalizeDone(a)
  BY <1>18 DEF FinalizeDone, ReleaseWith
<1>19. CASE CancelDone(a)
  BY <1>19 DEF CancelDone, Release, ReleaseWith, AfterCancel
<1> QED
  BY <1>1, <1>2, <1>3, <1>4, <1>5, <1>6, <1>7, <1>8, <1>9, <1>10, <1>11, <1>12, <1>13, <1>14, <1>15, <1>16, <1>17, <1>18, <1>19, <1>20
  DEF Shared

\* So do the steps that only the owner of the handle takes.
LEMMA HandleIInv == ASSUME IInv, HandleStep PROVE IInv'
<1> USE DEF IInv, TypeOK, RunIsWorkers, OnePublisher, PendingIsOpen, ClaimantsSawEnd,
        OneConsumer, Accounts, TerminalAgrees, Dropping, Terminal, Ending, PCs,
        CallNames, At, Goto, Unchanged, result_vars, owner_vars, count_vars,
        memory_vars
<1>h. Handle \in Actors
  BY DEF Actors
<1> USE <1>h
<1>1. CASE TakeLook
  BY <1>1 DEF TakeLook, Release, ReleaseWith
<1>2. CASE TakeClaim
  BY <1>2 DEF TakeClaim, Claimable, ReleaseWith
<1>3. CASE TakeCommit
  BY <1>3 DEF TakeCommit
<1>4. CASE DetachOwner
  BY <1>4 DEF DetachOwner
<1>5. CASE DetachFlag
  BY <1>5 DEF DetachFlag
<1>6. CASE DetachStart
  BY <1>6 DEF DetachStart, Retain
<1>7. CASE DetachCount
  BY <1>7 DEF DetachCount, CountDetached, DetachExempt
<1>8. CASE DetachDone
  BY <1>8 DEF DetachDone, Release, ReleaseWith
<1>9. CASE DropLook
  BY <1>9 DEF DropLook
<1>10. CASE ColdOwner
  BY <1>10 DEF ColdOwner
<1>11. CASE ColdFlag
  BY <1>11 DEF ColdFlag, Retain
<1>12. CASE DropCount
  BY <1>12 DEF DropCount, CountDetached
<1> QED
  BY <1>1, <1>2, <1>3, <1>4, <1>5, <1>6, <1>7, <1>8, <1>9, <1>10, <1>11, <1>12 DEF HandleStep

\* Every step of the specification preserves the invariant.
LEMMA NextIInv == IInv /\ [Next]_vars => IInv'
<1> SUFFICES ASSUME IInv, [Next]_vars PROVE IInv'
  OBVIOUS
<1>h. Handle \in Actors /\ Worker \in Actors /\ Handle # Worker
  BY ActorsAssumption DEF Actors
<1>s. CASE \E a \in Actors : Shared(a)
  BY <1>s, SharedIInv
<1>t. CASE HandleStep
  BY <1>t, HandleIInv
<1> USE <1>h DEF IInv, TypeOK, RunIsWorkers, OnePublisher, PendingIsOpen, ClaimantsSawEnd,
        OneConsumer, Accounts, TerminalAgrees, Dropping, Terminal, Ending, PCs,
        CallNames, At, Goto, Unchanged, result_vars, owner_vars, count_vars,
        memory_vars
<1>1. CASE PopReady
  BY <1>1 DEF PopReady, Enter
<1>10. CASE PopStale
  BY <1>10 DEF PopStale, Release, ReleaseWith
<1>2. CASE ClearCurrent
  BY <1>2 DEF ClearCurrent, ReleaseWith
<1>3. CASE ReleaseAccess
  BY <1>3 DEF ReleaseAccess, ReleaseWith
<1>4. CASE EndCoroutine
  BY <1>4 DEF EndCoroutine
<1>5. CASE CallTake
  BY <1>5 DEF CallTake, Calls, MayCall, Enter, Retain
<1>6. CASE CallDetach
  BY <1>6 DEF CallDetach, GiveUp, Enter, Retain
<1>7. CASE CallDrop
  BY <1>7 DEF CallDrop, GiveUp, Enter, Retain
<1>8. ASSUME NEW a \in Actors, CallStart(a) \/ CallCancel(a) PROVE IInv'
  BY <1>8, ActorsAssumption DEF CallStart, CallCancel, Calls, MayCall, Enter, Retain
<1>11. ASSUME NEW a \in Publishers, CallPublish(a) PROVE IInv'
  <2>1. a \in Helpers /\ a \in Actors /\ a # Worker
    BY <1>11, ActorsAssumption DEF Actors
  <2> QED
    BY <1>11, <2>1 DEF CallPublish, Calls, MayCall, Enter, Retain
<1>9. CASE UNCHANGED vars
  BY <1>9 DEF vars
<1> QED
  BY <1>s, <1>t, <1>1, <1>2, <1>3, <1>4, <1>5, <1>6, <1>7, <1>8, <1>9, <1>10, <1>11
  DEF Next, Runtime, Call, WorkerStep

\* The inductive invariant holds in every reachable state.
THEOREM IInvHolds == Spec => []IInv
  BY InitIInv, NextIInv, PTL DEF Spec

\* The state of a task keeps its types; the detached counter cannot go negative.
THEOREM TypeCorrect == Spec => []TypeOK
<1>1. IInv => TypeOK
  BY DEF IInv
<1> QED
  BY <1>1, IInvHolds, PTL

\* Whatever the number of threads that start, cancel, complete, detach or take, a
\* task's result is consumed at most once.
THEOREM AtMostOneConsumer == Spec => []ConsumedOnce
<1>1. IInv => ConsumedOnce
  BY DEF IInv, TypeOK, Accounts, ConsumedOnce
<1> QED
  BY <1>1, IInvHolds, PTL

\* No payload is touched before its task is Completed, and none of a canceled one.
THEOREM NoEarlyPayload == Spec => []PayloadNeedsCompletion
<1>1. IInv => PayloadNeedsCompletion
  BY DEF IInv, TypeOK, Accounts, OneConsumer, PayloadNeedsCompletion
<1> QED
  BY <1>1, IInvHolds, PTL

\* Terminal state and result state agree in every reachable state.
THEOREM LabelsAgree == Spec => []TerminalAgrees
<1>1. IInv => TerminalAgrees
  BY DEF IInv
<1> QED
  BY <1>1, IInvHolds, PTL

\* No step takes back a terminal state, a published result or a settled
\* disposition: every step that writes one of these words finds it open.
LEMMA NextFinal == IInv /\ Next => FinalStep
<1> SUFFICES ASSUME IInv, Next PROVE FinalStep
  OBVIOUS
<1>h. Handle \in Actors
  BY DEF Actors
<1> USE <1>h DEF FinalStep, IInv, TypeOK, OnePublisher, OneConsumer, Dropping,
        TerminalAgrees, Terminal, Unchanged, result_vars, owner_vars, At
<1>1. ASSUME NEW a \in Actors, Shared(a) PROVE FinalStep
  <2>1. CASE ClaimStart(a)
    BY <2>1 DEF ClaimStart
  <2>2. CASE PublishResult(a)
    BY <2>2 DEF PublishResult, CanPublish
  <2>3. CASE PublishState(a)
    BY <2>3 DEF PublishState
  <2>4. CASE ClaimDrop(a)
    BY <2>4 DEF ClaimDrop, Claimable
  <2>5. CASE MarkTaken(a)
    BY <2>5 DEF MarkTaken
  <2>6. CASE MarkDropped(a)
    BY <2>6 DEF MarkDropped
  <2>7. CASE Finalize(a)
    BY <2>7 DEF Finalize
  <2>8. CASE PushReady(a) \/ StartDone(a) \/ PublishEnter(a)
             \/ UncountDetached(a) \/ PublishExit(a) \/ PublishDone(a) \/ Drain(a)
    BY <2>8 DEF PushReady, StartDone, PublishEnter, UncountDetached, PublishExit,
                PublishDone, Drain
  <2>9. CASE ReleaseOwner(a) \/ ReleaseOwnerRef(a) \/ CancelLook(a)
             \/ Cleanup(a) \/ FinalizeDone(a) \/ CancelDone(a)
    BY <2>9 DEF ReleaseOwner, ReleaseOwnerRef, CancelLook, Cleanup, FinalizeDone,
                CancelDone
  <2> QED
    BY <1>1, <2>1, <2>2, <2>3, <2>4, <2>5, <2>6, <2>7, <2>8, <2>9 DEF Shared
<1>2. CASE TakeLook \/ TakeClaim \/ TakeCommit
  BY <1>2 DEF TakeLook, TakeClaim, TakeCommit, Claimable
<1>3. CASE DetachOwner \/ DetachFlag \/ DetachStart \/ DetachCount \/ DetachDone
  BY <1>3 DEF DetachOwner, DetachFlag, DetachStart, DetachCount, DetachDone
<1>4. CASE DropLook \/ ColdOwner \/ ColdFlag \/ DropCount
  BY <1>4 DEF DropLook, ColdOwner, ColdFlag, DropCount
<1>5. CASE PopReady \/ PopStale \/ ClearCurrent \/ ReleaseAccess \/ EndCoroutine
  BY <1>5 DEF PopReady, PopStale, ClearCurrent, ReleaseAccess, EndCoroutine
<1>6. CASE Call
  BY <1>6 DEF Call, CallStart, CallCancel, CallPublish, CallTake, CallDetach, CallDrop, Calls,
              GiveUp
<1> QED
  BY <1>1, <1>2, <1>3, <1>4, <1>5, <1>6
  DEF Next, Runtime, HandleStep, WorkerStep

\* A terminal state, a published result and a settled disposition are final.
THEOREM EndIsFinal == Spec => Final
<1>1. IInv /\ [Next]_vars => [FinalStep]_vars
  BY NextFinal
<1> QED
  BY <1>1, IInvHolds, PTL DEF Spec, Final

-----------------------------------------------------------------------------
(* References and pins.  An actor inside the runtime has one reference for *)
(* being there and one for each routine that took one of its own; the      *)
(* invariant Counts says that refs and pins are what all of these add up   *)
(* to, so that the last release finds nobody else inside.                  *)

\* The program points of toka_task_publish_terminal once it holds the frame,
\* and those of toka_task_request_cancel.
PublishPCs == {"pubCas", "pubState", "pubCount", "pubExit", "drain",
               "dropClaim", "markTaken", "markDropped", "relOwner", "ownerRef"}
StartPCs == {"claim", "push", "startDone"}
ColdPCs == {"cleanup", "pubEnter", "coldDone"} \cup PublishPCs
CancelPCs == {"cancelLook", "finalize", "cancelDone"} \cup ColdPCs

\* The actors that hold a reference or a pin, by what they hold it for.
Inside == {a \in Actors : pc[a] # "idle"}
Publishing == {a \in Actors : pc[a] \in PublishPCs /\ call[a] # "detach"}
Consuming == {a \in Actors : pc[a] \in Dropping}
Disowning == {a \in Actors : pc[a] = "ownerRef"}
Finalizing == {a \in Actors : pc[a] \in ColdPCs /\ call[a] \in {"cancel", "drop"}}
Starting == {a \in Actors : pc[a] \in StartPCs /\ call[a] = "detach"}
Canceling == {a \in Actors : pc[a] \in CancelPCs /\ call[a] = "drop"}
Running == {a \in Actors : pc[a] # "idle" /\ call[a] = "run"}
Taking == {a \in Actors : pc[a] \in {"takeClaim", "takeCommit"}}

RefsHeld == Cardinality(Inside) + Cardinality(Publishing) + Cardinality(Consuming)
            + Cardinality(Disowning) + Cardinality(Finalizing)
            + Cardinality(Starting) + Cardinality(Canceling)
PinsHeld == Cardinality(Running) + Cardinality(Publishing) + Cardinality(Consuming)
            + Cardinality(Finalizing) + Cardinality(Taking)

One(b) == IF b THEN 1 ELSE 0

\* What one actor at point p of call c holds.
RefsAt(p, c) == One(p # "idle") + One(p \in PublishPCs /\ c # "detach")
                + One(p \in Dropping) + One(p = "ownerRef")
                + One(p \in ColdPCs /\ c \in {"cancel", "drop"})
                + One(p \in StartPCs /\ c = "detach")
                + One(p \in CancelPCs /\ c = "drop")
PinsAt(p, c) == One(p # "idle" /\ c = "run") + One(p \in PublishPCs /\ c # "detach")
                + One(p \in Dropping)
                + One(p \in ColdPCs /\ c \in {"cancel", "drop"})
                + One(p \in {"takeClaim", "takeCommit"})

\* The points an actor can be at in a call.
PointsOf(c) ==
    CASE c = "start" -> StartPCs
      [] c = "cancel" -> CancelPCs
      [] c = "take" -> {"takeLook", "takeClaim", "takeCommit"}
      [] c = "run" -> {"running", "pubEnter", "clear"} \cup PublishPCs
      [] c \in {"ready", "canceled"} -> {"pubEnter", "pubDone"} \cup PublishPCs
      [] c = "detach" -> {"detCas", "detFlag", "detStart", "detCount", "drain",
                          "dropClaim", "markTaken", "markDropped", "relOwner",
                          "ownerRef", "detDone"} \cup StartPCs
      [] c = "drop" -> {"dropLook", "coldCas", "coldFlag", "dropCount",
                        "detDone"} \cup CancelPCs
      [] OTHER -> {}

Places ==
    \A a \in Actors :
        /\ pc[a] # "idle" => pc[a] \in PointsOf(call[a])
        /\ call[a] \in {"take", "detach", "drop"} => a = Handle
        /\ call[a] = "run" => a = Worker
        /\ pc[Worker] # "idle" => call[Worker] = "run"

\* Handle and owner flags: the owner's reference is given up once, by a task
\* whose handle is gone.
OwnerFlags ==
    /\ pc[Handle] # "idle" /\ call[Handle] \in {"detach", "drop"} => handle = "gone"
    /\ detached = 1 => handle = "gone"
    /\ released = 1 => detached = 1

Counts ==
    /\ refs = (1 - released) + queued + guard + RefsHeld
    /\ pins = guard + PinsHeld
    /\ queued \in Nat /\ guard \in Nat
    /\ freed = 1 <=> refs = 0

RefInv == Places /\ OwnerFlags /\ Counts /\ NoAbort

\* The actors are finitely many, Handle and Worker among them.
LEMMA ActorsFinite ==
    IsFiniteSet(Actors) /\ Handle \in Actors /\ Worker \in Actors /\ Handle # Worker
<1>1. IsFiniteSet({Handle} \cup {Worker})
  BY FS_Singleton, FS_Union
<1>2. {Handle, Worker} = {Handle} \cup {Worker}
  OBVIOUS
<1>3. IsFiniteSet({Handle, Worker} \cup Helpers)
  BY <1>1, <1>2, FS_Union, ActorsAssumption
<1> QED
  BY <1>3, ActorsAssumption DEF Actors

\* Two sets that differ in at most one element differ by at most one in size.
LEMMA CardinalityOfMove ==
    ASSUME NEW S, NEW T, NEW a, IsFiniteSet(S), S \ {a} = T \ {a}
    PROVE  /\ Cardinality(S) \in Nat /\ Cardinality(T) \in Nat
           /\ Cardinality(T) = Cardinality(S) + One(a \in T) - One(a \in S)
<1>1. IsFiniteSet(S \ {a}) /\ Cardinality(S) \in Nat /\ Cardinality(S \ {a}) \in Nat
      /\ Cardinality(S \ {a}) = Cardinality(S) - One(a \in S)
  <2>1. IsFiniteSet(S \ {a}) /\ Cardinality(S \ {a}) = IF a \in S THEN Cardinality(S) - 1
                                                    ELSE Cardinality(S)
    BY FS_RemoveElement
  <2>2. Cardinality(S) \in Nat /\ Cardinality(S \ {a}) \in Nat
    BY <2>1, FS_CardinalityType
  <2> QED
    BY <2>1, <2>2 DEF One
<1>2. CASE a \in T
  <2>1. T = (S \ {a}) \cup {a}
    BY <1>2
  <2>2. IsFiniteSet(T) /\ Cardinality(T) = Cardinality(S \ {a}) + 1
    BY <1>1, <2>1, FS_AddElement
  <2> QED
    BY <1>1, <1>2, <2>2 DEF One
<1>3. CASE a \notin T
  <2>1. T = S \ {a}
    BY <1>3
  <2> QED
    BY <1>1, <1>3, <2>1 DEF One
<1> QED
  BY <1>2, <1>3

\* When one actor moves from a point of a call to another, the totals change by
\* what it holds there and here.
LEMMA TotalsOfMove ==
    ASSUME TypeOK, NEW a \in Actors, NEW p, NEW c,
           pc' = [pc EXCEPT ![a] = p], call' = [call EXCEPT ![a] = c]
    PROVE  /\ RefsHeld' = RefsHeld + RefsAt(p, c) - RefsAt(pc[a], call[a])
           /\ PinsHeld' = PinsHeld + PinsAt(p, c) - PinsAt(pc[a], call[a])
<1>t. pc \in [Actors -> PCs] /\ call \in [Actors -> CallNames] /\ IsFiniteSet(Actors)
  BY ActorsFinite DEF TypeOK
<1>m. /\ pc'[a] = p /\ call'[a] = c
      /\ \A b \in Actors : b # a => pc'[b] = pc[b] /\ call'[b] = call[b]
  BY <1>t
<1>f. \A S \in SUBSET Actors : IsFiniteSet(S)
  BY <1>t, FS_Subset
<1>1. /\ Cardinality(Inside) \in Nat /\ Cardinality(Inside') \in Nat
      /\ Cardinality(Inside)' = Cardinality(Inside) + One(p # "idle") - One(pc[a] # "idle")
  <2>1. Inside \ {a} = Inside' \ {a} /\ IsFiniteSet(Inside)
    BY <1>m, <1>f DEF Inside
  <2>2. (a \in Inside <=> pc[a] # "idle") /\ (a \in Inside' <=> p # "idle")
    BY <1>m DEF Inside
  <2> QED
    BY <2>1, <2>2, CardinalityOfMove DEF One
<1>2. /\ Cardinality(Publishing) \in Nat /\ Cardinality(Publishing') \in Nat
      /\ Cardinality(Publishing)' = Cardinality(Publishing)
            + One(p \in PublishPCs /\ c # "detach")
            - One(pc[a] \in PublishPCs /\ call[a] # "detach")
  <2>1. Publishing \ {a} = Publishing' \ {a} /\ IsFiniteSet(Publishing)
    BY <1>m, <1>f DEF Publishing
  <2>2. /\ a \in Publishing <=> pc[a] \in PublishPCs /\ call[a] # "detach"
        /\ a \in Publishing' <=> p \in PublishPCs /\ c # "detach"
    BY <1>m DEF Publishing
  <2> QED
    BY <2>1, <2>2, CardinalityOfMove DEF One
<1>3. /\ Cardinality(Consuming) \in Nat /\ Cardinality(Consuming') \in Nat
      /\ Cardinality(Consuming)' = Cardinality(Consuming)
            + One(p \in Dropping) - One(pc[a] \in Dropping)
  <2>1. Consuming \ {a} = Consuming' \ {a} /\ IsFiniteSet(Consuming)
    BY <1>m, <1>f DEF Consuming
  <2>2. (a \in Consuming <=> pc[a] \in Dropping) /\ (a \in Consuming' <=> p \in Dropping)
    BY <1>m DEF Consuming
  <2> QED
    BY <2>1, <2>2, CardinalityOfMove DEF One
<1>4. /\ Cardinality(Disowning) \in Nat /\ Cardinality(Disowning') \in Nat
      /\ Cardinality(Disowning)' = Cardinality(Disowning)
            + One(p = "ownerRef") - One(pc[a] = "ownerRef")
  <2>1. Disowning \ {a} = Disowning' \ {a} /\ IsFiniteSet(Disowning)
    BY <1>m, <1>f DEF Disowning
  <2>2. (a \in Disowning <=> pc[a] = "ownerRef") /\ (a \in Disowning' <=> p = "ownerRef")
    BY <1>m DEF Disowning
  <2> QED
    BY <2>1, <2>2, CardinalityOfMove DEF One
<1>5. /\ Cardinality(Finalizing) \in Nat /\ Cardinality(Finalizing') \in Nat
      /\ Cardinality(Finalizing)' = Cardinality(Finalizing)
            + One(p \in ColdPCs /\ c \in {"cancel", "drop"})
            - One(pc[a] \in ColdPCs /\ call[a] \in {"cancel", "drop"})
  <2>1. Finalizing \ {a} = Finalizing' \ {a} /\ IsFiniteSet(Finalizing)
    BY <1>m, <1>f DEF Finalizing
  <2>2. /\ a \in Finalizing <=> pc[a] \in ColdPCs /\ call[a] \in {"cancel", "drop"}
        /\ a \in Finalizing' <=> p \in ColdPCs /\ c \in {"cancel", "drop"}
    BY <1>m DEF Finalizing
  <2> QED
    BY <2>1, <2>2, CardinalityOfMove DEF One
<1>6. /\ Cardinality(Starting) \in Nat /\ Cardinality(Starting') \in Nat
      /\ Cardinality(Starting)' = Cardinality(Starting)
            + One(p \in StartPCs /\ c = "detach")
            - One(pc[a] \in StartPCs /\ call[a] = "detach")
  <2>1. Starting \ {a} = Starting' \ {a} /\ IsFiniteSet(Starting)
    BY <1>m, <1>f DEF Starting
  <2>2. /\ a \in Starting <=> pc[a] \in StartPCs /\ call[a] = "detach"
        /\ a \in Starting' <=> p \in StartPCs /\ c = "detach"
    BY <1>m DEF Starting
  <2> QED
    BY <2>1, <2>2, CardinalityOfMove DEF One
<1>7. /\ Cardinality(Canceling) \in Nat /\ Cardinality(Canceling') \in Nat
      /\ Cardinality(Canceling)' = Cardinality(Canceling)
            + One(p \in CancelPCs /\ c = "drop")
            - One(pc[a] \in CancelPCs /\ call[a] = "drop")
  <2>1. Canceling \ {a} = Canceling' \ {a} /\ IsFiniteSet(Canceling)
    BY <1>m, <1>f DEF Canceling
  <2>2. /\ a \in Canceling <=> pc[a] \in CancelPCs /\ call[a] = "drop"
        /\ a \in Canceling' <=> p \in CancelPCs /\ c = "drop"
    BY <1>m DEF Canceling
  <2> QED
    BY <2>1, <2>2, CardinalityOfMove DEF One
<1>8. /\ Cardinality(Running) \in Nat /\ Cardinality(Running') \in Nat
      /\ Cardinality(Running)' = Cardinality(Running)
            + One(p # "idle" /\ c = "run") - One(pc[a] # "idle" /\ call[a] = "run")
  <2>1. Running \ {a} = Running' \ {a} /\ IsFiniteSet(Running)
    BY <1>m, <1>f DEF Running
  <2>2. /\ a \in Running <=> pc[a] # "idle" /\ call[a] = "run"
        /\ a \in Running' <=> p # "idle" /\ c = "run"
    BY <1>m DEF Running
  <2> QED
    BY <2>1, <2>2, CardinalityOfMove DEF One
<1>9. /\ Cardinality(Taking) \in Nat /\ Cardinality(Taking') \in Nat
      /\ Cardinality(Taking)' = Cardinality(Taking)
            + One(p \in {"takeClaim", "takeCommit"})
            - One(pc[a] \in {"takeClaim", "takeCommit"})
  <2>1. Taking \ {a} = Taking' \ {a} /\ IsFiniteSet(Taking)
    BY <1>m, <1>f DEF Taking
  <2>2. /\ a \in Taking <=> pc[a] \in {"takeClaim", "takeCommit"}
        /\ a \in Taking' <=> p \in {"takeClaim", "takeCommit"}
    BY <1>m DEF Taking
  <2> QED
    BY <2>1, <2>2, CardinalityOfMove DEF One
<1>10. /\ RefsHeld' = RefsHeld + RefsAt(p, c) - RefsAt(pc[a], call[a])
  BY <1>1, <1>2, <1>3, <1>4, <1>5, <1>6, <1>7 DEF RefsHeld, RefsAt, One
<1>11. /\ PinsHeld' = PinsHeld + PinsAt(p, c) - PinsAt(pc[a], call[a])
  BY <1>2, <1>3, <1>5, <1>8, <1>9 DEF PinsHeld, PinsAt, One
<1> QED
  BY <1>10, <1>11

\* Every total is at least what one actor holds; and when a single reference is
\* held, the one actor inside holds all the pins there are.
LEMMA Totals ==
    ASSUME TypeOK
    PROVE  /\ RefsHeld \in Nat /\ PinsHeld \in Nat
           /\ \A a \in Actors : RefsHeld >= RefsAt(pc[a], call[a])
           /\ RefsHeld = 0 => PinsHeld = 0 /\ \A a \in Actors : pc[a] = "idle"
           /\ \A a \in Actors : pc[a] # "idle" /\ RefsHeld = 1
                                  => PinsHeld = PinsAt(pc[a], call[a])
<1>t. pc \in [Actors -> PCs] /\ call \in [Actors -> CallNames] /\ IsFiniteSet(Actors)
  BY ActorsFinite DEF TypeOK
<1>d. /\ Inside \in SUBSET Actors /\ Publishing \in SUBSET Actors
      /\ Consuming \in SUBSET Actors /\ Disowning \in SUBSET Actors
      /\ Finalizing \in SUBSET Actors /\ Starting \in SUBSET Actors
      /\ Canceling \in SUBSET Actors /\ Running \in SUBSET Inside
      /\ Taking \in SUBSET Inside
  BY DEF Inside, Publishing, Consuming, Disowning, Finalizing, Starting, Canceling,
         Running, Taking
<1>f. \A S \in SUBSET Actors : IsFiniteSet(S) /\ Cardinality(S) \in Nat
                               /\ (Cardinality(S) = 0 <=> S = {})
  BY <1>t, FS_Subset, FS_CardinalityType, FS_EmptySet
<1>n. /\ Cardinality(Inside) \in Nat /\ Cardinality(Publishing) \in Nat
      /\ Cardinality(Consuming) \in Nat /\ Cardinality(Disowning) \in Nat
      /\ Cardinality(Finalizing) \in Nat /\ Cardinality(Starting) \in Nat
      /\ Cardinality(Canceling) \in Nat /\ Cardinality(Running) \in Nat
      /\ Cardinality(Taking) \in Nat
  BY <1>d, <1>f
<1>1. RefsHeld \in Nat /\ PinsHeld \in Nat
  BY <1>n DEF RefsHeld, PinsHeld
<1>2. ASSUME NEW a \in Actors PROVE RefsHeld >= RefsAt(pc[a], call[a])
  <2>1. /\ pc[a] # "idle" => Cardinality(Inside) >= 1
        /\ pc[a] \in PublishPCs /\ call[a] # "detach" => Cardinality(Publishing) >= 1
        /\ pc[a] \in Dropping => Cardinality(Consuming) >= 1
        /\ pc[a] = "ownerRef" => Cardinality(Disowning) >= 1
    <3>1. /\ pc[a] # "idle" => Inside # {}
          /\ pc[a] \in PublishPCs /\ call[a] # "detach" => Publishing # {}
          /\ pc[a] \in Dropping => Consuming # {}
          /\ pc[a] = "ownerRef" => Disowning # {}
      BY DEF Inside, Publishing, Consuming, Disowning
    <3> QED
      BY <3>1, <1>d, <1>f, <1>n
  <2>2. /\ pc[a] \in ColdPCs /\ call[a] \in {"cancel", "drop"}
             => Cardinality(Finalizing) >= 1
        /\ pc[a] \in StartPCs /\ call[a] = "detach" => Cardinality(Starting) >= 1
        /\ pc[a] \in CancelPCs /\ call[a] = "drop" => Cardinality(Canceling) >= 1
    <3>1. /\ pc[a] \in ColdPCs /\ call[a] \in {"cancel", "drop"} => Finalizing # {}
          /\ pc[a] \in StartPCs /\ call[a] = "detach" => Starting # {}
          /\ pc[a] \in CancelPCs /\ call[a] = "drop" => Canceling # {}
      BY DEF Finalizing, Starting, Canceling
    <3> QED
      BY <3>1, <1>d, <1>f, <1>n
  <2> QED
    BY <1>n, <2>1, <2>2 DEF RefsHeld, RefsAt, One
<1>3. ASSUME RefsHeld = 0
      PROVE  PinsHeld = 0 /\ \A a \in Actors : pc[a] = "idle"
  <2>1. /\ Cardinality(Inside) = 0 /\ Cardinality(Publishing) = 0
        /\ Cardinality(Consuming) = 0 /\ Cardinality(Finalizing) = 0
    <3>1. /\ Cardinality(Inside) <= 0 /\ Cardinality(Publishing) <= 0
          /\ Cardinality(Consuming) <= 0 /\ Cardinality(Finalizing) <= 0
      BY <1>3, <1>n DEF RefsHeld
    <3> QED
      BY <3>1, <1>n
  <2>2. Inside = {}
    BY <2>1, <1>d, <1>f
  <2>3. Running = {} /\ Taking = {}
    BY <2>2, <1>d
  <2>4. Cardinality(Running) = 0 /\ Cardinality(Taking) = 0
    BY <2>3, FS_EmptySet
  <2> QED
    BY <2>1, <2>2, <2>4 DEF PinsHeld, Inside
<1>4. ASSUME NEW a \in Actors, pc[a] # "idle", RefsHeld = 1
      PROVE  PinsHeld = PinsAt(pc[a], call[a])
  <2>1. a \in Inside /\ Cardinality(Inside) # 0
    BY <1>4, <1>d, <1>f DEF Inside
  <2>2. /\ Cardinality(Inside) = 1 /\ Cardinality(Publishing) = 0
        /\ Cardinality(Consuming) = 0 /\ Cardinality(Finalizing) = 0
    <3>1. /\ Cardinality(Inside) <= 1 /\ Cardinality(Publishing) <= 0
          /\ Cardinality(Consuming) <= 0 /\ Cardinality(Finalizing) <= 0
      BY <2>1, <1>4, <1>n DEF RefsHeld
    <3> QED
      BY <2>1, <3>1, <1>n
  <2>3. PICK x : Inside = {x}
    BY <2>2, <1>d, <1>f, FS_Singleton
  <2>4. Inside = {a}
    BY <2>1, <2>3
  <2>5. Publishing = {} /\ Consuming = {} /\ Finalizing = {}
    BY <2>2, <1>d, <1>f
  <2>6. /\ ~(pc[a] \in PublishPCs /\ call[a] # "detach") /\ pc[a] \notin Dropping
        /\ ~(pc[a] \in ColdPCs /\ call[a] \in {"cancel", "drop"})
    BY <2>5 DEF Publishing, Consuming, Finalizing
  <2>7. Cardinality(Running) = One(pc[a] # "idle" /\ call[a] = "run")
    <3>1. CASE call[a] = "run"
      <4>1. Running = {a}
        BY <3>1, <1>4, <2>4 DEF Inside, Running
      <4> QED
        BY <4>1, <3>1, <1>4, FS_Singleton DEF One
    <3>2. CASE call[a] # "run"
      <4>1. Running = {}
        BY <3>2, <2>4 DEF Inside, Running
      <4> QED
        BY <4>1, <3>2, FS_EmptySet DEF One
    <3> QED
      BY <3>1, <3>2
  <2>8. Cardinality(Taking) = One(pc[a] \in {"takeClaim", "takeCommit"})
    <3>1. CASE pc[a] \in {"takeClaim", "takeCommit"}
      <4>1. Taking = {a}
        BY <3>1, <1>4, <1>d, <2>4 DEF Inside, Taking
      <4> QED
        BY <4>1, <3>1, FS_Singleton DEF One
    <3>2. CASE pc[a] \notin {"takeClaim", "takeCommit"}
      <4>1. Taking = {}
        BY <3>2, <2>4, <1>d DEF Taking
      <4> QED
        BY <4>1, <3>2, FS_EmptySet DEF One
    <3> QED
      BY <3>1, <3>2
  <2> QED
    BY <2>2, <2>6, <2>7, <2>8 DEF PinsHeld, PinsAt, One
<1> QED
  BY <1>1, <1>2, <1>3, <1>4

\* No step leads an actor to a point that is not of its call, and the flags of the
\* owner keep their order.
LEMMA SharedPlaces ==
    ASSUME TypeOK, Places, OwnerFlags, NEW a \in Actors, Shared(a)
    PROVE  Places' /\ OwnerFlags'
<1> USE ActorsFinite DEF TypeOK, Places, OwnerFlags, PointsOf, PublishPCs, StartPCs,
        ColdPCs, CancelPCs, At, Goto, Unchanged, owner_vars
<1>1. CASE ClaimStart(a)
  BY <1>1 DEF ClaimStart
<1>2. CASE PushReady(a)
  BY <1>2 DEF PushReady
<1>3. CASE StartDone(a)
  BY <1>3 DEF StartDone, AfterStart
<1>4. CASE PublishEnter(a)
  BY <1>4 DEF PublishEnter, AfterPublish
<1>5. CASE PublishResult(a)
  BY <1>5 DEF PublishResult
<1>6. CASE PublishState(a)
  BY <1>6 DEF PublishState
<1>7. CASE UncountDetached(a)
  BY <1>7 DEF UncountDetached
<1>8. CASE PublishExit(a)
  BY <1>8 DEF PublishExit, AfterPublish
<1>9. CASE PublishDone(a)
  BY <1>9 DEF PublishDone
<1>10. CASE Drain(a)
  BY <1>10 DEF Drain
<1>11. CASE ClaimDrop(a)
  BY <1>11 DEF ClaimDrop
<1>12. CASE MarkTaken(a)
  BY <1>12 DEF MarkTaken
<1>13. CASE MarkDropped(a)
  BY <1>13 DEF MarkDropped
<1>14. CASE ReleaseOwner(a)
  BY <1>14 DEF ReleaseOwner, OwnerDue, AfterOwner
<1>15. CASE ReleaseOwnerRef(a)
  BY <1>15 DEF ReleaseOwnerRef, AfterOwner
<1>16. CASE CancelLook(a)
  BY <1>16 DEF CancelLook
<1>17. CASE Finalize(a)
  BY <1>17 DEF Finalize
<1>18. CASE Cleanup(a)
  BY <1>18 DEF Cleanup
<1>19. CASE FinalizeDone(a)
  BY <1>19 DEF FinalizeDone
<1>20. CASE CancelDone(a)
  BY <1>20 DEF CancelDone, AfterCancel
<1> QED
  BY <1>1, <1>2, <1>3, <1>4, <1>5, <1>6, <1>7, <1>8, <1>9, <1>10, <1>11, <1>12, <1>13, <1>14, <1>15, <1>16, <1>17, <1>18, <1>19, <1>20 DEF Shared

\* The same for the steps that only the owner of the handle takes.
LEMMA HandlePlaces ==
    ASSUME TypeOK, Places, OwnerFlags, HandleStep
    PROVE  Places' /\ OwnerFlags'
<1> USE ActorsFinite DEF TypeOK, Places, OwnerFlags, PointsOf, PublishPCs, StartPCs,
        ColdPCs, CancelPCs, At, Goto, Unchanged, owner_vars
<1>1. CASE TakeLook
  BY <1>1 DEF TakeLook
<1>2. CASE TakeClaim
  BY <1>2 DEF TakeClaim
<1>3. CASE TakeCommit
  BY <1>3 DEF TakeCommit
<1>4. CASE DetachOwner
  BY <1>4 DEF DetachOwner
<1>5. CASE DetachFlag
  BY <1>5 DEF DetachFlag
<1>6. CASE DetachStart
  BY <1>6 DEF DetachStart
<1>7. CASE DetachCount
  BY <1>7 DEF DetachCount
<1>8. CASE DetachDone
  BY <1>8 DEF DetachDone
<1>9. CASE DropLook
  BY <1>9 DEF DropLook
<1>10. CASE ColdOwner
  BY <1>10 DEF ColdOwner
<1>11. CASE ColdFlag
  BY <1>11 DEF ColdFlag
<1>12. CASE DropCount
  BY <1>12 DEF DropCount
<1> QED
  BY <1>1, <1>2, <1>3, <1>4, <1>5, <1>6, <1>7, <1>8, <1>9, <1>10, <1>11, <1>12 DEF HandleStep

\* What a step that moves actor a from here to point p of call c makes of the
\* totals, and what is known of them before it.
Balanced(a, p, c) ==
    /\ RefsHeld' = RefsHeld + RefsAt(p, c) - RefsAt(pc[a], call[a])
    /\ PinsHeld' = PinsHeld + PinsAt(p, c) - PinsAt(pc[a], call[a])
    /\ RefsHeld \in Nat /\ PinsHeld \in Nat
    /\ RefsHeld >= RefsAt(pc[a], call[a])
    /\ pc[a] # "idle" /\ RefsHeld = 1 => PinsHeld = PinsAt(pc[a], call[a])

\* Every step that moves one actor balances.
LEMMA Balance ==
    ASSUME TypeOK, NEW a \in Actors, NEW p, NEW c,
           pc' = [pc EXCEPT ![a] = p], call' = [call EXCEPT ![a] = c]
    PROVE  Balanced(a, p, c)
  BY TotalsOfMove, Totals DEF Balanced

\* A release by an actor inside keeps the counts exact; if it is the last one, no
\* pin is left and nothing aborts.
LEMMA ReleaseBalance ==
    ASSUME TypeOK, RefInv, NEW a \in Actors, NEW p, NEW c, Balanced(a, p, c),
           pc[a] # "idle", ReleaseWith(pins'), UNCHANGED <<released, queued, guard>>,
           RefsAt(p, c) = RefsAt(pc[a], call[a]) - 1,
           pins' = pins + PinsAt(p, c) - PinsAt(pc[a], call[a]),
           RefsAt(p, c) = 0 => PinsAt(p, c) = 0
    PROVE  Counts' /\ NoAbort'
<1>1. /\ RefsAt(p, c) \in 0..9 /\ RefsAt(pc[a], call[a]) \in 1..9
      /\ PinsAt(p, c) \in 0..9 /\ PinsAt(pc[a], call[a]) \in 0..9
  BY DEF RefsAt, PinsAt, One
<1>2. RefsHeld \in Nat /\ PinsHeld \in Nat /\ RefsHeld >= RefsAt(pc[a], call[a])
  BY DEF Balanced
<1>3. /\ refs \in Nat /\ refs >= 1 /\ pins \in Nat
      /\ refs = 1 => RefsHeld <= 1 /\ guard <= 0
  BY <1>1, <1>2 DEF TypeOK, RefInv, Counts
<1>4. refs = 1 => pins' = 0
  <2>1. refs = 1 => RefsHeld = 1 /\ guard = 0 /\ RefsAt(pc[a], call[a]) = 1
    BY <1>1, <1>2, <1>3 DEF RefInv, Counts
  <2>2. refs = 1 => PinsHeld = PinsAt(pc[a], call[a]) /\ PinsAt(p, c) = 0
    BY <1>1, <2>1 DEF Balanced
  <2> QED
    BY <1>1, <1>2, <2>1, <2>2 DEF RefInv, Counts
<1>5. NoAbort' /\ refs' = refs - 1 /\ (freed' = 1 <=> refs' = 0)
  BY <1>3, <1>4 DEF RefInv, NoAbort, Counts, ReleaseWith, LastReference
<1> QED
  BY <1>1, <1>2, <1>5, SMTT(30) DEF Balanced, RefInv, Counts, TypeOK

\* References and pins stay exact, and no release aborts, in the routines that
\* every thread may execute.
LEMMA SharedCounts ==
    ASSUME TypeOK, RefInv, NEW a \in Actors, Shared(a)
    PROVE  Counts' /\ NoAbort'
<1>r. ASSUME NEW p, Balanced(a, p, call[a]), pc[a] # "idle", ReleaseWith(pins'),
             UNCHANGED <<released, queued, guard>>,
             RefsAt(p, call[a]) = RefsAt(pc[a], call[a]) - 1, pins' = pins,
             PinsAt(p, call[a]) = 0, PinsAt(pc[a], call[a]) = 0
      PROVE  Counts' /\ NoAbort'
  <2>1. pins' = pins + PinsAt(p, call[a]) - PinsAt(pc[a], call[a])
    BY <1>r DEF TypeOK
  <2> QED
    BY <1>r, <2>1, ReleaseBalance
<1>b. ASSUME NEW p, pc' = [pc EXCEPT ![a] = p], call' = call PROVE Balanced(a, p, call[a])
  <2>1. call' = [call EXCEPT ![a] = call[a]]
    BY <1>b DEF TypeOK
  <2> QED
    BY <1>b, <2>1, Balance
<1> USE DEF TypeOK, RefInv, Places, Counts, NoAbort, PointsOf, RefsAt, PinsAt, One,
        PublishPCs, StartPCs, ColdPCs, CancelPCs, Dropping, At, Goto, Unchanged,
        owner_vars, memory_vars
<1>1. CASE ClaimStart(a)
  <2> DEFINE p == IF state = "created" THEN "push" ELSE "startDone"
  <2>1. pc' = [pc EXCEPT ![a] = p] /\ call' = call
    BY <1>1 DEF ClaimStart
  <2> HIDE DEF p
  <2>2. Balanced(a, p, call[a])
    BY <2>1, <1>b
  <2> QED
    BY <1>1, <2>2 DEF Balanced, p, ClaimStart
<1>2. CASE PushReady(a)
  <2> DEFINE p == "startDone"
  <2>1. pc' = [pc EXCEPT ![a] = p] /\ call' = call
    BY <1>2 DEF PushReady
  <2> HIDE DEF p
  <2>2. Balanced(a, p, call[a])
    BY <2>1, <1>b
  <2>3. RefsAt(p, call[a]) = RefsAt(pc[a], call[a]) /\ RefsAt(pc[a], call[a]) \in 1..9
        /\ PinsAt(p, call[a]) = PinsAt(pc[a], call[a]) /\ PinsAt(pc[a], call[a]) \in 0..9
    BY <1>2 DEF p, PushReady
  <2> HIDE DEF RefsAt, PinsAt, Places
  <2> QED
    BY <1>2, <2>2, <2>3 DEF Balanced, PushReady, Retain
<1>3. CASE StartDone(a)
  <2> DEFINE p == AfterStart(a)
  <2>1. pc' = [pc EXCEPT ![a] = p] /\ call' = call
    BY <1>3 DEF StartDone
  <2> HIDE DEF p
  <2>2. Balanced(a, p, call[a])
    BY <2>1, <1>b
  <2>3. /\ pc[a] # "idle" /\ ReleaseWith(pins') /\ UNCHANGED <<released, queued, guard>>
        /\ RefsAt(p, call[a]) = RefsAt(pc[a], call[a]) - 1
        /\ PinsAt(p, call[a]) = 0 /\ PinsAt(pc[a], call[a]) = 0 /\ pins' = pins
    BY <1>3 DEF p, StartDone, Release, ReleaseWith, AfterStart
  <2> QED
    BY <2>2, <2>3, <1>r
<1>4. CASE PublishEnter(a)
  <2> DEFINE p == IF state = "finalizing" /\ (Ending(a) # "canceled" \/ cleaned = 0)
                   THEN AfterPublish(a) ELSE "pubCas"
  <2>1. pc' = [pc EXCEPT ![a] = p] /\ call' = call
    BY <1>4 DEF PublishEnter
  <2> HIDE DEF p
  <2>2. Balanced(a, p, call[a])
    BY <2>1, <1>b
  <2> QED
    BY <1>4, <2>2 DEF Balanced, p, PublishEnter, Retain, AfterPublish
<1>5. CASE PublishResult(a)
  <2> DEFINE p == IF CanPublish THEN "pubState" ELSE "pubExit"
  <2>1. pc' = [pc EXCEPT ![a] = p] /\ call' = call
    BY <1>5 DEF PublishResult
  <2> HIDE DEF p
  <2>2. Balanced(a, p, call[a])
    BY <2>1, <1>b
  <2> QED
    BY <1>5, <2>2 DEF Balanced, p, PublishResult
<1>6. CASE PublishState(a)
  <2> DEFINE p == "pubCount"
  <2>1. pc' = [pc EXCEPT ![a] = p] /\ call' = call
    BY <1>6 DEF PublishState
  <2> HIDE DEF p
  <2>2. Balanced(a, p, call[a])
    BY <2>1, <1>b
  <2> QED
    BY <1>6, <2>2 DEF Balanced, p, PublishState
<1>7. CASE UncountDetached(a)
  <2> DEFINE p == "drain"
  <2>1. pc' = [pc EXCEPT ![a] = p] /\ call' = call
    BY <1>7 DEF UncountDetached
  <2> HIDE DEF p
  <2>2. Balanced(a, p, call[a])
    BY <2>1, <1>b
  <2> QED
    BY <1>7, <2>2 DEF Balanced, p, UncountDetached
<1>8. CASE PublishExit(a)
  <2> DEFINE p == AfterPublish(a)
  <2>1. pc' = [pc EXCEPT ![a] = p] /\ call' = call
    BY <1>8 DEF PublishExit
  <2> HIDE DEF p
  <2>2. Balanced(a, p, call[a])
    BY <2>1, <1>b
  <2> QED
    BY <1>8, <2>2 DEF Balanced, p, PublishExit, ReleaseWith, LastReference, AfterPublish
<1>9. CASE PublishDone(a)
  <2> DEFINE p == "idle"
  <2>1. pc' = [pc EXCEPT ![a] = p] /\ call' = call
    BY <1>9 DEF PublishDone
  <2> HIDE DEF p
  <2>2. Balanced(a, p, call[a])
    BY <2>1, <1>b
  <2>3. /\ pc[a] # "idle" /\ ReleaseWith(pins') /\ UNCHANGED <<released, queued, guard>>
        /\ RefsAt(p, call[a]) = RefsAt(pc[a], call[a]) - 1
        /\ PinsAt(p, call[a]) = 0 /\ PinsAt(pc[a], call[a]) = 0 /\ pins' = pins
    BY <1>9 DEF p, PublishDone, Release, ReleaseWith
  <2> QED
    BY <2>2, <2>3, <1>r
<1>10. CASE Drain(a)
  <2> DEFINE p == IF MayDispose THEN "dropClaim" ELSE "relOwner"
  <2>1. pc' = [pc EXCEPT ![a] = p] /\ call' = call
    BY <1>10 DEF Drain
  <2> HIDE DEF p
  <2>2. Balanced(a, p, call[a])
    BY <2>1, <1>b
  <2> QED
    BY <1>10, <2>2 DEF Balanced, p, Drain
<1>11. CASE ClaimDrop(a)
  <2> DEFINE p == IF Claimable THEN "markTaken" ELSE "relOwner"
  <2>1. pc' = [pc EXCEPT ![a] = p] /\ call' = call
    BY <1>11 DEF ClaimDrop
  <2> HIDE DEF p
  <2>2. Balanced(a, p, call[a])
    BY <2>1, <1>b
  <2>3. /\ RefsAt(p, call[a]) = RefsAt(pc[a], call[a]) + One(Claimable)
        /\ RefsAt(pc[a], call[a]) \in 1..9
        /\ PinsAt(p, call[a]) = PinsAt(pc[a], call[a]) + One(Claimable)
        /\ PinsAt(pc[a], call[a]) \in 0..9
    BY <1>11 DEF p, ClaimDrop
  <2>4. /\ refs' = refs + One(Claimable) /\ pins' = pins + One(Claimable)
        /\ UNCHANGED <<released, queued, guard, freed, fatal>>
    <3>1. refs \in Int /\ pins \in Int
      OBVIOUS
    <3>2. CASE Claimable
      BY <1>11, <3>1, <3>2 DEF ClaimDrop, Retain
    <3>3. CASE ~Claimable
      BY <1>11, <3>1, <3>3 DEF ClaimDrop
    <3> QED BY <3>2, <3>3
  <2>5. /\ Counts /\ NoAbort /\ One(Claimable) \in {0, 1}
        /\ refs \in Int /\ pins \in Int /\ released \in {0, 1}
    OBVIOUS
  <2> HIDE DEF RefsAt, PinsAt, Places, TypeOK, RefInv, Goto, At, Unchanged, One, Counts, NoAbort
  <2>6. NoAbort'
    BY <2>4, <2>5 DEF NoAbort
  <2>7. refs >= 1 /\ freed' = freed
    BY <2>2, <2>3, <2>4, <2>5 DEF Balanced, Counts
  <2>8. Counts'
    <3>1. refs' = (1 - released') + queued' + guard' + RefsHeld' /\ refs' # 0
      BY <2>2, <2>3, <2>4, <2>5, <2>7 DEF Balanced, Counts
    <3>2. pins' = guard' + PinsHeld' /\ queued' \in Nat /\ guard' \in Nat
      BY <2>2, <2>3, <2>4, <2>5 DEF Balanced, Counts
    <3>3. freed' # 1
      BY <2>5, <2>7 DEF Counts
    <3> QED BY <3>1, <3>2, <3>3 DEF Counts
  <2> QED
    BY <2>6, <2>8
<1>12. CASE MarkTaken(a)
  <2> DEFINE p == "markDropped"
  <2>1. pc' = [pc EXCEPT ![a] = p] /\ call' = call
    BY <1>12 DEF MarkTaken
  <2> HIDE DEF p
  <2>2. Balanced(a, p, call[a])
    BY <2>1, <1>b
  <2> QED
    BY <1>12, <2>2 DEF Balanced, p, MarkTaken
<1>13. CASE MarkDropped(a)
  <2> DEFINE p == "relOwner"
  <2>1. pc' = [pc EXCEPT ![a] = p] /\ call' = call
    BY <1>13 DEF MarkDropped
  <2> HIDE DEF p
  <2>2. Balanced(a, p, call[a])
    BY <2>1, <1>b
  <2> QED
    BY <1>13, <2>2 DEF Balanced, p, MarkDropped, ReleaseWith, LastReference
<1>14. CASE ReleaseOwner(a)
  <2> DEFINE p == IF OwnerDue THEN "ownerRef" ELSE AfterOwner(a)
  <2>1. pc' = [pc EXCEPT ![a] = p] /\ call' = call
    BY <1>14 DEF ReleaseOwner
  <2> HIDE DEF p
  <2>2. Balanced(a, p, call[a])
    BY <2>1, <1>b
  <2> QED
    BY <1>14, <2>2 DEF Balanced, p, ReleaseOwner, OwnerDue, AfterOwner
<1>15. CASE ReleaseOwnerRef(a)
  <2> DEFINE p == AfterOwner(a)
  <2>1. pc' = [pc EXCEPT ![a] = p] /\ call' = call
    BY <1>15 DEF ReleaseOwnerRef
  <2> HIDE DEF p
  <2>2. Balanced(a, p, call[a])
    BY <2>1, <1>b
  <2> QED
    BY <1>15, <2>2 DEF Balanced, p, ReleaseOwnerRef, Release, ReleaseWith, LastReference, AfterOwner
<1>16. CASE CancelLook(a)
  <2> DEFINE p == IF state = "created" THEN "finalize" ELSE "cancelDone"
  <2>1. pc' = [pc EXCEPT ![a] = p] /\ call' = call
    BY <1>16 DEF CancelLook
  <2> HIDE DEF p
  <2>2. Balanced(a, p, call[a])
    BY <2>1, <1>b
  <2> QED
    BY <1>16, <2>2 DEF Balanced, p, CancelLook
<1>17. CASE Finalize(a)
  <2> DEFINE p == IF state = "created" THEN "cleanup" ELSE "cancelDone"
  <2>1. pc' = [pc EXCEPT ![a] = p] /\ call' = call
    BY <1>17 DEF Finalize
  <2> HIDE DEF p
  <2>2. Balanced(a, p, call[a])
    BY <2>1, <1>b
  <2> QED
    BY <1>17, <2>2 DEF Balanced, p, Finalize, Retain
<1>18. CASE Cleanup(a)
  <2> DEFINE p == "pubEnter"
  <2>1. pc' = [pc EXCEPT ![a] = p] /\ call' = call
    BY <1>18 DEF Cleanup
  <2> HIDE DEF p
  <2>2. Balanced(a, p, call[a])
    BY <2>1, <1>b
  <2> QED
    BY <1>18, <2>2 DEF Balanced, p, Cleanup
<1>19. CASE FinalizeDone(a)
  <2> DEFINE p == "cancelDone"
  <2>1. pc' = [pc EXCEPT ![a] = p] /\ call' = call
    BY <1>19 DEF FinalizeDone
  <2> HIDE DEF p
  <2>2. Balanced(a, p, call[a])
    BY <2>1, <1>b
  <2> QED
    BY <1>19, <2>2 DEF Balanced, p, FinalizeDone, ReleaseWith, LastReference
<1>20. CASE CancelDone(a)
  <2> DEFINE p == AfterCancel(a)
  <2>1. pc' = [pc EXCEPT ![a] = p] /\ call' = call
    BY <1>20 DEF CancelDone
  <2> HIDE DEF p
  <2>2. Balanced(a, p, call[a])
    BY <2>1, <1>b
  <2>3. /\ pc[a] # "idle" /\ ReleaseWith(pins') /\ UNCHANGED <<released, queued, guard>>
        /\ RefsAt(p, call[a]) = RefsAt(pc[a], call[a]) - 1
        /\ PinsAt(p, call[a]) = 0 /\ PinsAt(pc[a], call[a]) = 0 /\ pins' = pins
    BY <1>20 DEF p, CancelDone, Release, ReleaseWith, AfterCancel
  <2> QED
    BY <2>2, <2>3, <1>r
<1> QED
  BY <1>1, <1>2, <1>3, <1>4, <1>5, <1>6, <1>7, <1>8, <1>9, <1>10, <1>11, <1>12, <1>13, <1>14, <1>15, <1>16, <1>17, <1>18, <1>19, <1>20 DEF Shared

\* So they do in the steps of the owner of the handle.
LEMMA HandleCounts ==
    ASSUME TypeOK, RefInv, HandleStep
    PROVE  Counts' /\ NoAbort'
<1>h. Handle \in Actors
  BY ActorsFinite
<1>b. ASSUME NEW p, NEW c, pc' = [pc EXCEPT ![Handle] = p],
             call' = [call EXCEPT ![Handle] = c]
      PROVE  Balanced(Handle, p, c)
  BY <1>b, <1>h, Balance
<1>r. ASSUME NEW p, NEW c, Balanced(Handle, p, c), pc[Handle] # "idle",
             ReleaseWith(pins'), UNCHANGED <<released, queued, guard>>,
             RefsAt(p, c) = RefsAt(pc[Handle], call[Handle]) - 1,
             pins' = pins + PinsAt(p, c) - PinsAt(pc[Handle], call[Handle]),
             PinsAt(p, c) = 0
      PROVE  Counts' /\ NoAbort'
  BY <1>r, <1>h, ReleaseBalance
<1> USE <1>h DEF TypeOK, RefInv, Places, Counts, NoAbort, PointsOf, RefsAt, PinsAt, One,
        PublishPCs, StartPCs, ColdPCs, CancelPCs, Dropping, At, Goto, Unchanged,
        owner_vars, memory_vars
<1>1. CASE TakeLook
  <2> DEFINE p == IF state = "completed" /\ owner = "consumer" /\ result = "ready"
                   THEN "takeClaim" ELSE "idle"
             c == call[Handle]
  <2>1. pc' = [pc EXCEPT ![Handle] = p] /\ call' = [call EXCEPT ![Handle] = c]
    BY <1>1 DEF TakeLook
  <2> HIDE DEF p, c
  <2>2. Balanced(Handle, p, c)
    BY <2>1, <1>b
  <2> QED
    BY <1>1, <2>2 DEF Balanced, p, c, TakeLook, Release, ReleaseWith, LastReference
<1>2. CASE TakeClaim
  <2> DEFINE p == IF Claimable THEN "takeCommit" ELSE "idle"
             c == call[Handle]
  <2>1. pc' = [pc EXCEPT ![Handle] = p] /\ call' = [call EXCEPT ![Handle] = c]
    BY <1>2 DEF TakeClaim
  <2> HIDE DEF p, c
  <2>2. Balanced(Handle, p, c)
    BY <2>1, <1>b
  <2>3. CASE Claimable
    BY <1>2, <2>2, <2>3 DEF Balanced, p, c, TakeClaim
  <2>4. CASE ~Claimable
    <3>1. /\ pc[Handle] # "idle" /\ ReleaseWith(pins')
          /\ UNCHANGED <<released, queued, guard>>
          /\ RefsAt(p, c) = RefsAt(pc[Handle], call[Handle]) - 1
          /\ PinsAt(p, c) = 0 /\ PinsAt(pc[Handle], call[Handle]) = 1
          /\ pins' = pins - 1 /\ pins \in Int
      BY <1>2, <2>4 DEF p, c, TakeClaim, ReleaseWith
    <3>2. pins' = pins + PinsAt(p, c) - PinsAt(pc[Handle], call[Handle])
      BY <3>1
    <3> QED
      BY <2>2, <3>1, <3>2, <1>r
  <2> QED
    BY <2>3, <2>4
<1>3. CASE TakeCommit
  <2> DEFINE p == "idle"
             c == call[Handle]
  <2>1. pc' = [pc EXCEPT ![Handle] = p] /\ call' = [call EXCEPT ![Handle] = c]
    BY <1>3 DEF TakeCommit
  <2> HIDE DEF p, c
  <2>2. Balanced(Handle, p, c)
    BY <2>1, <1>b
  <2> QED
    BY <1>3, <2>2 DEF Balanced, p, c, TakeCommit
<1>4. CASE DetachOwner
  <2> DEFINE p == IF owner = "consumer" THEN "detFlag" ELSE "detDone"
             c == call[Handle]
  <2>1. pc' = [pc EXCEPT ![Handle] = p] /\ call' = [call EXCEPT ![Handle] = c]
    BY <1>4 DEF DetachOwner
  <2> HIDE DEF p, c
  <2>2. Balanced(Handle, p, c)
    BY <2>1, <1>b
  <2> QED
    BY <1>4, <2>2 DEF Balanced, p, c, DetachOwner
<1>5. CASE DetachFlag
  <2> DEFINE p == "detStart"
             c == call[Handle]
  <2>1. pc' = [pc EXCEPT ![Handle] = p] /\ call' = [call EXCEPT ![Handle] = c]
    BY <1>5 DEF DetachFlag
  <2> HIDE DEF p, c
  <2>2. Balanced(Handle, p, c)
    BY <2>1, <1>b
  <2> QED
    BY <1>5, <2>2 DEF Balanced, p, c, DetachFlag
<1>6. CASE DetachStart
  <2> DEFINE p == IF state = "created" THEN "claim" ELSE "detCount"
             c == call[Handle]
  <2>1. pc' = [pc EXCEPT ![Handle] = p] /\ call' = [call EXCEPT ![Handle] = c]
    BY <1>6 DEF DetachStart
  <2> HIDE DEF p, c
  <2>2. Balanced(Handle, p, c)
    BY <2>1, <1>b
  <2> QED
    BY <1>6, <2>2 DEF Balanced, p, c, DetachStart, Retain
<1>7. CASE DetachCount
  <2> DEFINE p == "drain"
             c == call[Handle]
  <2>1. pc' = [pc EXCEPT ![Handle] = p] /\ call' = [call EXCEPT ![Handle] = c]
    BY <1>7 DEF DetachCount
  <2> HIDE DEF p, c
  <2>2. Balanced(Handle, p, c)
    BY <2>1, <1>b
  <2> QED
    BY <1>7, <2>2 DEF Balanced, p, c, DetachCount
<1>8. CASE DetachDone
  <2> DEFINE p == "idle"
             c == call[Handle]
  <2>1. pc' = [pc EXCEPT ![Handle] = p] /\ call' = [call EXCEPT ![Handle] = c]
    BY <1>8 DEF DetachDone
  <2> HIDE DEF p, c
  <2>2. Balanced(Handle, p, c)
    BY <2>1, <1>b
  <2>3. /\ pc[Handle] # "idle" /\ ReleaseWith(pins')
        /\ UNCHANGED <<released, queued, guard>>
        /\ RefsAt(p, c) = RefsAt(pc[Handle], call[Handle]) - 1
        /\ PinsAt(p, c) = 0 /\ PinsAt(pc[Handle], call[Handle]) = 0
        /\ pins' = pins /\ pins \in Int
    BY <1>8 DEF p, c, DetachDone, Release, ReleaseWith
  <2>4. pins' = pins + PinsAt(p, c) - PinsAt(pc[Handle], call[Handle])
    BY <2>3
  <2> QED
    BY <2>2, <2>3, <2>4, <1>r
<1>9. CASE DropLook
  <2> DEFINE p == IF state = "created" THEN "coldCas" ELSE "detCas"
             c == IF state = "created" THEN call[Handle] ELSE "detach"
  <2>1. pc' = [pc EXCEPT ![Handle] = p] /\ call' = [call EXCEPT ![Handle] = c]
    BY <1>9 DEF DropLook
  <2> HIDE DEF p, c
  <2>2. Balanced(Handle, p, c)
    BY <2>1, <1>b
  <2> QED
    BY <1>9, <2>2 DEF Balanced, p, c, DropLook
<1>10. CASE ColdOwner
  <2> DEFINE p == IF owner = "consumer" THEN "coldFlag" ELSE "detCas"
             c == IF owner = "consumer" THEN call[Handle] ELSE "detach"
  <2>1. pc' = [pc EXCEPT ![Handle] = p] /\ call' = [call EXCEPT ![Handle] = c]
    BY <1>10 DEF ColdOwner
  <2> HIDE DEF p, c
  <2>2. Balanced(Handle, p, c)
    BY <2>1, <1>b
  <2> QED
    BY <1>10, <2>2 DEF Balanced, p, c, ColdOwner
<1>11. CASE ColdFlag
  <2> DEFINE p == "cancelLook"
             c == call[Handle]
  <2>1. pc' = [pc EXCEPT ![Handle] = p] /\ call' = [call EXCEPT ![Handle] = c]
    BY <1>11 DEF ColdFlag
  <2> HIDE DEF p, c
  <2>2. Balanced(Handle, p, c)
    BY <2>1, <1>b
  <2> QED
    BY <1>11, <2>2 DEF Balanced, p, c, ColdFlag, Retain
<1>12. CASE DropCount
  <2> DEFINE p == "detDone"
             c == call[Handle]
  <2>1. pc' = [pc EXCEPT ![Handle] = p] /\ call' = [call EXCEPT ![Handle] = c]
    BY <1>12 DEF DropCount
  <2> HIDE DEF p, c
  <2>2. Balanced(Handle, p, c)
    BY <2>1, <1>b
  <2> QED
    BY <1>12, <2>2 DEF Balanced, p, c, DropCount
<1> QED
  BY <1>1, <1>2, <1>3, <1>4, <1>5, <1>6, <1>7, <1>8, <1>9, <1>10, <1>11, <1>12 DEF HandleStep

\* A new task has the owner's reference and no pin.
LEMMA InitRefInv == Init => RefInv
<1> SUFFICES ASSUME Init PROVE RefInv
  OBVIOUS
<1>1. /\ Inside = {} /\ Publishing = {} /\ Consuming = {} /\ Disowning = {}
      /\ Finalizing = {} /\ Starting = {} /\ Canceling = {} /\ Running = {}
      /\ Taking = {}
  BY DEF Init, Inside, Publishing, Consuming, Disowning, Finalizing, Starting, Canceling,
         Running, Taking, PublishPCs, ColdPCs, StartPCs, CancelPCs, Dropping
<1>2. RefsHeld = 0 /\ PinsHeld = 0
  BY <1>1, FS_EmptySet DEF RefsHeld, PinsHeld
<1>3. Counts /\ NoAbort
  BY <1>2 DEF Init, Counts, NoAbort
<1>4. Places /\ OwnerFlags
  BY ActorsFinite DEF Init, Places, OwnerFlags
<1> QED
  BY <1>3, <1>4 DEF RefInv

\* The totals depend on where the actors are and on nothing else.
LEMMA TotalsStay ==
    ASSUME UNCHANGED <<pc, call>> PROVE RefsHeld' = RefsHeld /\ PinsHeld' = PinsHeld
  BY DEF RefsHeld, PinsHeld, Inside, Publishing, Consuming, Disowning, Finalizing,
         Starting, Canceling, Running, Taking

\* Every step of the specification preserves RefInv.
LEMMA NextRefInv == TypeOK /\ RefInv /\ [Next]_vars => RefInv'
<1> SUFFICES ASSUME TypeOK, RefInv, [Next]_vars PROVE RefInv'
  OBVIOUS
<1>h. Handle \in Actors /\ Worker \in Actors /\ Handle # Worker
  BY ActorsFinite
<1>t. /\ RefsHeld \in Nat /\ PinsHeld \in Nat
      /\ RefsHeld = 0 => PinsHeld = 0
  BY Totals
<1>b. ASSUME NEW a \in Actors, NEW p, NEW c, pc' = [pc EXCEPT ![a] = p],
             call' = [call EXCEPT ![a] = c]
      PROVE  Balanced(a, p, c)
  BY <1>b, Balance
<1>u. UNCHANGED <<pc, call>> => RefsHeld' = RefsHeld /\ PinsHeld' = PinsHeld
  BY TotalsStay
<1>r. ASSUME NEW p, NEW c, Balanced(Worker, p, c), pc[Worker] # "idle",
             ReleaseWith(pins'), UNCHANGED <<released, queued, guard>>,
             RefsAt(p, c) = RefsAt(pc[Worker], call[Worker]) - 1,
             pins' = pins + PinsAt(p, c) - PinsAt(pc[Worker], call[Worker]),
             PinsAt(p, c) = 0
      PROVE  Counts' /\ NoAbort'
  BY <1>r, <1>h, ReleaseBalance
<1>s. CASE \E a \in Actors : Shared(a)
  BY <1>s, SharedPlaces, SharedCounts DEF RefInv
<1>v. CASE HandleStep
  BY <1>v, HandlePlaces, HandleCounts DEF RefInv
<1> USE <1>h DEF TypeOK, RefInv, Places, OwnerFlags, Counts, NoAbort, PointsOf, RefsAt,
        PinsAt, One, PublishPCs, StartPCs, ColdPCs, CancelPCs, Dropping, At, Goto,
        Enter, Unchanged, owner_vars, memory_vars
<1>1. CASE PopReady
  <2>1. Balanced(Worker, "running", "run")
    BY <1>1, <1>b DEF PopReady
  <2> QED
    BY <1>1, <2>1 DEF PopReady, Balanced
<1>2. CASE PopStale
  <2>1. /\ UNCHANGED <<pc, call, released, guard, pins, handle, detached>>
        /\ queued' = queued - 1 /\ queued > 0
    BY <1>2 DEF PopStale
  <2>2. refs \in Nat /\ refs >= 1 /\ (refs = 1 => RefsHeld <= 0 /\ guard <= 0)
    BY <1>t, <2>1
  <2>3. refs = 1 => pins = 0
    BY <1>t, <2>2
  <2>4. NoAbort' /\ refs' = refs - 1 /\ (freed' = 1 <=> refs' = 0)
    BY <1>2, <2>2, <2>3 DEF PopStale, Release, ReleaseWith, LastReference
  <2> QED
    BY <1>t, <1>u, <2>1, <2>4
<1>3. CASE ClearCurrent
  <2>1. Balanced(Worker, "idle", call[Worker])
    BY <1>3, <1>b DEF ClearCurrent
  <2>2. /\ pc[Worker] # "idle" /\ ReleaseWith(pins')
        /\ UNCHANGED <<released, queued, guard>>
        /\ RefsAt("idle", call[Worker]) = RefsAt(pc[Worker], call[Worker]) - 1
        /\ PinsAt("idle", call[Worker]) = 0 /\ PinsAt(pc[Worker], call[Worker]) = 1
        /\ pins' = pins - 1 /\ pins \in Int
    BY <1>3 DEF ClearCurrent, ReleaseWith
  <2>3. pins' = pins + PinsAt("idle", call[Worker]) - PinsAt(pc[Worker], call[Worker])
    BY <2>2
  <2>4. Counts' /\ NoAbort'
    BY <2>1, <2>2, <2>3, <1>r
  <2> QED
    BY <1>3, <2>4 DEF ClearCurrent
<1>4. CASE ReleaseAccess
  <2>1. /\ UNCHANGED <<pc, call, released, queued, handle, detached>>
        /\ guard' = guard - 1 /\ guard > 0 /\ pins' = pins - 1
    BY <1>4 DEF ReleaseAccess
  <2>2. refs \in Nat /\ refs >= 1 /\ (refs = 1 => RefsHeld <= 0 /\ guard <= 1)
    BY <1>t, <2>1
  <2>3. refs = 1 => pins' = 0
    BY <1>t, <2>1, <2>2
  <2>4. NoAbort' /\ refs' = refs - 1 /\ (freed' = 1 <=> refs' = 0)
    BY <1>4, <2>1, <2>2, <2>3 DEF ReleaseAccess, ReleaseWith, LastReference
  <2> QED
    BY <1>t, <1>u, <2>1, <2>4
<1>5. CASE EndCoroutine
  <2>1. Balanced(Worker, "pubEnter", call[Worker])
    BY <1>5, <1>b DEF EndCoroutine
  <2> QED
    BY <1>5, <2>1 DEF EndCoroutine, Balanced
<1>6. ASSUME NEW a \in Actors, NEW c, NEW p, Calls(a, c, p),
             \/ c = "start" /\ p = "claim"
             \/ c = "cancel" /\ p = "cancelLook"
             \/ c = "take" /\ p = "takeLook" /\ a = Handle
             \/ c \in {"ready", "canceled"} /\ p = "pubEnter"
      PROVE  RefInv'
  <2>1. Balanced(a, p, c)
    BY <1>6, <1>b DEF Calls
  <2>2. a # Worker /\ refs >= 1
    BY <1>6, <1>t, ActorsAssumption DEF Calls, MayCall
  <2>3. Places' /\ OwnerFlags'
    BY <1>6, <2>2 DEF Calls
  <2>4. RefsAt(p, c) = 1 /\ PinsAt(p, c) = 0
    BY <1>6
  <2>5. RefsAt(pc[a], call[a]) = 0 /\ PinsAt(pc[a], call[a]) = 0
    BY <1>6 DEF Calls
  <2> HIDE DEF RefsAt, PinsAt, Places
  <2>6. Counts' /\ NoAbort'
    BY <1>6, <2>1, <2>2, <2>4, <2>5 DEF Calls, Retain, Balanced
  <2> QED
    BY <2>3, <2>6
<1>7. CASE Call
  <2>1. ASSUME NEW a \in Actors, CallStart(a) \/ CallCancel(a) PROVE RefInv'
    BY <2>1, <1>6 DEF CallStart, CallCancel
  <2>2. ASSUME NEW a \in Publishers, CallPublish(a) PROVE RefInv'
    BY <2>2, <1>6, ActorsAssumption DEF CallPublish, Actors
  <2>3. CASE CallTake
    BY <2>3, <1>6 DEF CallTake
  <2>4. CASE CallDetach
    <3>1. Balanced(Handle, "detCas", "detach")
      BY <2>4, <1>b DEF CallDetach, GiveUp
    <3> QED
      BY <2>4, <1>t, <3>1 DEF CallDetach, GiveUp, Retain, Balanced
  <2>5. CASE CallDrop
    <3>1. Balanced(Handle, "dropLook", "drop")
      BY <2>5, <1>b DEF CallDrop, GiveUp
    <3> QED
      BY <2>5, <1>t, <3>1 DEF CallDrop, GiveUp, Retain, Balanced
  <2> QED
    BY <1>7, <2>1, <2>2, <2>3, <2>4, <2>5 DEF Call
<1>8. CASE UNCHANGED vars
  BY <1>8, <1>u DEF vars, count_vars, result_vars
<1> QED
  BY <1>s, <1>v, <1>1, <1>2, <1>3, <1>4, <1>5, <1>7, <1>8 DEF Next, Runtime, WorkerStep

\* RefInv holds in every reachable state.
THEOREM RefInvHolds == Spec => []RefInv
<1>1. IInv => TypeOK
  BY DEF IInv
<1> QED
  BY <1>1, InitRefInv, NextRefInv, IInvHolds, PTL DEF Spec

\* For any number of threads no reference count runs below zero and no pinned
\* frame is retired: the runtime never aborts.
THEOREM RuntimeNeverAborts == Spec => []NoAbort
<1>1. RefInv => NoAbort
  BY DEF RefInv
<1> QED
  BY <1>1, RefInvHolds, PTL

\* For any number of threads, once frame and TCB are freed nobody is inside the
\* runtime for this task, no entry of it is queued, no access to its result is
\* open and its handle is gone.
THEOREM NoUseAfterFree == Spec => []FreedMeansUnused
<1>1. TypeOK /\ RefInv => FreedMeansUnused
  <2> SUFFICES ASSUME TypeOK, RefInv, freed = 1
               PROVE  /\ queued = 0 /\ guard = 0 /\ handle = "gone"
                      /\ \A a \in Actors : pc[a] = "idle"
    BY DEF FreedMeansUnused
  <2>1. refs = 0 /\ RefsHeld \in Nat
    BY Totals DEF RefInv, Counts
  <2>2. queued <= 0 /\ guard <= 0 /\ RefsHeld <= 0 /\ 1 - released <= 0
    BY <2>1 DEF RefInv, Counts, TypeOK
  <2>3. queued = 0 /\ guard = 0 /\ RefsHeld = 0 /\ released = 1
    BY <2>1, <2>2 DEF RefInv, Counts, TypeOK
  <2> QED
    BY <2>3, Totals DEF RefInv, OwnerFlags
<1>2. IInv => TypeOK
  BY DEF IInv
<1> QED
  BY <1>1, <1>2, IInvHolds, RefInvHolds, PTL

-----------------------------------------------------------------------------
(* The counter of detached tasks.                                          *)

\* The owner of the handle has set the detached flag and not come to count yet.
Uncounted ==
    \/ pc[Handle] \in {"detStart", "detCount"}
    \/ call[Handle] = "detach" /\ pc[Handle] \in StartPCs
    \/ call[Handle] = "drop" /\ pc[Handle] \in CancelPCs \cup {"dropCount"}

\* A counted task is detached and, once it has ended, its publisher is about to
\* take it off the counter; a detached task that lives and is not counted has an
\* owner that is still about to count it, and that owner has started it first.
CountInv ==
    /\ counted = 1 => detached = 1
    /\ counted = 1 /\ state \in Terminal => \E a \in Actors : pc[a] = "pubCount"
    /\ \A a \in Actors : pc[a] = "pubCount" => state \in Terminal
    /\ Uncounted => detached = 1
    /\ detached = 1 /\ state \notin Terminal /\ counted = 0 => Uncounted
    /\ call[Handle] = "detach" /\ pc[Handle] \in {"push", "startDone", "detCount"}
         => state # "created"

\* The steps of the shared routines preserve CountInv.
LEMMA SharedCountInv ==
    ASSUME IInv, RefInv, CountInv, NEW a \in Actors, Shared(a)
    PROVE  CountInv'
<1> USE ActorsFinite DEF TypeOK, IInv, RefInv, Places, PointsOf, CountInv, Uncounted,
        PublishPCs, StartPCs, ColdPCs, CancelPCs, Terminal, At, Goto, Unchanged,
        owner_vars, count_vars
<1>t. Handle \in Actors
  BY ActorsAssumption DEF Actors
<1>1. CASE ClaimStart(a)
  BY <1>1, <1>t DEF ClaimStart
<1>2. CASE PushReady(a)
  BY <1>2, <1>t DEF PushReady
<1>3. CASE StartDone(a)
  BY <1>3, <1>t DEF StartDone, AfterStart
<1>4. CASE PublishEnter(a)
  BY <1>4, <1>t DEF PublishEnter, AfterPublish
<1>5. CASE PublishResult(a)
  BY <1>5, <1>t DEF PublishResult
<1>6. CASE PublishState(a)
  BY <1>6, <1>t DEF PublishState
<1>7. CASE UncountDetached(a)
  BY <1>7, <1>t DEF UncountDetached
<1>8. CASE PublishExit(a)
  BY <1>8, <1>t DEF PublishExit, AfterPublish
<1>9. CASE PublishDone(a)
  BY <1>9, <1>t DEF PublishDone
<1>10. CASE Drain(a)
  BY <1>10, <1>t DEF Drain
<1>11. CASE ClaimDrop(a)
  BY <1>11, <1>t DEF ClaimDrop
<1>12. CASE MarkTaken(a)
  BY <1>12, <1>t DEF MarkTaken
<1>13. CASE MarkDropped(a)
  BY <1>13, <1>t DEF MarkDropped
<1>14. CASE ReleaseOwner(a)
  BY <1>14, <1>t DEF ReleaseOwner, OwnerDue, AfterOwner
<1>15. CASE ReleaseOwnerRef(a)
  BY <1>15, <1>t DEF ReleaseOwnerRef, AfterOwner
<1>16. CASE CancelLook(a)
  BY <1>16, <1>t DEF CancelLook
<1>17. CASE Finalize(a)
  BY <1>17, <1>t DEF Finalize
<1>18. CASE Cleanup(a)
  BY <1>18, <1>t DEF Cleanup
<1>19. CASE FinalizeDone(a)
  BY <1>19, <1>t DEF FinalizeDone
<1>20. CASE CancelDone(a)
  BY <1>20, <1>t DEF CancelDone, AfterCancel
<1> QED
  BY <1>1, <1>2, <1>3, <1>4, <1>5, <1>6, <1>7, <1>8, <1>9, <1>10, <1>11, <1>12, <1>13,
     <1>14, <1>15, <1>16, <1>17, <1>18, <1>19, <1>20 DEF Shared

\* So do the steps of the owner of the handle: it counts after it has detached,
\* and after it has started a task that was cold.
LEMMA HandleCountInv ==
    ASSUME IInv, RefInv, CountInv, HandleStep
    PROVE  CountInv'
<1> USE ActorsFinite DEF TypeOK, IInv, RefInv, Places, PointsOf, CountInv, Uncounted,
        PublishPCs, StartPCs, ColdPCs, CancelPCs, Terminal, At, Goto, Unchanged,
        owner_vars, count_vars
<1>t. Handle \in Actors
  BY ActorsAssumption DEF Actors
<1>1. CASE TakeLook
  BY <1>1, <1>t DEF TakeLook
<1>2. CASE TakeClaim
  BY <1>2, <1>t DEF TakeClaim
<1>3. CASE TakeCommit
  BY <1>3, <1>t DEF TakeCommit
<1>4. CASE DetachOwner
  BY <1>4, <1>t DEF DetachOwner
<1>5. CASE DetachFlag
  BY <1>5, <1>t DEF DetachFlag
<1>6. CASE DetachStart
  BY <1>6, <1>t DEF DetachStart
<1>7. CASE DetachCount
  BY <1>7, <1>t DEF DetachCount, CountDetached, DetachExempt
<1>8. CASE DetachDone
  BY <1>8, <1>t DEF DetachDone
<1>9. CASE DropLook
  BY <1>9, <1>t DEF DropLook
<1>10. CASE ColdOwner
  BY <1>10, <1>t DEF ColdOwner
<1>11. CASE ColdFlag
  BY <1>11, <1>t DEF ColdFlag
<1>12. CASE DropCount
  BY <1>12, <1>t DEF DropCount, CountDetached
<1> QED
  BY <1>1, <1>2, <1>3, <1>4, <1>5, <1>6, <1>7, <1>8, <1>9, <1>10, <1>11, <1>12
     DEF HandleStep

\* Every step preserves CountInv.
LEMMA NextCountInv == IInv /\ RefInv /\ CountInv /\ [Next]_vars => CountInv'
<1> SUFFICES ASSUME IInv, RefInv, CountInv, [Next]_vars PROVE CountInv'
  OBVIOUS
<1>t. Handle \in Actors /\ Worker \in Actors /\ Handle # Worker
      /\ Publishers \subseteq Actors
  BY ActorsAssumption DEF Actors
<1>1. ASSUME NEW a \in Actors, Shared(a) PROVE CountInv'
  BY <1>1, SharedCountInv
<1>2. CASE HandleStep
  BY <1>2, HandleCountInv
<1> USE DEF TypeOK, IInv, RefInv, Places, PointsOf, CountInv, Uncounted, PublishPCs,
        StartPCs, ColdPCs, CancelPCs, Terminal, At, Goto, Enter, Unchanged, owner_vars,
        count_vars
<1>3. CASE WorkerStep
  BY <1>3, <1>t DEF WorkerStep, PopReady, PopStale, ClearCurrent
<1>4. CASE ReleaseAccess
  BY <1>4 DEF ReleaseAccess
<1>5. CASE EndCoroutine
  BY <1>5, <1>t DEF EndCoroutine
<1>6. CASE Call
  <2>1. ASSUME NEW a \in Actors, CallStart(a) \/ CallCancel(a) PROVE CountInv'
    BY <2>1, <1>t DEF CallStart, CallCancel, Calls
  <2>2. ASSUME NEW a \in Publishers, CallPublish(a) PROVE CountInv'
    BY <2>2, <1>t DEF CallPublish, Calls
  <2>3. CASE CallTake \/ CallDetach \/ CallDrop
    BY <2>3, <1>t DEF CallTake, CallDetach, CallDrop, Calls, GiveUp
  <2> QED
    BY <1>6, <2>1, <2>2, <2>3 DEF Call
<1>7. CASE UNCHANGED vars
  BY <1>7 DEF vars
<1> HIDE DEF IInv, RefInv, CountInv
<1> QED
  BY <1>1, <1>2, <1>3, <1>4, <1>5, <1>6, <1>7 DEF Next, Runtime

\* For any number of threads: while nobody is inside the runtime the task counts
\* as a detached task exactly when it is detached and has not ended, so that
\* __toka_spawn_blocking neither waits for an ended task nor leaves a live one.
THEOREM DetachedCountExact == Spec => []DetachedCount
<1>1. Init => CountInv
  BY ActorsFinite, ActorsAssumption DEF Init, CountInv, Uncounted, StartPCs, ColdPCs,
     CancelPCs, PublishPCs, Terminal, Actors
<1>2. IInv /\ CountInv => DetachedCount
  BY ActorsAssumption DEF IInv, TypeOK, CountInv, DetachedCount, Uncounted, StartPCs,
     ColdPCs, CancelPCs, PublishPCs, Actors
<1>3. Spec => []CountInv
  BY <1>1, NextCountInv, IInvHolds, RefInvHolds, PTL DEF Spec
<1> QED
  BY <1>2, <1>3, IInvHolds, PTL
=============================================================================
