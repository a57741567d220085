---------------------------- MODULE AwaitProofs ----------------------------
(***************************************************************************)
(* What is proved about module Await, for every set of tasks, every plan   *)
(* of awaits and every number of cancellations.                            *)
(*                                                                         *)
(* With any callers of request_cancel, native threads or not, a task goes  *)
(* on with its child's value only if nobody has asked it to cancel, or     *)
(* the request is between its flag and its claim of the await.             *)
(* NormalClaimed, the only word that lets it go on, is written by          *)
(* toka_task_resolve_await alone: AwaitIInv says that nobody else leaves   *)
(* that word behind between the arming of an await and its resolution.     *)
(* AskedInv says that after the last look at cancel_requested a request    *)
(* that has made its claim has changed the word, so that the               *)
(* compare-and-swap fails.                                                 *)
(*                                                                         *)
(* With all callers on the executor's thread (OnExecutor) and every task   *)
(* awaited at one place (AwaitedOnce):                                     *)
(*   - a suspended await is resumed by the end of its child and nothing    *)
(*     else.  ChainInv says where each coroutine is, how far the           *)
(*     publication of each end is, and that the links between awaiter and  *)
(*     child stand exactly as long as the await is suspended;              *)
(*   - a cancellation reaches the task that sleeps.  ReachInv says that    *)
(*     as long as one above a sleeper is cancelled, a canceller is on its  *)
(*     way down the links to the sleeper;                                  *)
(*   - no await traps, if no task drains after it caught a cancellation    *)
(*     (DrainPlan).  TrapInv follows the resolution word along the end of  *)
(*     the child and the cancellation of a drain's child to the task that  *)
(*     drains.                                                             *)
(***************************************************************************)
EXTENDS Await, TLAPS

TCBs == [state : States, gen : Nat, resolution : Resolutions,
         active_child : Tasks \cup {None}, parent_tcb : Tasks \cup {None},
         cancel_requested : {0, 1}, cancel_handled : {0, 1}]
Frames == [pc : Points, next : Nat \ {0}]

\* The program points between the start of an await and its end.
InAwait == {"entry", "prepare", "install", "unlink", "running", "post",
            "suspended", "resume", "claim", "sample", "canceled", "ready"}

\* Those at which the resolution word is armed and not yet resolved.
Unresolved == {"install", "unlink", "running", "post", "suspended", "resume", "claim"}

\* Those inside toka_task_resolve_await and toka_task_resolve_await_barrier.
Resolving == {"post", "resume", "claim"}

\* A coroutine inside an await is at an await of its plan.
AwaitPoint ==
    \A t \in Tasks : frame[t].pc \in InAwait => frame[t].next \in 1..Len(Plan[t])

\* The word of an await that is not resolved yet does not say NormalClaimed.
NotClaimed ==
    \A t \in Tasks :
        frame[t].pc \in Unresolved => tcb[t].resolution # "NormalClaimed"

AwaitIInv ==
    /\ tcb \in [Tasks -> TCBs]
    /\ frame \in [Tasks -> Frames]
    /\ AwaitPoint
    /\ NotClaimed

-----------------------------------------------------------------------------
\* The child of an await of the plan is a task.
LEMMA ChildIsTask ==
    ASSUME NEW t \in Tasks, frame[t].next \in 1..Len(Plan[t])
    PROVE  Child(t) \in Tasks
  <1> DEFINE Awaited == [child : Tasks \ Roots, kind : {"plain", "catch", "barrier"}]
  <1>1. Plan[t] \in Seq(Awaited)
    BY AwaitAssumption DEF AwaitAssumption
  <1> HIDE DEF Awaited
  <1>2. Plan[t][frame[t].next] \in Awaited
    BY <1>1
  <1> QED BY <1>2 DEF Child, Awaited

\* A coroutine that moves within an await, or out of it, keeps the frames well
\* formed when the await it is at is one of its plan.
LEMMA GotoKeeps ==
    ASSUME NEW t \in Tasks, NEW point \in Points, AwaitIInv, Goto(t, point),
           point \in InAwait => frame[t].next \in 1..Len(Plan[t])
    PROVE  /\ frame' \in [Tasks -> Frames]
           /\ AwaitPoint'
           /\ frame'[t].pc = point
           /\ \A s \in Tasks : s # t => frame'[s] = frame[s]
  BY DEF Goto, AwaitIInv, AwaitPoint, Frames

-----------------------------------------------------------------------------
(* The steps that write tcb keep its type; each lemma is about the tcb the *)
(* step leaves behind.                                                     *)

\* Clearing an await link changes no resolution word.
LEMMA UnlinkedType ==
    ASSUME NEW c, NEW p, tcb \in [Tasks -> TCBs]
    PROVE  /\ Unlinked(c, p) \in [Tasks -> TCBs]
           /\ \A s \in Tasks : Unlinked(c, p)[s].resolution = tcb[s].resolution
  <1> DEFINE m == [tcb EXCEPT ![c].parent_tcb = IF @ = p THEN None ELSE @]
  <1>1. m \in [Tasks -> TCBs] /\ \A s \in Tasks : m[s].resolution = tcb[s].resolution
    BY ZenonT(60) DEF TCBs
  <1>2. Unlinked(c, p) = [m EXCEPT ![p].active_child = IF @ = c THEN None ELSE @]
    BY DEF Unlinked
  <1> DEFINE n == [m EXCEPT ![p].active_child = IF @ = c THEN None ELSE @]
  <1> HIDE DEF m
  <1>3. n \in [Tasks -> TCBs] /\ \A s \in Tasks : n[s].resolution = m[s].resolution
    <2>1. CASE p \in Tasks
      <3>1. [m[p] EXCEPT !.active_child = IF @ = c THEN None ELSE @] \in TCBs
        BY <1>1, <2>1 DEF TCBs
      <3>2. [m[p] EXCEPT !.active_child = IF @ = c THEN None ELSE @].resolution
              = m[p].resolution
        BY <1>1, <2>1 DEF TCBs
      <3> QED BY <1>1, <2>1, <3>1, <3>2
    <2>2. CASE p \notin Tasks
      BY <1>1, <2>2
    <2> QED BY <2>1, <2>2
  <1> HIDE DEF n
  <1>4. Unlinked(c, p) = n
    BY <1>2 DEF n
  <1> QED BY <1>1, <1>3, <1>4

\* Storing a state in a task changes no resolution word.
LEMMA StateStored ==
    ASSUME NEW t, NEW v \in States, tcb \in [Tasks -> TCBs]
    PROVE  /\ [tcb EXCEPT ![t].state = v] \in [Tasks -> TCBs]
           /\ \A s \in Tasks :
                [tcb EXCEPT ![t].state = v][s].resolution = tcb[s].resolution
  BY DEF TCBs

\* Writing a resolution word touches that task's word and nothing else of type.
LEMMA WordStored ==
    ASSUME NEW t, NEW w \in Resolutions, tcb \in [Tasks -> TCBs]
    PROVE  /\ [tcb EXCEPT ![t].resolution = w] \in [Tasks -> TCBs]
           /\ t \in Tasks => [tcb EXCEPT ![t].resolution = w][t].resolution = w
           /\ \A s \in Tasks : s # t =>
                [tcb EXCEPT ![t].resolution = w][s].resolution = tcb[s].resolution
  BY DEF TCBs

\* The word a resolution leaves is one of the words, and NormalClaimed only
\* if it was there already or the task awaits a drain barrier
\* (toka_task_resolve_await, toka_task_resolve_await_barrier).
LEMMA ResolutionWord ==
    ASSUME NEW t \in Tasks, tcb \in [Tasks -> TCBs]
    PROVE  /\ Resolution(t) \in Resolutions
           /\ Resolution(t) = "NormalClaimed" =>
                tcb[t].resolution = "NormalClaimed" \/ Kind(t) = "barrier"
           /\ Resolved(t) \in {"ready", "canceled", "claim", "sample"}
           /\ Resolved(t) = "claim" => /\ Resolution(t) = "ChildNormal"
                                       /\ tcb[t].cancel_requested = 0
           /\ Resolved(t) = "ready" =>
                tcb[t].resolution = "NormalClaimed" \/ Kind(t) = "barrier"
  <1>1. tcb[t].resolution \in Resolutions /\ tcb[t].cancel_requested \in {0, 1}
    BY DEF TCBs
  <1>2. ChildOutcome(Child(t)) \in {"ChildCanceled", "ChildNormal", "Armed"}
    BY DEF ChildOutcome
  <1>3. CASE Kind(t) = "barrier"
    BY <1>1, <1>3 DEF Resolution, ResolvedBarrier, Resolutions, Resolved
  <1>4. CASE Kind(t) # "barrier"
    BY <1>1, <1>2, <1>4 DEF Resolution, ResolvedWord, Resolutions, Resolved
  <1> QED BY <1>3, <1>4
-----------------------------------------------------------------------------
(* A step of the running coroutine.                                        *)

\* Every step of the code CodeGen::genAwaitExpr emits, and of a leaf's body.
LEMMA CoroutineKeeps ==
    ASSUME NEW t \in Tasks, AwaitIInv, CoroutineStep(t)
    PROVE  AwaitIInv'
  <1> USE DEF Runs
  <1>0. /\ tcb \in [Tasks -> TCBs] /\ frame \in [Tasks -> Frames]
        /\ frame[t].pc \in InAwait => frame[t].next \in 1..Len(Plan[t])
        /\ frame[t].pc \in Unresolved => tcb[t].resolution # "NormalClaimed"
        /\ frame[t].next \in Nat \ {0}
        /\ \A s \in Tasks : frame[s].pc \in InAwait => frame[s].next \in 1..Len(Plan[s])
        /\ \A s \in Tasks : frame[s].pc \in Unresolved => tcb[s].resolution # "NormalClaimed"
    BY DEF AwaitIInv, AwaitPoint, NotClaimed, Frames
  <1>len. Len(Plan[t]) \in Nat
    BY AwaitAssumption DEF AwaitAssumption
  <1>1. CASE AwaitStart(t)
    <2>1. frame[t].next \in 1..Len(Plan[t])
      BY <1>0, <1>1, <1>len DEF AwaitStart, Awaits
    <2>2. /\ frame' \in [Tasks -> Frames] /\ AwaitPoint' /\ frame'[t].pc = "entry"
          /\ \A s \in Tasks : s # t => frame'[s] = frame[s]
      BY <1>1, <2>1, GotoKeeps DEF AwaitStart, Points
    <2>3. /\ tcb' \in [Tasks -> TCBs]
          /\ \A s \in Tasks : tcb'[s].resolution = tcb[s].resolution
      BY <1>0, <1>1 DEF AwaitStart, TCBs, States
    <2> QED BY <1>0, <2>2, <2>3 DEF AwaitIInv, NotClaimed, Unresolved
  <1>2. CASE AwaitEntry(t)
    <2> DEFINE point == IF EntryCancels(t) THEN "canceled"
                        ELSE IF promise[Child(t)].result = "ReadyLive" THEN "ready"
                        ELSE "prepare"
    <2>1. point \in {"canceled", "ready", "prepare"} /\ Goto(t, point) /\ frame[t].pc = "entry"
      BY <1>2 DEF AwaitEntry
    <2> HIDE DEF point
    <2>2. /\ frame' \in [Tasks -> Frames] /\ AwaitPoint' /\ frame'[t].pc = point
          /\ \A s \in Tasks : s # t => frame'[s] = frame[s]
      BY <1>0, <2>1, GotoKeeps DEF Points, InAwait
    <2> QED BY <1>0, <1>2, <2>1, <2>2 DEF AwaitIInv, NotClaimed, Unresolved, AwaitEntry
  <1>3. CASE AwaitPrepare(t)
    <2>1. frame[t].next \in 1..Len(Plan[t])
      BY <1>0, <1>3 DEF AwaitPrepare, InAwait
    <2>2. /\ frame' \in [Tasks -> Frames] /\ AwaitPoint' /\ frame'[t].pc = "install"
          /\ \A s \in Tasks : s # t => frame'[s] = frame[s]
      BY <1>3, <2>1, GotoKeeps DEF AwaitPrepare, Points
    <2> DEFINE c == Child(t)
               own == [tcb[t] EXCEPT !.gen = @ + 1, !.state = "Suspended",
                                     !.resolution = "Armed", !.active_child = c]
               m == [tcb EXCEPT ![t] = own]
    <2>c. c \in Tasks
      BY <2>1, ChildIsTask
    <2> HIDE DEF c
    <2>3. own \in TCBs /\ own.resolution = "Armed"
      <3> DEFINE r == [tcb[t] EXCEPT !.gen = @ + 1, !.state = "Suspended"]
      <3>1. r \in TCBs
        <4>1. tcb[t] \in TCBs /\ tcb[t].gen + 1 \in Nat /\ "Suspended" \in States
          BY <1>0 DEF TCBs, States
        <4> QED BY <4>1 DEF TCBs
      <3>2. own = [r EXCEPT !.resolution = "Armed", !.active_child = c]
        BY <1>0 DEF TCBs
      <3> HIDE DEF r
      <3> QED BY <2>c, <3>1, <3>2 DEF TCBs, Resolutions
    <2>4. tcb' = [m EXCEPT ![c].parent_tcb = t]
      BY <1>0, <1>3 DEF AwaitPrepare, TCBs, c
    <2> HIDE DEF own
    <2>5. /\ m \in [Tasks -> TCBs] /\ m[t].resolution = "Armed"
          /\ \A s \in Tasks : s # t => m[s].resolution = tcb[s].resolution
      BY <1>0, <2>3
    <2> HIDE DEF m
    <2>6. /\ tcb' \in [Tasks -> TCBs]
          /\ \A s \in Tasks : tcb'[s].resolution = m[s].resolution
      BY <2>4, <2>5, <2>c DEF TCBs
    <2> QED BY <1>0, <2>2, <2>5, <2>6 DEF AwaitIInv, NotClaimed
  <1>4. CASE InstallContinuation(t) \/ ContinuationTaken(t)
    <2>1. PICK point \in {"suspended", "unlink"} : Goto(t, point)
      BY <1>4 DEF InstallContinuation, ContinuationTaken
    <2>2. tcb' = tcb /\ frame[t].pc = "install"
      BY <1>4 DEF InstallContinuation, ContinuationTaken
    <2>3. /\ frame' \in [Tasks -> Frames] /\ AwaitPoint' /\ frame'[t].pc = point
          /\ \A s \in Tasks : s # t => frame'[s] = frame[s]
      BY <1>0, <2>1, <2>2, GotoKeeps DEF Points, InAwait
    <2> QED BY <1>0, <2>1, <2>2, <2>3 DEF AwaitIInv, NotClaimed, Unresolved
  <1>5. CASE ClearAwaitLink(t)
    <2>1. /\ frame' \in [Tasks -> Frames] /\ AwaitPoint' /\ frame'[t].pc = "running"
          /\ \A s \in Tasks : s # t => frame'[s] = frame[s]
      BY <1>0, <1>5, GotoKeeps DEF ClearAwaitLink, Points, InAwait
    <2>2. /\ tcb' \in [Tasks -> TCBs]
          /\ \A s \in Tasks : tcb'[s].resolution = tcb[s].resolution
      BY <1>0, <1>5, UnlinkedType DEF ClearAwaitLink
    <2>3. frame[t].pc = "unlink"
      BY <1>5 DEF ClearAwaitLink
    <2> QED BY <1>0, <2>1, <2>2, <2>3 DEF AwaitIInv, NotClaimed, Unresolved
  <1>6. CASE StoreRunning(t)
    <2>1. /\ frame' \in [Tasks -> Frames] /\ AwaitPoint' /\ frame'[t].pc = "post"
          /\ \A s \in Tasks : s # t => frame'[s] = frame[s]
      BY <1>0, <1>6, GotoKeeps DEF StoreRunning, Points, InAwait
    <2>2. /\ tcb' \in [Tasks -> TCBs]
          /\ \A s \in Tasks : tcb'[s].resolution = tcb[s].resolution
      BY <1>0, <1>6, StateStored DEF StoreRunning, States
    <2>3. frame[t].pc = "running"
      BY <1>6 DEF StoreRunning
    <2> QED BY <1>0, <2>1, <2>2, <2>3 DEF AwaitIInv, NotClaimed, Unresolved
  <1>7. CASE Resolve(t)
    <2>1. PICK point \in {"ready", "canceled", "claim", "sample"} :
            Goto(t, point) /\ point = Resolved(t)
      BY <1>0, <1>7, ResolutionWord DEF Resolve
    <2>2. /\ frame' \in [Tasks -> Frames] /\ AwaitPoint' /\ frame'[t].pc = point
          /\ \A s \in Tasks : s # t => frame'[s] = frame[s]
      BY <1>0, <1>7, <2>1, GotoKeeps DEF Resolve, Points, InAwait
    <2>3. /\ tcb' \in [Tasks -> TCBs] /\ tcb'[t].resolution = Resolution(t)
          /\ \A s \in Tasks : s # t => tcb'[s].resolution = tcb[s].resolution
      BY <1>0, <1>7, ResolutionWord, WordStored DEF Resolve
    <2>4. point = "claim" => tcb'[t].resolution # "NormalClaimed"
      BY <1>0, <2>1, <2>3, ResolutionWord
    <2> QED BY <1>0, <2>1, <2>2, <2>3, <2>4 DEF AwaitIInv, NotClaimed, Unresolved
  <1>13. CASE ClaimNormal(t)
    <2>1. frame[t].pc = "claim"
      BY <1>13 DEF ClaimNormal
    <2>2. CASE tcb[t].resolution = "ChildNormal"
      <3>1. Goto(t, "ready") /\ tcb' = [tcb EXCEPT ![t].resolution = "NormalClaimed"]
        BY <1>13, <2>2 DEF ClaimNormal
      <3>2. /\ frame' \in [Tasks -> Frames] /\ AwaitPoint' /\ frame'[t].pc = "ready"
            /\ \A s \in Tasks : s # t => frame'[s] = frame[s]
        BY <1>0, <2>1, <3>1, GotoKeeps DEF Points, InAwait
      <3>3. /\ tcb' \in [Tasks -> TCBs]
            /\ \A s \in Tasks : s # t => tcb'[s].resolution = tcb[s].resolution
        BY <1>0, <3>1, WordStored DEF Resolutions
      <3> QED BY <1>0, <3>2, <3>3 DEF AwaitIInv, NotClaimed, Unresolved
    <2>3. CASE tcb[t].resolution # "ChildNormal"
      <3>1. Goto(t, "post") /\ tcb' = tcb
        BY <1>13, <2>3 DEF ClaimNormal
      <3>2. /\ frame' \in [Tasks -> Frames] /\ AwaitPoint' /\ frame'[t].pc = "post"
            /\ \A s \in Tasks : s # t => frame'[s] = frame[s]
        BY <1>0, <2>1, <3>1, GotoKeeps DEF Points, InAwait
      <3> QED BY <1>0, <2>1, <3>1, <3>2 DEF AwaitIInv, NotClaimed, Unresolved
    <2> QED BY <2>2, <2>3
  <1>8. CASE Sample(t) \/ DrainUnwinds(t) \/ Complete(t) \/ LeafUnwinds(t) \/ CoroutineEnds(t)
    <2>1. /\ tcb' = tcb
          /\ \E point \in {"canceled", "ready", "publish", "done"} :
               Goto(t, point) /\ (point \in {"canceled", "ready"} => frame[t].pc = "sample")
      BY <1>8 DEF Sample, DrainUnwinds, Complete, LeafUnwinds, CoroutineEnds
    <2>2. PICK point \in {"canceled", "ready", "publish", "done"} :
            Goto(t, point) /\ (point \in {"canceled", "ready"} => frame[t].pc = "sample")
      BY <2>1
    <2>3. /\ frame' \in [Tasks -> Frames] /\ AwaitPoint' /\ frame'[t].pc = point
          /\ \A s \in Tasks : s # t => frame'[s] = frame[s]
      BY <1>0, <2>2, GotoKeeps DEF Points, InAwait
    <2> QED BY <1>0, <2>1, <2>2, <2>3 DEF AwaitIInv, NotClaimed, Unresolved
  <1>9. CASE AwaitCaught(t)
    <2> DEFINE h == Handled(t)
               own == [h EXCEPT !.resolution = "Idle"]
    <2>1. h \in TCBs
      BY <1>0 DEF Handled, TCBs
    <2> HIDE DEF h
    <2>2. own \in TCBs
      BY <2>1 DEF TCBs, Resolutions
    <2>3. tcb' = [tcb EXCEPT ![t] = own]
      BY <1>9 DEF AwaitCaught, h
    <2> HIDE DEF own
    <2>4. /\ frame' \in [Tasks -> Frames] /\ frame'[t].pc = "body"
          /\ \A s \in Tasks : s # t => frame'[s] = frame[s]
      BY <1>0, <1>9 DEF AwaitCaught, Frames, Points
    <2>5. AwaitPoint'
      BY <1>0, <2>4 DEF AwaitPoint, InAwait
    <2> QED BY <1>0, <2>2, <2>3, <2>4, <2>5 DEF AwaitIInv, NotClaimed, Unresolved
  <1>10. CASE AwaitUnwinds(t)
    <2>1. /\ frame' \in [Tasks -> Frames] /\ AwaitPoint' /\ frame'[t].pc = "publish"
          /\ \A s \in Tasks : s # t => frame'[s] = frame[s]
      BY <1>10, GotoKeeps DEF AwaitUnwinds, Points, InAwait
    <2>2. /\ tcb' \in [Tasks -> TCBs]
          /\ \A s \in Tasks : s # t => tcb'[s].resolution = tcb[s].resolution
      BY <1>0, <1>10, WordStored DEF AwaitUnwinds, Resolutions
    <2> QED BY <1>0, <2>1, <2>2 DEF AwaitIInv, NotClaimed, Unresolved
  <1>11. CASE TakeResult(t)
    <2>1. /\ frame' \in [Tasks -> Frames] /\ frame'[t].pc \in {"body", "trap"}
          /\ \A s \in Tasks : s # t => frame'[s] = frame[s]
      BY <1>0, <1>11 DEF TakeResult, Goto, Frames, Points
    <2>2. AwaitPoint'
      BY <1>0, <2>1 DEF AwaitPoint, InAwait
    <2>3. /\ tcb' \in [Tasks -> TCBs]
          /\ \A s \in Tasks : s # t => tcb'[s].resolution = tcb[s].resolution
      <3>1. tcb' = [tcb EXCEPT ![t].resolution = "Idle"] \/ tcb' = tcb
        BY <1>11 DEF TakeResult
      <3>2. CASE tcb' = [tcb EXCEPT ![t].resolution = "Idle"]
        BY <1>0, <3>2, WordStored DEF Resolutions
      <3>3. CASE tcb' = tcb
        BY <1>0, <3>3
      <3> QED BY <3>1, <3>2, <3>3
    <2> QED BY <1>0, <2>1, <2>2, <2>3 DEF AwaitIInv, NotClaimed, Unresolved
  <1>12. CASE LeafSleep(t)
    <2>1. /\ frame' \in [Tasks -> Frames] /\ frame'[t].pc = "waiting"
          /\ \A s \in Tasks : s # t => frame'[s] = frame[s]
      BY <1>0, <1>12 DEF LeafSleep, Frames, Points
    <2>2. AwaitPoint'
      BY <1>0, <2>1 DEF AwaitPoint, InAwait
    <2>3. /\ tcb' \in [Tasks -> TCBs]
          /\ \A s \in Tasks : tcb'[s].resolution = tcb[s].resolution
      BY <1>0, <1>12 DEF LeafSleep, TCBs, States
    <2> QED BY <1>0, <2>1, <2>2, <2>3 DEF AwaitIInv, NotClaimed, Unresolved
  <1> QED
    BY <1>1, <1>2, <1>3, <1>4, <1>5, <1>6, <1>7, <1>8, <1>9, <1>10, <1>11, <1>12, <1>13
    DEF CoroutineStep
-----------------------------------------------------------------------------
(* The other steps: the executor's pop, the publisher of a terminal task,  *)
(* the sources and the callers of request_cancel.                          *)

\* A step that moves no coroutine, keeps the type of tcb and claims no
\* normal end keeps the invariant.
LEMMA OutsideKeeps ==
    ASSUME AwaitIInv, frame' = frame, tcb' \in [Tasks -> TCBs],
           \A s \in Tasks : \/ tcb'[s].resolution = tcb[s].resolution
                            \/ tcb'[s].resolution # "NormalClaimed"
    PROVE  AwaitIInv'
  BY DEF AwaitIInv, AwaitPoint, NotClaimed

\* toka_task_publish_terminal and the wake-up by a source.
LEMMA PublisherKeeps ==
    ASSUME NEW t \in Tasks, AwaitIInv, PublishStep(t) \/ SourceWakes(t)
    PROVE  AwaitIInv'
  <1>0. tcb \in [Tasks -> TCBs]
    BY DEF AwaitIInv
  <1>1. CASE PublishState(t)
    <2>1. PICK v \in Terminal : tcb' = [tcb EXCEPT ![t].active_child = None, ![t].state = v]
      BY <1>1 DEF PublishState, Terminal
    <2>2. /\ tcb' \in [Tasks -> TCBs]
          /\ \A s \in Tasks : tcb'[s].resolution = tcb[s].resolution
      BY <1>0, <2>1, ZenonT(60) DEF TCBs, States
    <2> QED BY <1>1, <2>2, OutsideKeeps DEF PublishState
  <1>2. CASE ExchangeContinuation(t) \/ LoadAwaiterGeneration(t)
    BY <1>0, <1>2, OutsideKeeps DEF ExchangeContinuation, LoadAwaiterGeneration
  <1>3. CASE NoteChildTerminal(t)
    <2> DEFINE p == pub[t].awaiter
               word == NotedWord(tcb[p].resolution, promise[t].result)
    <2>1. tcb' = [tcb EXCEPT ![p].resolution = word] /\ frame' = frame
      BY <1>3 DEF NoteChildTerminal
    <2>2. CASE p \in Tasks
      <3>1. tcb[p].resolution \in Resolutions
        BY <1>0, <2>2 DEF TCBs
      <3>2. /\ word \in Resolutions
            /\ word = tcb[p].resolution \/ word # "NormalClaimed"
        BY <3>1 DEF NotedWord, Resolutions
      <3> HIDE DEF word, p
      <3> QED BY <1>0, <2>1, <2>2, <3>2, WordStored, OutsideKeeps
    <2>3. CASE p \notin Tasks
      <3> HIDE DEF word, p
      <3>1. tcb' = tcb
        BY <1>0, <2>1, <2>3
      <3> QED BY <1>0, <2>1, <3>1, OutsideKeeps
    <2> QED BY <2>2, <2>3
  <1>4. CASE PublisherUnlinks(t)
    <2> DEFINE p == pub[t].awaiter
    <2>1. tcb' = Unlinked(t, p) /\ frame' = frame
      BY <1>4 DEF PublisherUnlinks
    <2> HIDE DEF p
    <2> QED BY <1>0, <2>1, UnlinkedType, OutsideKeeps
  <1>5. CASE ScheduleAwaiter(t) \/ SourceWakes(t)
    <2>1. \/ tcb' = tcb
          \/ \E p : tcb' = [tcb EXCEPT ![p].state = "Queued"]
      BY <1>5 DEF ScheduleAwaiter, SourceWakes, Enqueued
    <2>2. frame' = frame
      BY <1>5 DEF ScheduleAwaiter, SourceWakes
    <2>3. ASSUME NEW p, tcb' = [tcb EXCEPT ![p].state = "Queued"] PROVE AwaitIInv'
      BY <1>0, <2>2, <2>3, StateStored, OutsideKeeps, ZenonT(60) DEF States
    <2> QED BY <1>0, <2>1, <2>2, <2>3, OutsideKeeps
  <1> QED BY <1>1, <1>2, <1>3, <1>4, <1>5 DEF PublishStep

\* toka_task_request_cancel: the flags, the claim of the await word, which it
\* never turns into NormalClaimed, and the states it stores.
LEMMA CancelKeeps ==
    ASSUME NEW x \in Callers, AwaitIInv, CancelStep(x)
    PROVE  AwaitIInv'
  <1>0. tcb \in [Tasks -> TCBs]
    BY DEF AwaitIInv
  <1> DEFINE t == Top(x).task
  <1>1. CASE StoreCancelFlags(x)
    <2>1. /\ tcb' = [tcb EXCEPT ![t].cancel_requested = 1, ![t].cancel_handled = 0]
          /\ frame' = frame
      BY <1>1 DEF StoreCancelFlags
    <2> HIDE DEF t
    <2>2. /\ tcb' \in [Tasks -> TCBs]
          /\ \A s \in Tasks : tcb'[s].resolution = tcb[s].resolution
      BY <1>0, <2>1, ZenonT(60) DEF TCBs
    <2> QED BY <2>1, <2>2, OutsideKeeps
  <1>2. CASE ClaimAwait(x)
    <2>1. /\ tcb' = tcb \/ tcb' = [tcb EXCEPT ![t].resolution = "CancelClaimed"]
          /\ frame' = frame
      BY <1>2 DEF ClaimAwait
    <2> HIDE DEF t
    <2>2. CASE tcb' = [tcb EXCEPT ![t].resolution = "CancelClaimed"]
      <3>1. /\ tcb' \in [Tasks -> TCBs]
            /\ \A s \in Tasks : \/ tcb'[s].resolution = tcb[s].resolution
                                \/ tcb'[s].resolution # "NormalClaimed"
        BY <1>0, <2>2, ZenonT(60) DEF TCBs, Resolutions
      <3> QED BY <2>1, <3>1, OutsideKeeps
    <2>3. CASE tcb' = tcb
      BY <1>0, <2>1, <2>3, OutsideKeeps
    <2> QED BY <2>1, <2>2, <2>3
  <1>3. CASE CancelArbiter(x) \/ ColdCancel(x) \/ ClaimSuspended(x)
    <2>1. \/ tcb' = tcb
          \/ \E v \in {"Queued", "ColdFinalizing"} : tcb' = [tcb EXCEPT ![t].state = v]
      BY <1>3 DEF CancelArbiter, ColdCancel, ClaimSuspended, Enqueued
    <2>2. frame' = frame
      BY <1>3 DEF CancelArbiter, ColdCancel, ClaimSuspended
    <2> HIDE DEF t
    <2>3. ASSUME NEW v \in {"Queued", "ColdFinalizing"}, tcb' = [tcb EXCEPT ![t].state = v]
          PROVE  AwaitIInv'
      BY <1>0, <2>2, <2>3, StateStored, OutsideKeeps, ZenonT(60) DEF States
    <2> QED BY <1>0, <2>1, <2>2, <2>3, OutsideKeeps
  <1>4. CASE SnapshotChild(x) \/ ColdPublish(x) \/ ColdCancelReturns(x) \/ LoadGeneration(x)
    <2>1. tcb' = tcb /\ frame' = frame
      BY <1>4 DEF SnapshotChild, ColdPublish, ColdCancelReturns, LoadGeneration
    <2> QED BY <1>0, <2>1, OutsideKeeps
  <1> QED BY <1>1, <1>2, <1>3, <1>4 DEF CancelStep

\* toka_task_pop_ready: an await that is resumed was suspended, unresolved.
LEMMA PopKeeps ==
    ASSUME NEW e \in ready, AwaitIInv, PopReady(e)
    PROVE  AwaitIInv'
  <1> DEFINE t == e.task
  <1>0. tcb \in [Tasks -> TCBs] /\ frame \in [Tasks -> Frames]
    BY DEF AwaitIInv
  <1>1. CASE tcb' = tcb /\ frame' = frame
    BY <1>0, <1>1, OutsideKeeps
  <1>2. CASE /\ tcb' = [tcb EXCEPT ![t].state = "Running"]
             /\ frame' = [frame EXCEPT ![t].pc = Resumed(@)]
    <2> HIDE DEF t
    <2>1. /\ tcb' \in [Tasks -> TCBs]
          /\ \A s \in Tasks : tcb'[s].resolution = tcb[s].resolution
      BY <1>0, <1>2, StateStored DEF States
    <2>2. \A point \in Points : /\ Resumed(point) \in Points
                                /\ Resumed(point) \in InAwait => point \in InAwait
                                /\ Resumed(point) \in Unresolved => point \in Unresolved
      BY DEF Resumed, Points, InAwait, Unresolved
    <2>3. /\ frame' \in [Tasks -> Frames]
          /\ \A s \in Tasks : /\ frame'[s].next = frame[s].next
                              /\ \/ frame'[s].pc = frame[s].pc
                                 \/ frame'[s].pc = Resumed(frame[s].pc)
                              /\ frame[s].pc \in Points
      BY <1>0, <1>2, <2>2 DEF Frames
    <2> QED BY <2>1, <2>2, <2>3 DEF AwaitIInv, AwaitPoint, NotClaimed
  <1> QED BY <1>1, <1>2 DEF PopReady

-----------------------------------------------------------------------------
\* AwaitIInv is true of the start.
LEMMA AwaitInit == Init => AwaitIInv
  BY AwaitAssumption DEF Init, AwaitIInv, AwaitPoint, NotClaimed, TCBs, Frames,
     States, Resolutions, Points, InAwait, Unresolved

\* No step of the executor, of a coroutine, of a publisher or of a canceller
\* breaks it.
LEMMA AwaitStep == AwaitIInv /\ [Next]_vars => AwaitIInv'
  <1> SUFFICES ASSUME AwaitIInv, [Next]_vars PROVE AwaitIInv'
    OBVIOUS
  <1>1. CASE UNCHANGED vars
    BY <1>1 DEF vars, AwaitIInv, AwaitPoint, NotClaimed
  <1>2. ASSUME NEW x \in Callers, NEW t \in Tasks, RequestCancel(x, t) PROVE AwaitIInv'
    BY <1>2, OutsideKeeps DEF RequestCancel, AwaitIInv
  <1> QED
    BY <1>1, <1>2, CoroutineKeeps, PublisherKeeps, CancelKeeps, PopKeeps DEF Next, Step

\* AwaitIInv holds in every state.
THEOREM AwaitIInvHolds == Spec => []AwaitIInv
  BY AwaitInit, AwaitStep, PTL DEF Spec

-----------------------------------------------------------------------------
(* On the executor's thread.  The hypotheses: every caller of              *)
(* request_cancel is a coroutine of the executor, and a task is awaited at *)
(* one place (an await takes its only continuation word and only result).  *)

OnExecutor == Threads = {}
AwaitedOnce ==
    \A s, t \in Tasks : \A i \in DOMAIN Plan[s], j \in DOMAIN Plan[t] :
        Plan[s][i].child = Plan[t][j].child => s = t /\ i = j

Promises == [result : {"Pending", "ReadyLive", "Canceled"},
             continuation : Tasks \cup {None, "Done"}]
Pubs == [phase : PubPhases, by : Tasks \cup Callers \cup {None},
         awaiter : Tasks \cup {None, "Done"}, gen : Nat]
CallRecs == [task : Tasks, phase : CallPhases, waits : {0, 1}, gen : Nat]

\* The call stacks are typed.
CallTypes == call \in [Callers -> Seq(CallRecs)]

TypesInv ==
    /\ AwaitIInv
    /\ promise \in [Tasks -> Promises]
    /\ pub \in [Tasks -> Pubs]
    /\ call \in [Callers -> Seq(CallRecs)]
    /\ ready \subseteq [task : Tasks, gen : Nat]
    /\ cpu \in Tasks \cup Callers \cup {None}

\* Where a coroutine is, by the state of its task: the executor is inside it, or
\* it has not begun, waits, or has ended.
Where(t) ==
    LET pc == frame[t].pc
        st == tcb[t].state
    IN  \/ cpu # t /\ st \in {"Created", "ColdFinalizing"} /\ pc = "body"
        \/ cpu # t /\ st = "Queued" /\ pc \in {"body", "suspended", "waiting"}
        \/ cpu # t /\ st = "Suspended" /\ pc \in {"suspended", "waiting"}
        \/ cpu # t /\ st \in Terminal /\ pc \in {"body", "done"}
        \/ cpu = t /\ st = "Running" /\ pc \in {"body", "entry", "prepare", "post",
                    "resume", "claim", "sample", "canceled", "ready", "publish", "trap"}
        \/ cpu = t /\ st = "Suspended" /\ pc = "install"
        \/ cpu = t /\ st \in Terminal /\ pc = "publish"

\* The publication of the end of t, by its coroutine or by a cold cancellation.
Handover == {"note", "unlink", "load", "schedule"}
Ends(t) ==
    LET phase == pub[t].phase
        by == pub[t].by
    IN  /\ promise[t].result = "Pending" <=> phase = "none"
        /\ tcb[t].state \in Terminal <=> phase \notin {"none", "state"}
        /\ tcb[t].state = "Completed" => promise[t].result = "ReadyLive"
        /\ tcb[t].state = "CompletedCanceled" => promise[t].result = "Canceled"
        /\ frame[t].pc \in {"publish", "done"} <=> phase # "none" /\ by = t
        /\ frame[t].pc = "done" => phase = "end"
        /\ phase # "none" /\ by # t => /\ by \in Callers
                                       /\ promise[t].result = "Canceled"
                                       /\ promise[t].continuation \notin Tasks
                                       /\ tcb[t].state \in Terminal \cup {"ColdFinalizing"}
        /\ promise[t].continuation = "Done" <=> phase \in Handover \cup {"end"}
        /\ phase \in Handover => /\ by = t /\ pub[t].awaiter \in Tasks
                                 /\ frame[pub[t].awaiter].pc = "suspended"
                                 /\ Child(pub[t].awaiter) = t
        /\ promise[t].continuation \in Tasks =>
             /\ tcb[t].state \notin {"Created", "ColdFinalizing"}
             /\ frame[promise[t].continuation].pc = "suspended"
             /\ Child(promise[t].continuation) = t

\* The await t is in: the link between t and its child stands until the child's
\* publisher has cleared it, and t is queued by that publisher's last step.
Linked(t) == tcb[t].active_child = Child(t) /\ tcb[Child(t)].parent_tcb = t
Cleared(t) == tcb[t].active_child = None /\ tcb[Child(t)].parent_tcb = None
Link(t) ==
    LET pc == frame[t].pc
        c == Child(t)
        phase == pub[c].phase
    IN  /\ pc \in {"entry", "prepare", "install"} => tcb[c].state # "Created"
        /\ pc = "prepare" => phase = "none"
        /\ pc = "install" => phase = "none" /\ Linked(t)
        /\ pc = "suspended" =>
             /\ tcb[t].state = "Suspended" <=> phase # "end"
             /\ phase \in {"none", "state", "exchange"} => promise[c].continuation = t
             /\ phase \in {"none", "state", "exchange", "note", "unlink"} => Linked(t)
             /\ phase \in {"load", "schedule", "end"} => Cleared(t)
             /\ phase = "schedule" => pub[c].gen = tcb[t].gen
        /\ pc \in {"post", "resume", "claim"} => phase = "end" /\ Cleared(t)

\* No other link is left over.
Links(t) ==
    /\ tcb[t].active_child # None => frame[t].pc \in {"install", "suspended"} /\ Linked(t)
    /\ tcb[t].parent_tcb # None => LET p == tcb[t].parent_tcb IN
         frame[p].pc \in {"install", "suspended"} /\ Child(p) = t /\ Linked(p)

\* A task that is being cancelled cold has the canceller on top of its stack.
Cold(t) ==
    tcb[t].state = "ColdFinalizing" =>
        /\ cpu \in Callers /\ call[cpu] # <<>>
        /\ Top(cpu).task = t /\ Top(cpu).phase \in {"finalize", "publish"}

\* The calls of request_cancel: a call that waits for the one above it has seen
\* the child, and one that did not see a child has none to wait for.
Caller(x) ==
    /\ call[x] # <<>> <=> cpu = x
    /\ \A k \in 1 .. Len(call[x]) :
         /\ call[x][k].phase \notin {"load", "ticket"}
         /\ k < Len(call[x]) => call[x][k].phase = "arbiter" /\ call[x][k].waits = 1
    /\ call[x] # <<>> /\ Top(x).phase = "arbiter" /\ Top(x).waits = 0
         => ~(tcb[Top(x).task].state = "Suspended" /\ frame[Top(x).task].pc = "suspended")
    /\ call[x] # <<>> /\ Top(x).phase = "finalize"
         => tcb[Top(x).task].state = "ColdFinalizing" /\ pub[Top(x).task].phase = "none"

ChainInv ==
    /\ TypesInv
    /\ \A t \in Tasks : Where(t) /\ Ends(t) /\ Link(t) /\ Links(t) /\ Cold(t)
    /\ \A x \in Callers : Caller(x)

-----------------------------------------------------------------------------
(* A task has one awaiter.                                                 *)

\* The child of the await a coroutine is in.
LEMMA ChildOf ==
    ASSUME AwaitIInv, NEW t \in Tasks, frame[t].pc \in InAwait
    PROVE  Child(t) \in Tasks /\ frame[t].next \in DOMAIN Plan[t]
  <1>1. frame[t].next \in 1..Len(Plan[t])
    BY DEF AwaitIInv, AwaitPoint
  <1>2. DOMAIN Plan[t] = 1..Len(Plan[t])
    BY AwaitAssumption DEF AwaitAssumption
  <1> QED BY <1>1, <1>2, ChildIsTask

\* Two coroutines that are in an await of the same child are one.
LEMMA OneAwaiter ==
    ASSUME AwaitedOnce, AwaitIInv, NEW s \in Tasks, NEW t \in Tasks,
           frame[s].pc \in InAwait, frame[t].pc \in InAwait, Child(s) = Child(t)
    PROVE  s = t
  BY ChildOf DEF AwaitedOnce, Child

\* Names are distinct.
LEMMA Names ==
    /\ None \notin Tasks /\ None \notin Callers /\ "Done" \notin Tasks /\ None # "Done"
    /\ \A t \in Tasks, x \in Callers : t # x
  <1>1. {None, "Done"} \cap (Tasks \cup Callers) = {} /\ None # "Done" /\ Tasks \cap Callers = {}
    BY AwaitAssumption DEF AwaitAssumption
  <1> QED BY <1>1

\* The types of the fields.
LEMMA Fields ==
    ASSUME TypesInv
    PROVE  /\ \A s \in Tasks : /\ tcb[s].state \in States /\ tcb[s].gen \in Nat
                               /\ tcb[s].active_child \in Tasks \cup {None}
                               /\ tcb[s].parent_tcb \in Tasks \cup {None}
                               /\ tcb[s].resolution \in Resolutions
           /\ \A s \in Tasks : frame[s].pc \in Points /\ frame[s].next \in Nat \ {0}
           /\ \A s \in Tasks : promise[s].continuation \in Tasks \cup {None, "Done"}
           /\ \A s \in Tasks : pub[s].phase \in PubPhases
           /\ \A x \in Callers : call[x] \in Seq(CallRecs)
  <1>1. tcb \in [Tasks -> TCBs] /\ frame \in [Tasks -> Frames] /\ promise \in [Tasks -> Promises]
        /\ pub \in [Tasks -> Pubs] /\ call \in [Callers -> Seq(CallRecs)]
    BY DEF TypesInv, AwaitIInv
  <1>2. \A s \in Tasks : /\ tcb[s].state \in States /\ tcb[s].gen \in Nat
                        /\ tcb[s].active_child \in Tasks \cup {None}
                        /\ tcb[s].parent_tcb \in Tasks \cup {None}
                        /\ tcb[s].resolution \in Resolutions
    BY <1>1 DEF TCBs
  <1>3. \A s \in Tasks : frame[s].pc \in Points /\ frame[s].next \in Nat \ {0}
    BY <1>1 DEF Frames
  <1>4. \A s \in Tasks : /\ promise[s].continuation \in Tasks \cup {None, "Done"}
                        /\ pub[s].phase \in PubPhases
    BY <1>1 DEF Promises, Pubs
  <1> QED BY <1>1, <1>2, <1>3, <1>4

\* The call stacks are typed.
LEMMA CallsTyped == TypesInv => CallTypes
  BY DEF TypesInv, CallTypes

\* The call on top of a stack that is not empty.
LEMMA TopIsCall ==
    ASSUME CallTypes, NEW x \in Callers, call[x] # <<>>
    PROVE  /\ Len(call[x]) \in Nat \ {0} /\ Len(call[x]) \in DOMAIN call[x]
           /\ Top(x) \in CallRecs
           /\ Top(x).task \in Tasks /\ Top(x).phase \in CallPhases /\ Top(x).waits \in {0, 1}
  <1>1. call[x] \in Seq(CallRecs)
    BY DEF CallTypes
  <1> HIDE DEF CallRecs
  <1>2. Len(call[x]) \in Nat /\ Len(call[x]) # 0 /\ DOMAIN call[x] = 1 .. Len(call[x])
    BY <1>1
  <1>3. Len(call[x]) \in 1 .. Len(call[x])
    BY <1>2
  <1>4. Top(x) \in CallRecs
    BY <1>1, <1>2, <1>3 DEF Top
  <1> QED BY <1>2, <1>3, <1>4 DEF CallRecs

\* What the invariant says of tasks stays when their states and links do, and no
\* coroutine enters or leaves the executor.
LEMMA TasksStay ==
    ASSUME ChainInv, frame' = frame, promise' = promise, pub' = pub,
           \A s \in Tasks : /\ tcb'[s].state = tcb[s].state /\ tcb'[s].gen = tcb[s].gen
                            /\ tcb'[s].active_child = tcb[s].active_child
                            /\ tcb'[s].parent_tcb = tcb[s].parent_tcb,
           cpu' = cpu \/ (cpu \notin Tasks /\ cpu' \notin Tasks)
    PROVE  \A s \in Tasks : Where(s)' /\ Ends(s)' /\ Link(s)' /\ Links(s)'
  <1>0. /\ TypesInv /\ AwaitIInv
        /\ \A s \in Tasks : Where(s) /\ Ends(s) /\ Link(s) /\ Links(s)
    BY DEF ChainInv, TypesInv
  <1>1. \A s \in Tasks : Child(s)' = Child(s)
    BY DEF Child
  <1>2. ASSUME NEW s \in Tasks PROVE Where(s)'
    BY <1>0 DEF Where
  <1>3. ASSUME NEW s \in Tasks PROVE Ends(s)'
    BY <1>0, <1>1 DEF Ends
  <1>4. ASSUME NEW s \in Tasks PROVE Link(s)'
    <2>1. frame[s].pc \in InAwait => Child(s) \in Tasks
      BY <1>0, ChildOf
    <2> QED BY <1>0, <1>1, <2>1 DEF Link, InAwait, Linked, Cleared
  <1>5. ASSUME NEW s \in Tasks PROVE Links(s)'
    <2>1. ASSUME NEW p \in Tasks, frame[p].pc \in {"install", "suspended"}, Linked(p)
          PROVE  Linked(p)'
      <3>1. Child(p) \in Tasks
        BY <1>0, <2>1, ChildOf DEF InAwait
      <3> QED BY <1>1, <2>1, <3>1 DEF Linked
    <2>2. tcb[s].parent_tcb \in Tasks \cup {None}
      BY <1>0, Fields
    <2> QED BY <1>0, <1>1, <2>1, <2>2 DEF Links
  <1> QED BY <1>2, <1>3, <1>4, <1>5

\* A step that changes none of this.
LEMMA StayKeeps ==
    ASSUME ChainInv, AwaitIInv', UNCHANGED <<tcb, promise, frame, pub, call, cpu>>,
           ready' \subseteq [task : Tasks, gen : Nat]
    PROVE  ChainInv'
  <1>1. \A s \in Tasks : Where(s)' /\ Ends(s)' /\ Link(s)' /\ Links(s)'
    BY TasksStay
  <1>2. \A s \in Tasks : Cold(s)'
    BY DEF ChainInv, Cold, Top
  <1>3. \A x \in Callers : Caller(x)'
    BY DEF ChainInv, Caller, Top
  <1>4. TypesInv'
    BY DEF ChainInv, TypesInv
  <1> QED BY <1>1, <1>2, <1>3, <1>4 DEF ChainInv

-----------------------------------------------------------------------------
\* A coroutine goes on without suspending, and writes its resolution word and
\* its cancellation flags at most.
LEMMA MoveKeeps ==
    ASSUME ChainInv, AwaitIInv', NEW t \in Tasks, cpu = t, tcb[t].state = "Running",
           frame[t].pc \in {"post", "resume", "claim", "body", "entry", "sample", "canceled", "ready"},
           frame'[t].pc \in {"body", "prepare", "claim", "post", "sample", "canceled", "ready", "trap"},
           \A s \in Tasks : s # t => frame'[s] = frame[s],
           frame'[t].pc = "prepare" => /\ frame'[t].next = frame[t].next
                                       /\ frame[t].pc = "entry"
                                       /\ pub[Child(t)].phase = "none",
           frame'[t].pc \in {"post", "claim"} => /\ frame'[t].next = frame[t].next
                                                /\ frame[t].pc \in {"post", "resume", "claim"},
           \A s \in Tasks : /\ tcb'[s].state = tcb[s].state /\ tcb'[s].gen = tcb[s].gen
                            /\ tcb'[s].active_child = tcb[s].active_child
                            /\ tcb'[s].parent_tcb = tcb[s].parent_tcb,
           UNCHANGED <<promise, pub, call, ready, cpu>>
    PROVE  ChainInv'
  <1>0. /\ TypesInv /\ AwaitIInv
        /\ \A s \in Tasks : Where(s) /\ Ends(s) /\ Link(s) /\ Links(s) /\ Cold(s)
        /\ \A x \in Callers : Caller(x)
    BY DEF ChainInv, TypesInv
  <1>1. TypesInv'
    BY <1>0 DEF TypesInv
  <1>2. \A s \in Tasks : s # t => Child(s)' = Child(s)
    BY DEF Child
  <1>3. ASSUME NEW s \in Tasks PROVE Where(s)'
    BY <1>0 DEF Where
  <1>4. ASSUME NEW s \in Tasks PROVE Ends(s)'
    BY <1>0, <1>2 DEF Ends
  <1>5. ASSUME NEW s \in Tasks PROVE Link(s)'
    <2>1. CASE s # t
      <3>1. frame[s].pc \in InAwait => Child(s) \in Tasks
        BY <1>0, ChildOf
      <3> QED BY <1>0, <1>2, <2>1, <3>1 DEF Link, InAwait, Linked, Cleared
    <2>2. CASE s = t
      <3>1. frame[t].pc \in {"post", "resume", "claim", "entry"} => Child(t) \in Tasks
        BY <1>0, ChildOf DEF InAwait
      <3>2. frame'[t].next = frame[t].next => Child(t)' = Child(t)
        BY DEF Child
      <3> QED BY <1>0, <2>2, <3>1, <3>2 DEF Link, Cleared
    <2> QED BY <2>1, <2>2
  <1>6. ASSUME NEW s \in Tasks PROVE Links(s)'
    <2>1. ASSUME NEW p \in Tasks, frame[p].pc \in {"install", "suspended"}, Linked(p)
          PROVE  frame'[p].pc = frame[p].pc /\ Linked(p)' /\ Child(p)' = Child(p)
      <3>1. Child(p) \in Tasks /\ p # t
        BY <1>0, <2>1, ChildOf DEF InAwait
      <3> QED BY <1>2, <2>1, <3>1 DEF Linked
    <2>2. tcb[s].parent_tcb \in Tasks \cup {None}
      BY <1>0, Fields
    <2> QED BY <1>0, <2>1, <2>2 DEF Links
  <1>7. ASSUME NEW s \in Tasks PROVE Cold(s)'
    BY <1>0, Names DEF Cold
  <1>8. ASSUME NEW x \in Callers PROVE Caller(x)'
    BY <1>0, Names DEF Caller
  <1> QED BY <1>1, <1>3, <1>4, <1>5, <1>6, <1>7, <1>8 DEF ChainInv

\* A coroutine publishes its result: the first step of its end.
LEMMA EndKeeps ==
    ASSUME ChainInv, AwaitIInv', NEW t \in Tasks, cpu = t, tcb[t].state = "Running",
           frame[t].pc \in {"body", "canceled", "ready"}, frame'[t].pc = "publish",
           \A s \in Tasks : s # t => frame'[s] = frame[s],
           \A s \in Tasks : /\ tcb'[s].state = tcb[s].state /\ tcb'[s].gen = tcb[s].gen
                            /\ tcb'[s].active_child = tcb[s].active_child
                            /\ tcb'[s].parent_tcb = tcb[s].parent_tcb,
           NEW result \in {"ReadyLive", "Canceled"}, BeginPublish(t, t, result),
           UNCHANGED <<call, ready, cpu>>
    PROVE  ChainInv'
  <1>0. /\ TypesInv /\ AwaitIInv /\ promise \in [Tasks -> Promises] /\ pub \in [Tasks -> Pubs]
        /\ \A s \in Tasks : Where(s) /\ Ends(s) /\ Link(s) /\ Links(s) /\ Cold(s)
        /\ \A x \in Callers : Caller(x)
    BY DEF ChainInv, TypesInv
  <1>p. /\ promise' \in [Tasks -> Promises] /\ pub' \in [Tasks -> Pubs]
        /\ promise'[t].result = result /\ pub'[t].phase = "state" /\ pub'[t].by = t
        /\ \A s \in Tasks : promise'[s].continuation = promise[s].continuation
        /\ \A s \in Tasks : s # t => promise'[s] = promise[s] /\ pub'[s] = pub[s]
    <2>1. /\ promise' = [promise EXCEPT ![t].result = result]
          /\ pub' = [pub EXCEPT ![t].phase = "state", ![t].by = t]
      BY DEF BeginPublish
    <2>2. /\ promise' \in [Tasks -> Promises] /\ promise'[t].result = result
          /\ \A s \in Tasks : promise'[s].continuation = promise[s].continuation
          /\ \A s \in Tasks : s # t => promise'[s] = promise[s]
      BY <1>0, <2>1 DEF Promises
    <2>3. [pub[t] EXCEPT !.phase = "state", !.by = t] \in Pubs
      <3>1. pub[t] \in Pubs /\ "state" \in PubPhases
        BY <1>0 DEF PubPhases
      <3> QED BY <3>1 DEF Pubs
    <2>4. /\ pub' \in [Tasks -> Pubs] /\ pub'[t].phase = "state" /\ pub'[t].by = t
          /\ \A s \in Tasks : s # t => pub'[s] = pub[s]
      BY <1>0, <2>1, <2>3 DEF Pubs
    <2> QED BY <2>2, <2>4
  <1>1. TypesInv'
    BY <1>0, <1>p DEF TypesInv
  <1>2. \A s \in Tasks : s # t => Child(s)' = Child(s)
    BY DEF Child
  <1>n. pub[t].phase = "none"
    BY <1>0 DEF Ends, Where, Terminal
  <1>3. ASSUME NEW s \in Tasks PROVE Where(s)'
    BY <1>0 DEF Where
  <1>4. ASSUME NEW s \in Tasks PROVE Ends(s)'
    <2>1. CASE s = t
      BY <1>0, <1>2, <1>n, <1>p, <2>1 DEF Ends, Handover, Terminal
    <2>2. CASE s # t
      BY <1>0, <1>2, <1>p, <2>2 DEF Ends
    <2> QED BY <2>1, <2>2
  <1>5. ASSUME NEW s \in Tasks PROVE Link(s)'
    <2>1. CASE s # t
      <3>1. frame[s].pc \in InAwait => Child(s) \in Tasks
        BY <1>0, ChildOf
      <3>2. frame[s].pc \in {"prepare", "install"} => cpu = s
        BY <1>0 DEF Where
      <3> QED BY <1>0, <1>2, <1>n, <1>p, <2>1, <3>1, <3>2 DEF Link, InAwait, Linked, Cleared
    <2>2. CASE s = t
      BY <2>2 DEF Link
    <2> QED BY <2>1, <2>2
  <1>6. ASSUME NEW s \in Tasks PROVE Links(s)'
    <2>1. ASSUME NEW p \in Tasks, frame[p].pc \in {"install", "suspended"}, Linked(p)
          PROVE  frame'[p].pc = frame[p].pc /\ Linked(p)' /\ Child(p)' = Child(p)
      <3>1. Child(p) \in Tasks /\ p # t
        BY <1>0, <2>1, ChildOf DEF InAwait
      <3> QED BY <1>2, <2>1, <3>1 DEF Linked
    <2>2. tcb[s].parent_tcb \in Tasks \cup {None}
      BY <1>0, Fields
    <2> QED BY <1>0, <2>1, <2>2 DEF Links
  <1>7. ASSUME NEW s \in Tasks PROVE Cold(s)'
    BY <1>0, Names DEF Cold
  <1>8. ASSUME NEW x \in Callers PROVE Caller(x)'
    BY <1>0, Names DEF Caller
  <1> QED BY <1>1, <1>3, <1>4, <1>5, <1>6, <1>7, <1>8 DEF ChainInv

\* The coroutine starts its child.
LEMMA StartKeeps ==
    ASSUME ChainInv, AwaitIInv', NEW t \in Tasks, AwaitStart(t)
    PROVE  ChainInv'
  <1>0. /\ TypesInv /\ AwaitIInv
        /\ \A s \in Tasks : Where(s) /\ Ends(s) /\ Link(s) /\ Links(s) /\ Cold(s)
        /\ \A x \in Callers : Caller(x)
        /\ tcb \in [Tasks -> TCBs] /\ frame \in [Tasks -> Frames]
        /\ cpu = t /\ frame[t].pc = "body" /\ tcb[t].state = "Running"
        /\ UNCHANGED <<promise, pub, call, cpu>>
    BY DEF ChainInv, TypesInv, AwaitIInv, AwaitStart, Runs, Where
  <1>c. PICK c : c = Child(t)
    OBVIOUS
  <1>p. /\ \A s \in Tasks : s # t => frame'[s] = frame[s]
        /\ frame'[t].pc = "entry" /\ frame'[t].next = frame[t].next
    BY <1>0 DEF AwaitStart, Goto, Frames
  <1>2. \A s \in Tasks : Child(s)' = Child(s)
    BY <1>p DEF Child
  <1>d. c \in Tasks
    <2>1. frame'[t].pc \in InAwait => frame'[t].next \in 1..Len(Plan[t])
      BY DEF AwaitIInv, AwaitPoint
    <2> QED BY <1>c, <1>p, <2>1, ChildIsTask DEF InAwait
  <1>q. /\ \A s \in Tasks : /\ tcb'[s].active_child = tcb[s].active_child
                            /\ tcb'[s].parent_tcb = tcb[s].parent_tcb
        /\ \A s \in Tasks : s = c /\ tcb[s].state = "Created" => tcb'[s].state = "Queued"
        /\ \A s \in Tasks : s # c \/ tcb[s].state # "Created" =>
              tcb'[s].state = tcb[s].state /\ tcb'[s].gen = tcb[s].gen
        /\ ready' \subseteq [task : Tasks, gen : Nat]
    <2>1. CASE tcb[c].state = "Created"
      <3>1. tcb' = [tcb EXCEPT ![c].state = "Queued", ![c].gen = 1]
            /\ ready' = ready \cup {[task |-> c, gen |-> 1]}
        BY <1>c, <2>1 DEF AwaitStart, WithTicket
      <3> QED BY <1>0, <1>d, <2>1, <3>1 DEF TCBs, TypesInv
    <2>2. CASE tcb[c].state # "Created"
      BY <1>0, <1>c, <2>2 DEF AwaitStart, TypesInv
    <2> QED BY <2>1, <2>2
  <1>1. TypesInv'
    BY <1>0, <1>q DEF TypesInv
  <1>3. ASSUME NEW s \in Tasks PROVE Where(s)'
    BY <1>0, <1>p, <1>q DEF Where, Terminal
  <1>4. ASSUME NEW s \in Tasks PROVE Ends(s)'
    BY <1>0, <1>2, <1>p, <1>q DEF Ends, Terminal
  <1>5. ASSUME NEW s \in Tasks PROVE Link(s)'
    <2>1. CASE s # t
      <3>1. frame[s].pc \in InAwait => Child(s) \in Tasks
        BY <1>0, ChildOf
      <3>2. frame[s].pc = "suspended" => tcb[s].state # "Created"
        BY <1>0 DEF Where, Terminal
      <3> QED BY <1>0, <1>2, <1>p, <1>q, <2>1, <3>1, <3>2 DEF Link, InAwait, Linked, Cleared
    <2>2. CASE s = t
      BY <1>2, <1>c, <1>d, <1>p, <1>q, <2>2 DEF Link
    <2> QED BY <2>1, <2>2
  <1>6. ASSUME NEW s \in Tasks PROVE Links(s)'
    <2>1. ASSUME NEW p \in Tasks, frame[p].pc \in {"install", "suspended"}, Linked(p)
          PROVE  frame'[p].pc = frame[p].pc /\ Linked(p)' /\ Child(p)' = Child(p)
      <3>1. Child(p) \in Tasks /\ p # t
        BY <1>0, <2>1, ChildOf DEF InAwait
      <3> QED BY <1>2, <1>p, <1>q, <2>1, <3>1 DEF Linked
    <2>2. tcb[s].parent_tcb \in Tasks \cup {None}
      BY <1>0, Fields
    <2> QED BY <1>0, <1>q, <2>1, <2>2 DEF Links
  <1>7. ASSUME NEW s \in Tasks PROVE Cold(s)'
    BY <1>0, <1>q, Names DEF Cold
  <1>8. ASSUME NEW x \in Callers PROVE Caller(x)'
    BY <1>0, Names DEF Caller
  <1> QED BY <1>1, <1>3, <1>4, <1>5, <1>6, <1>7, <1>8 DEF ChainInv

\* The section of toka_task_await_prepare under the mutex.
LEMMA PrepareKeeps ==
    ASSUME AwaitedOnce, ChainInv, AwaitIInv', NEW t \in Tasks, AwaitPrepare(t)
    PROVE  ChainInv'
  <1>0. /\ TypesInv /\ AwaitIInv
        /\ \A s \in Tasks : Where(s) /\ Ends(s) /\ Link(s) /\ Links(s) /\ Cold(s)
        /\ \A x \in Callers : Caller(x)
        /\ tcb \in [Tasks -> TCBs] /\ frame \in [Tasks -> Frames]
        /\ cpu = t /\ frame[t].pc = "prepare" /\ tcb[t].state = "Running"
        /\ UNCHANGED <<promise, pub, call, ready, cpu>>
    BY DEF ChainInv, TypesInv, AwaitIInv, AwaitPrepare, Runs, Where
  <1>c. PICK c : c = Child(t)
    OBVIOUS
  <1>d. c \in Tasks
    BY <1>0, <1>c, ChildOf DEF InAwait
  <1>p. /\ \A s \in Tasks : s # t => frame'[s] = frame[s]
        /\ frame'[t].pc = "install" /\ frame'[t].next = frame[t].next
    BY <1>0 DEF AwaitPrepare, Goto, Frames
  <1>2. \A s \in Tasks : Child(s)' = Child(s)
    BY <1>p DEF Child
  <1>q. /\ tcb'[t].state = "Suspended" /\ tcb'[t].active_child = c
        /\ tcb'[c].parent_tcb = t
        /\ \A s \in Tasks : s # t => /\ tcb'[s].state = tcb[s].state /\ tcb'[s].gen = tcb[s].gen
                                     /\ tcb'[s].active_child = tcb[s].active_child
        /\ \A s \in Tasks : s # c => tcb'[s].parent_tcb = tcb[s].parent_tcb
    BY <1>0, <1>c, <1>d DEF AwaitPrepare, TCBs
  <1>u. \A s \in Tasks : s # t /\ frame[s].pc \in InAwait => Child(s) \in Tasks /\ Child(s) # c
    BY <1>0, <1>c, ChildOf, OneAwaiter DEF InAwait
  <1>1. TypesInv'
    BY <1>0 DEF TypesInv
  <1>3. ASSUME NEW s \in Tasks PROVE Where(s)'
    BY <1>0, <1>p, <1>q DEF Where
  <1>4. ASSUME NEW s \in Tasks PROVE Ends(s)'
    BY <1>0, <1>2, <1>p, <1>q DEF Ends, Terminal
  <1>5. ASSUME NEW s \in Tasks PROVE Link(s)'
    <2>1. CASE s # t
      BY <1>0, <1>2, <1>p, <1>q, <1>u, <2>1 DEF Link, InAwait, Linked, Cleared
    <2>2. CASE s = t
      BY <1>0, <1>2, <1>c, <1>d, <1>p, <1>q, <2>2 DEF Link, Linked
    <2> QED BY <2>1, <2>2
  <1>6. ASSUME NEW s \in Tasks PROVE Links(s)'
    <2>1. ASSUME NEW p \in Tasks, frame[p].pc \in {"install", "suspended"}, Linked(p)
          PROVE  frame'[p].pc = frame[p].pc /\ Linked(p)' /\ Child(p)' = Child(p)
      BY <1>0, <1>2, <1>p, <1>q, <1>u, <2>1 DEF Linked, InAwait
    <2>2. tcb[s].parent_tcb \in Tasks \cup {None}
      BY <1>0, Fields
    <2>3. Linked(t)' /\ Child(t)' = c
      BY <1>2, <1>c, <1>q DEF Linked
    <2> QED BY <1>0, <1>p, <1>q, <2>1, <2>2, <2>3 DEF Links
  <1>7. ASSUME NEW s \in Tasks PROVE Cold(s)'
    BY <1>0, <1>q, Names DEF Cold
  <1>8. ASSUME NEW x \in Callers PROVE Caller(x)'
    BY <1>0, Names DEF Caller
  <1> QED BY <1>1, <1>3, <1>4, <1>5, <1>6, <1>7, <1>8 DEF ChainInv

\* The continuation is installed and the coroutine suspends.
LEMMA InstallKeeps ==
    ASSUME AwaitedOnce, ChainInv, AwaitIInv', NEW t \in Tasks, InstallContinuation(t)
    PROVE  ChainInv'
  <1>0. /\ TypesInv /\ AwaitIInv
        /\ \A s \in Tasks : Where(s) /\ Ends(s) /\ Link(s) /\ Links(s) /\ Cold(s)
        /\ \A x \in Callers : Caller(x)
        /\ frame \in [Tasks -> Frames] /\ promise \in [Tasks -> Promises]
        /\ cpu = t /\ frame[t].pc = "install" /\ tcb[t].state = "Suspended"
        /\ cpu' = None /\ UNCHANGED <<tcb, pub, call, ready>>
    BY DEF ChainInv, TypesInv, AwaitIInv, InstallContinuation, Runs, Where
  <1>c. PICK c : c = Child(t)
    OBVIOUS
  <1>d. c \in Tasks
    BY <1>0, <1>c, ChildOf DEF InAwait
  <1>p. /\ \A s \in Tasks : s # t => frame'[s] = frame[s]
        /\ frame'[t].pc = "suspended" /\ frame'[t].next = frame[t].next
    BY <1>0 DEF InstallContinuation, Goto, Frames
  <1>2. \A s \in Tasks : Child(s)' = Child(s)
    BY <1>p DEF Child
  <1>q. /\ promise' \in [Tasks -> Promises] /\ promise'[c].continuation = t
        /\ \A s \in Tasks : promise'[s].result = promise[s].result
        /\ \A s \in Tasks : s # c => promise'[s].continuation = promise[s].continuation
        /\ promise[c].continuation = None
    BY <1>0, <1>c, <1>d DEF InstallContinuation, Promises
  <1>u. \A s \in Tasks : s # t /\ frame[s].pc \in InAwait => Child(s) \in Tasks /\ Child(s) # c
    BY <1>0, <1>c, ChildOf, OneAwaiter DEF InAwait
  <1>s. /\ \A s \in Tasks : tcb[s].state # "ColdFinalizing"
        /\ pub[c].phase = "none" /\ tcb[c].state # "Created"
    BY <1>0, <1>c, Names DEF Cold, Link
  <1>1. TypesInv'
    BY <1>0, <1>q DEF TypesInv
  <1>3. ASSUME NEW s \in Tasks PROVE Where(s)'
    BY <1>0, <1>p, Names DEF Where
  <1>4. ASSUME NEW s \in Tasks PROVE Ends(s)'
    <2>1. CASE s # c
      <3>1. \A a \in Tasks : frame[a].pc = "suspended" => frame'[a].pc = "suspended"
        BY <1>p
      <3>2. /\ frame'[s].pc \in {"publish", "done"} <=> frame[s].pc \in {"publish", "done"}
            /\ frame'[s].pc = "done" <=> frame[s].pc = "done"
        BY <1>0, <1>p
      <3>3. /\ promise'[s].continuation = promise[s].continuation
            /\ promise'[s].result = promise[s].result
        BY <1>q, <2>1
      <3> QED BY <1>0, <1>2, <3>1, <3>2, <3>3 DEF Ends
    <2>2. CASE s = c
      BY <1>0, <1>2, <1>c, <1>p, <1>q, <1>s, <2>2, Names DEF Ends, Handover
    <2> QED BY <2>1, <2>2
  <1>5. ASSUME NEW s \in Tasks PROVE Link(s)'
    <2>1. CASE s # t
      BY <1>0, <1>2, <1>p, <1>q, <1>u, <2>1 DEF Link, InAwait, Linked, Cleared
    <2>2. CASE s = t
      BY <1>0, <1>2, <1>c, <1>d, <1>p, <1>q, <1>s, <2>2 DEF Link, Linked
    <2> QED BY <2>1, <2>2
  <1>6. ASSUME NEW s \in Tasks PROVE Links(s)'
    <2>1. ASSUME NEW p \in Tasks, frame[p].pc \in {"install", "suspended"}, Linked(p)
          PROVE  frame'[p].pc \in {"install", "suspended"} /\ Linked(p)' /\ Child(p)' = Child(p)
      BY <1>0, <1>2, <1>p, <2>1 DEF Linked
    <2>2. tcb[s].parent_tcb \in Tasks \cup {None}
      BY <1>0, Fields
    <2> QED BY <1>0, <2>1, <2>2 DEF Links
  <1>7. ASSUME NEW s \in Tasks PROVE Cold(s)'
    BY <1>0, <1>s DEF Cold
  <1>8. ASSUME NEW x \in Callers PROVE Caller(x)'
    BY <1>0, Names DEF Caller
  <1> QED BY <1>1, <1>3, <1>4, <1>5, <1>6, <1>7, <1>8 DEF ChainInv

\* A leaf goes to sleep, or a coroutine reaches its end: it leaves the executor.
LEMMA LeaveKeeps ==
    ASSUME ChainInv, AwaitIInv', NEW t \in Tasks, LeafSleep(t) \/ CoroutineEnds(t)
    PROVE  ChainInv'
  <1>0. /\ TypesInv /\ AwaitIInv
        /\ \A s \in Tasks : Where(s) /\ Ends(s) /\ Link(s) /\ Links(s) /\ Cold(s)
        /\ \A x \in Callers : Caller(x)
        /\ tcb \in [Tasks -> TCBs] /\ frame \in [Tasks -> Frames]
        /\ cpu = t /\ cpu' = None /\ UNCHANGED <<promise, pub, call, ready>>
    BY DEF ChainInv, TypesInv, AwaitIInv, LeafSleep, CoroutineEnds, Runs
  <1>p. /\ \A s \in Tasks : s # t => frame'[s] = frame[s] /\ tcb'[s] = tcb[s]
        /\ tcb'[t].active_child = tcb[t].active_child /\ tcb'[t].parent_tcb = tcb[t].parent_tcb
        /\ \/ /\ frame[t].pc = "body" /\ frame'[t].pc = "waiting"
              /\ tcb[t].state = "Running" /\ tcb'[t].state = "Suspended"
           \/ /\ frame[t].pc = "publish" /\ frame'[t].pc = "done" /\ pub[t].phase = "end"
              /\ tcb[t].state \in Terminal /\ tcb'[t].state = tcb[t].state
    <2>1. CASE LeafSleep(t)
      <3>1. tcb[t].state = "Running" /\ frame[t].pc = "body"
        BY <1>0, <2>1 DEF LeafSleep, Runs, Where
      <3> QED BY <1>0, <2>1, <3>1 DEF LeafSleep, TCBs, Frames
    <2>2. CASE CoroutineEnds(t)
      <3>1. tcb[t].state \in Terminal /\ frame[t].pc = "publish" /\ pub[t].phase = "end"
        BY <1>0, <2>2 DEF CoroutineEnds, Runs, Ends
      <3> QED BY <1>0, <2>2, <3>1 DEF CoroutineEnds, Goto, Frames
    <2> QED BY <2>1, <2>2
  <1>2. \A s \in Tasks : s # t => Child(s)' = Child(s)
    BY <1>p DEF Child
  <1>s. \A s \in Tasks : tcb[s].state # "ColdFinalizing" /\ tcb'[s].state # "ColdFinalizing"
    BY <1>0, <1>p, Names DEF Cold
  <1>1. TypesInv'
    BY <1>0 DEF TypesInv
  <1>3. ASSUME NEW s \in Tasks PROVE Where(s)'
    BY <1>0, <1>p, Names DEF Where
  <1>4. ASSUME NEW s \in Tasks PROVE Ends(s)'
    BY <1>0, <1>2, <1>p, Names DEF Ends, Terminal
  <1>5. ASSUME NEW s \in Tasks PROVE Link(s)'
    <2>1. CASE s # t
      <3>1. frame[s].pc \in InAwait => Child(s) \in Tasks
        BY <1>0, ChildOf
      <3> QED BY <1>0, <1>2, <1>p, <2>1, <3>1 DEF Link, InAwait, Linked, Cleared, Terminal
    <2>2. CASE s = t
      BY <1>p, <2>2 DEF Link
    <2> QED BY <2>1, <2>2
  <1>6. ASSUME NEW s \in Tasks PROVE Links(s)'
    <2>1. ASSUME NEW p \in Tasks, frame[p].pc \in {"install", "suspended"}, Linked(p)
          PROVE  frame'[p].pc = frame[p].pc /\ Linked(p)' /\ Child(p)' = Child(p)
      <3>1. Child(p) \in Tasks /\ p # t
        BY <1>0, <1>p, <2>1, ChildOf DEF InAwait
      <3> QED BY <1>2, <1>p, <2>1, <3>1 DEF Linked
    <2>2. tcb[s].parent_tcb \in Tasks \cup {None} /\ tcb'[s].parent_tcb = tcb[s].parent_tcb
          /\ tcb'[s].active_child = tcb[s].active_child
      BY <1>0, <1>p, Fields
    <2> QED BY <1>0, <2>1, <2>2 DEF Links
  <1>7. ASSUME NEW s \in Tasks PROVE Cold(s)'
    BY <1>s DEF Cold
  <1>8. ASSUME NEW x \in Callers PROVE Caller(x)'
    BY <1>0, Names DEF Caller
  <1> QED BY <1>1, <1>3, <1>4, <1>5, <1>6, <1>7, <1>8 DEF ChainInv

\* toka_task_pop_ready: an await that is resumed was queued by its child's end.
LEMMA ResumeKeeps ==
    ASSUME ChainInv, AwaitIInv', NEW e \in ready, PopReady(e)
    PROVE  ChainInv'
  <1>t. PICK t : t = e.task
    OBVIOUS
  <1>0. /\ TypesInv /\ AwaitIInv
        /\ \A s \in Tasks : Where(s) /\ Ends(s) /\ Link(s) /\ Links(s) /\ Cold(s)
        /\ \A x \in Callers : Caller(x)
        /\ tcb \in [Tasks -> TCBs] /\ frame \in [Tasks -> Frames]
        /\ cpu = None /\ UNCHANGED <<promise, pub, call>>
        /\ t \in Tasks /\ ready' \subseteq [task : Tasks, gen : Nat]
    BY <1>t DEF ChainInv, TypesInv, AwaitIInv, PopReady
  <1>a. CASE ~Claimable(e)
    <2>1. UNCHANGED <<tcb, cpu, frame>>
      BY <1>a DEF PopReady
    <2> QED BY <1>0, <2>1, StayKeeps
  <1>b. CASE Claimable(e)
    <2>p. /\ cpu' = t /\ tcb[t].state = "Queued" /\ tcb'[t].state = "Running"
          /\ \A s \in Tasks : s # t => frame'[s] = frame[s] /\ tcb'[s] = tcb[s]
          /\ tcb'[t].active_child = tcb[t].active_child
          /\ tcb'[t].parent_tcb = tcb[t].parent_tcb
          /\ frame'[t].next = frame[t].next /\ frame'[t].pc = Resumed(frame[t].pc)
      BY <1>0, <1>b, <1>t DEF PopReady, Claimable, TCBs, Frames
    <2>r. /\ frame[t].pc \in {"body", "suspended", "waiting"}
          /\ frame'[t].pc = IF frame[t].pc = "suspended" THEN "resume" ELSE "body"
      <3>1. frame[t].pc \in {"body", "suspended", "waiting"}
        BY <1>0, <2>p DEF Where, Terminal
      <3> QED BY <2>p, <3>1 DEF Resumed
    <2>2. \A s \in Tasks : Child(s)' = Child(s)
      BY <2>p DEF Child
    <2>d. frame[t].pc = "suspended" =>
            /\ Child(t) \in Tasks /\ pub[Child(t)].phase = "end" /\ Cleared(t)
            /\ promise[Child(t)].continuation = "Done"
      <3> HAVE frame[t].pc = "suspended"
      <3>1. Child(t) \in Tasks /\ pub[Child(t)].phase = "end" /\ Cleared(t)
        BY <1>0, <2>p, ChildOf DEF InAwait, Link
      <3> QED BY <1>0, <3>1 DEF Ends
    <2>1. TypesInv'
      BY <1>0, <2>p DEF TypesInv
    <2>3. ASSUME NEW s \in Tasks PROVE Where(s)'
      BY <1>0, <2>p, <2>r, Names DEF Where
    <2>4. ASSUME NEW s \in Tasks PROVE Ends(s)'
      <3>1. ASSUME NEW a \in Tasks, Child(a) = s, frame[a].pc = "suspended",
                   pub[s].phase # "end"
            PROVE  frame'[a].pc = "suspended" /\ Child(a)' = s
        BY <2>2, <2>d, <2>p, <3>1
      <3>2. promise[s].continuation \in Tasks => pub[s].phase # "end"
        BY <1>0, Names DEF Ends, Handover
      <3>3. frame'[s].pc \in {"publish", "done"} <=> frame[s].pc \in {"publish", "done"}
        BY <2>p, <2>r
      <3>4. frame'[s].pc = "done" => frame[s].pc = "done"
        BY <2>p, <2>r
      <3>5. tcb'[s].state = tcb[s].state
            \/ (tcb[s].state = "Queued" /\ tcb'[s].state = "Running")
        BY <2>p
      <3> QED BY <1>0, <3>1, <3>2, <3>3, <3>4, <3>5 DEF Ends, Terminal, Handover
    <2>5. ASSUME NEW s \in Tasks PROVE Link(s)'
      <3>1. CASE s # t
        <4>1. frame[s].pc \in InAwait => Child(s) \in Tasks
          BY <1>0, ChildOf
        <4> QED BY <1>0, <2>2, <2>p, <3>1, <4>1 DEF Link, InAwait, Linked, Cleared
      <3>2. CASE s = t
        BY <2>2, <2>d, <2>p, <2>r, <1>0, <3>2 DEF Link, Cleared
      <3> QED BY <3>1, <3>2
    <2>6. ASSUME NEW s \in Tasks PROVE Links(s)'
      <3>1. ASSUME NEW p \in Tasks, frame[p].pc \in {"install", "suspended"}, Linked(p)
            PROVE  frame'[p].pc = frame[p].pc /\ Linked(p)' /\ Child(p)' = Child(p)
        <4>1. Child(p) \in Tasks /\ p # t
          BY <1>0, <2>d, <2>r, <3>1, ChildOf, Names DEF InAwait, Linked, Cleared
        <4> QED BY <2>2, <2>p, <3>1, <4>1 DEF Linked
      <3>2. tcb[s].parent_tcb \in Tasks \cup {None} /\ tcb'[s].parent_tcb = tcb[s].parent_tcb
            /\ tcb'[s].active_child = tcb[s].active_child
        BY <1>0, <2>p, Fields
      <3> QED BY <1>0, <3>1, <3>2 DEF Links
    <2>7. ASSUME NEW s \in Tasks PROVE Cold(s)'
      BY <1>0, <2>p, Names DEF Cold
    <2>8. ASSUME NEW x \in Callers PROVE Caller(x)'
      BY <1>0, <2>p, Names DEF Caller
    <2> QED BY <2>1, <2>3, <2>4, <2>5, <2>6, <2>7, <2>8 DEF ChainInv
  <1> QED BY <1>a, <1>b

-----------------------------------------------------------------------------
(* The publisher of an end.                                                *)

\* The publisher is the coroutine that ended, or a canceller of a cold task; on
\* the executor's thread it has the executor.
LEMMA PublisherRuns ==
    ASSUME OnExecutor, ChainInv, NEW t \in Tasks, NEW phase, Publishing(t, phase),
           phase \in PubPhases \ {"none"}
    PROVE  /\ pub[t].phase = phase /\ cpu = pub[t].by
           /\ \/ cpu = t /\ frame[t].pc \in {"publish", "done"}
              \/ /\ cpu \in Callers /\ cpu # t /\ frame[t].pc = "body"
                 /\ tcb[t].state \in Terminal \cup {"ColdFinalizing"}
                 /\ promise[t].continuation \notin Tasks
  <1>1. pub[t].phase = phase /\ cpu = pub[t].by
    BY DEF Publishing, IsExecuting, OnExecutor
  <1>2. Ends(t) /\ Where(t) /\ phase # "none"
    BY DEF ChainInv
  <1>3. CASE cpu = t
    BY <1>1, <1>2, <1>3 DEF Ends
  <1>4. CASE cpu # t
    <2>1. /\ cpu \in Callers /\ tcb[t].state \in Terminal \cup {"ColdFinalizing"}
          /\ promise[t].continuation \notin Tasks /\ frame[t].pc \notin {"publish", "done"}
      BY <1>1, <1>2, <1>4 DEF Ends
    <2>2. frame[t].pc = "body"
      BY <1>2, <1>4, <2>1 DEF Where, Terminal
    <2> QED BY <1>1, <1>4, <2>1, <2>2
  <1> QED BY <1>3, <1>4

\* The terminal state is published.
LEMMA StateKeeps ==
    ASSUME OnExecutor, ChainInv, AwaitIInv', NEW t \in Tasks, PublishState(t)
    PROVE  ChainInv'
  <1>0. /\ TypesInv /\ AwaitIInv
        /\ \A s \in Tasks : Where(s) /\ Ends(s) /\ Link(s) /\ Links(s) /\ Cold(s)
        /\ \A x \in Callers : Caller(x)
        /\ tcb \in [Tasks -> TCBs] /\ pub \in [Tasks -> Pubs]
        /\ UNCHANGED <<promise, frame, call, ready, cpu>>
    BY DEF ChainInv, TypesInv, AwaitIInv, PublishState
  <1>w. /\ pub[t].phase = "state" /\ cpu = pub[t].by
        /\ \/ cpu = t /\ frame[t].pc \in {"publish", "done"}
           \/ cpu \in Callers /\ cpu # t /\ frame[t].pc = "body"
      BY PublisherRuns DEF PublishState, PubPhases
  <1>p. /\ \A s \in Tasks : s # t => tcb'[s] = tcb[s] /\ pub'[s] = pub[s]
        /\ tcb'[t].active_child = None /\ tcb'[t].parent_tcb = tcb[t].parent_tcb
        /\ tcb'[t].gen = tcb[t].gen
        /\ tcb'[t].state = IF promise[t].result = "Canceled" THEN "CompletedCanceled"
                                                             ELSE "Completed"
        /\ pub'[t].phase = "exchange" /\ pub'[t].by = pub[t].by /\ pub' \in [Tasks -> Pubs]
    <2>1. pub' = [pub EXCEPT ![t].phase = "exchange"]
          /\ tcb' = [tcb EXCEPT ![t].active_child = None,
                          ![t].state = IF promise[t].result = "Canceled"
                                         THEN "CompletedCanceled"
                                         ELSE "Completed"]
      BY DEF PublishState, PubGoto
    <2>2. /\ pub'[t].phase = "exchange" /\ pub'[t].by = pub[t].by /\ pub' \in [Tasks -> Pubs]
          /\ \A s \in Tasks : s # t => pub'[s] = pub[s]
      BY <1>0, <2>1 DEF Pubs, PubPhases
    <2> QED BY <1>0, <2>1, <2>2 DEF TCBs
  <1>2. \A s \in Tasks : Child(s)' = Child(s)
    BY <1>0 DEF Child
  <1>r. promise[t].result \in {"ReadyLive", "Canceled"} /\ tcb[t].active_child = None
    <2>1. promise[t].result \in {"Pending", "ReadyLive", "Canceled"}
      BY <1>0 DEF TypesInv, Promises
    <2> QED BY <1>0, <1>w, <2>1 DEF Ends, Links
  <1>1. TypesInv'
    BY <1>0, <1>p DEF TypesInv
  <1>3. ASSUME NEW s \in Tasks PROVE Where(s)'
    <2>1. frame[t].pc # "done"
      BY <1>0, <1>w DEF Ends
    <2> QED BY <1>0, <1>p, <1>w, <2>1 DEF Where, Terminal
  <1>4. ASSUME NEW s \in Tasks PROVE Ends(s)'
    <2>1. CASE s # t
      BY <1>0, <1>2, <1>p, <2>1 DEF Ends
    <2>2. CASE s = t
      BY <1>0, <1>2, <1>p, <1>r, <1>w, <2>2 DEF Ends, Terminal, Handover
    <2> QED BY <2>1, <2>2
  <1>5. ASSUME NEW s \in Tasks PROVE Link(s)'
    <2>1. frame[s].pc \in InAwait => Child(s) \in Tasks /\ s # t
      BY <1>0, <1>w, ChildOf DEF InAwait
    <2> QED BY <1>0, <1>2, <1>p, <1>w, <2>1 DEF Link, InAwait, Linked, Cleared
  <1>6. ASSUME NEW s \in Tasks PROVE Links(s)'
    <2>1. ASSUME NEW p \in Tasks, frame[p].pc \in {"install", "suspended"}, Linked(p)
          PROVE  Linked(p)'
      <3>1. Child(p) \in Tasks /\ p # t
        BY <1>0, <1>w, <2>1, ChildOf DEF InAwait
      <3> QED BY <1>2, <1>p, <2>1, <3>1 DEF Linked
    <2>2. tcb[s].parent_tcb \in Tasks \cup {None}
      BY <1>0, Fields
    <2> QED BY <1>0, <1>2, <1>p, <1>r, <2>1, <2>2 DEF Links
  <1>7. ASSUME NEW s \in Tasks PROVE Cold(s)'
    BY <1>0, <1>p DEF Cold, Top
  <1>8. ASSUME NEW x \in Callers PROVE Caller(x)'
    <2>1. call[x] # <<>> => Top(x).task \in Tasks
      BY <1>0, TopIsCall, CallsTyped
    <2> QED BY <1>0, <1>p, <1>w, <2>1 DEF Caller, Top
  <1> QED BY <1>1, <1>3, <1>4, <1>5, <1>6, <1>7, <1>8 DEF ChainInv

\* A step of the publisher that writes no state and no link.
LEMMA PubKeeps ==
    ASSUME AwaitedOnce, ChainInv, AwaitIInv', NEW t \in Tasks,
           pub' \in [Tasks -> Pubs], promise' \in [Tasks -> Promises],
           \A s \in Tasks : s # t => pub'[s] = pub[s] /\ promise'[s] = promise[s],
           promise'[t].result = promise[t].result,
           \A s \in Tasks : /\ tcb'[s].state = tcb[s].state /\ tcb'[s].gen = tcb[s].gen
                            /\ tcb'[s].active_child = tcb[s].active_child
                            /\ tcb'[s].parent_tcb = tcb[s].parent_tcb,
           pub[t].phase \in {"exchange", "note", "load"},
           Ends(t)',
           \A a \in Tasks : frame[a].pc = "suspended" /\ Child(a) = t => Link(a)',
           UNCHANGED <<frame, call, ready, cpu>>,
           pub'[t].phase \notin {"none", "state", "exchange"},
           pub[t].phase # "end"
    PROVE  ChainInv'
  <1>0. /\ TypesInv /\ AwaitIInv
        /\ \A s \in Tasks : Where(s) /\ Ends(s) /\ Link(s) /\ Links(s) /\ Cold(s)
        /\ \A x \in Callers : Caller(x)
    BY DEF ChainInv, TypesInv, AwaitIInv
  <1>2. \A s \in Tasks : Child(s)' = Child(s)
    BY <1>0 DEF Child
  <1>1. TypesInv'
    BY <1>0 DEF TypesInv
  <1>3. ASSUME NEW s \in Tasks PROVE Where(s)'
    BY <1>0 DEF Where
  <1>4. ASSUME NEW s \in Tasks PROVE Ends(s)'
    BY <1>0, <1>2 DEF Ends
  <1>5. ASSUME NEW s \in Tasks PROVE Link(s)'
    <2>1. frame[s].pc \in InAwait => Child(s) \in Tasks
      BY <1>0, ChildOf
    <2>2. CASE frame[s].pc \in InAwait /\ Child(s) = t
      <3>1. frame[s].pc \in {"prepare", "install", "post", "resume", "claim"} => pub[t].phase \in {"none", "end"}
        BY <1>0, <2>2 DEF Link
      <3> QED BY <1>0, <1>2, <2>2, <3>1 DEF Link
    <2>3. CASE ~(frame[s].pc \in InAwait /\ Child(s) = t)
      BY <1>0, <1>2, <2>1, <2>3 DEF Link, InAwait, Linked, Cleared
    <2> QED BY <2>2, <2>3
  <1>6. ASSUME NEW s \in Tasks PROVE Links(s)'
    <2>1. ASSUME NEW p \in Tasks, frame[p].pc \in {"install", "suspended"}, Linked(p)
          PROVE  Linked(p)'
      <3>1. Child(p) \in Tasks
        BY <1>0, <2>1, ChildOf DEF InAwait
      <3> QED BY <1>2, <2>1, <3>1 DEF Linked
    <2>2. tcb[s].parent_tcb \in Tasks \cup {None}
      BY <1>0, Fields
    <2> QED BY <1>0, <1>2, <2>1, <2>2 DEF Links
  <1>7. ASSUME NEW s \in Tasks PROVE Cold(s)'
    BY <1>0 DEF Cold, Top
  <1>8. ASSUME NEW x \in Callers PROVE Caller(x)'
    <2>1. call[x] # <<>> => Top(x).task \in Tasks
      BY <1>0, TopIsCall, CallsTyped
    <2> QED BY <1>0, <2>1 DEF Caller, Top
  <1> QED BY <1>1, <1>3, <1>4, <1>5, <1>6, <1>7, <1>8 DEF ChainInv

\* The continuation word is taken, the awaiter's word is noted, its generation is
\* loaded.
LEMMA HandoverKeeps ==
    ASSUME OnExecutor, AwaitedOnce, ChainInv, AwaitIInv', NEW t \in Tasks,
           ExchangeContinuation(t) \/ NoteChildTerminal(t) \/ LoadAwaiterGeneration(t)
    PROVE  ChainInv'
  <1>0. /\ TypesInv /\ AwaitIInv
        /\ \A s \in Tasks : Where(s) /\ Ends(s) /\ Link(s) /\ Links(s)
        /\ tcb \in [Tasks -> TCBs] /\ pub \in [Tasks -> Pubs] /\ promise \in [Tasks -> Promises]
    BY DEF ChainInv, TypesInv, AwaitIInv
  <1>1. CASE ExchangeContinuation(t)
    <2>w. /\ pub[t].phase = "exchange" /\ cpu = pub[t].by
          /\ \/ cpu = t /\ frame[t].pc \in {"publish", "done"}
             \/ cpu # t /\ promise[t].continuation \notin Tasks
      BY <1>1, PublisherRuns DEF ExchangeContinuation, PubPhases
    <2>1. UNCHANGED <<tcb, frame, call, ready, cpu>>
      BY <1>1 DEF ExchangeContinuation
    <2>2. /\ promise' = [promise EXCEPT ![t].continuation = "Done"]
          /\ pub' = [pub EXCEPT ![t].phase = IF promise[t].continuation = None
                                               THEN "end" ELSE "note",
                                ![t].awaiter = promise[t].continuation]
      BY <1>1 DEF ExchangeContinuation
    <2>3. /\ promise' \in [Tasks -> Promises] /\ promise'[t].result = promise[t].result
          /\ promise'[t].continuation = "Done"
          /\ \A s \in Tasks : s # t => promise'[s] = promise[s]
      BY <1>0, <2>2 DEF Promises
    <2>4. promise[t].continuation \in Tasks \cup {None}
      BY <1>0, <2>w, Fields DEF Ends, Handover
    <2>5. /\ pub' \in [Tasks -> Pubs] /\ pub'[t].by = pub[t].by
          /\ pub'[t].awaiter = promise[t].continuation
          /\ pub'[t].phase = IF promise[t].continuation = None THEN "end" ELSE "note"
          /\ \A s \in Tasks : s # t => pub'[s] = pub[s]
      <3> DEFINE new == [pub[t] EXCEPT !.phase = IF promise[t].continuation = None
                                                   THEN "end" ELSE "note",
                                       !.awaiter = promise[t].continuation]
      <3>1. /\ new \in Pubs /\ new.by = pub[t].by /\ new.awaiter = promise[t].continuation
            /\ new.phase = IF promise[t].continuation = None THEN "end" ELSE "note"
        BY <1>0, <2>4 DEF Pubs, PubPhases
      <3>2. pub' = [pub EXCEPT ![t] = new]
        BY <1>0, <2>2 DEF Pubs
      <3> HIDE DEF new
      <3> QED BY <1>0, <3>1, <3>2
    <2>6. \A s \in Tasks : Child(s)' = Child(s)
      BY <2>1 DEF Child
    <2>7. Ends(t)'
      BY <1>0, <2>1, <2>3, <2>4, <2>5, <2>6, <2>w, Names DEF Ends, Handover, Terminal
    <2>8. ASSUME NEW a \in Tasks, frame[a].pc = "suspended", Child(a) = t PROVE Link(a)'
      <3>1. promise[t].continuation = a /\ Linked(a) /\ tcb[a].state = "Suspended"
        BY <1>0, <2>8, <2>w DEF Link
      <3>2. pub'[t].phase = "note"
        BY <2>5, <3>1, Names
      <3> QED BY <2>1, <2>6, <2>8, <3>1, <3>2 DEF Link, Linked
    <2> QED BY <2>1, <2>3, <2>5, <2>7, <2>8, <2>w, PubKeeps
  <1>2. CASE NoteChildTerminal(t)
    <2>w. pub[t].phase = "note"
      BY <1>2 DEF NoteChildTerminal, Publishing
    <2>a. PICK b : b = pub[t].awaiter
      OBVIOUS
    <2>1. UNCHANGED <<promise, frame, call, ready, cpu>>
      BY <1>2 DEF NoteChildTerminal
    <2>2. pub' = [pub EXCEPT ![t].phase = "unlink"]
          /\ tcb' = [tcb EXCEPT ![b].resolution = NotedWord(@, promise[t].result)]
      BY <1>2, <2>a DEF NoteChildTerminal, PubGoto
    <2>3. \A s \in Tasks : /\ tcb'[s].state = tcb[s].state /\ tcb'[s].gen = tcb[s].gen
                           /\ tcb'[s].active_child = tcb[s].active_child
                           /\ tcb'[s].parent_tcb = tcb[s].parent_tcb
      BY <1>0, <2>2 DEF TCBs
    <2>4. /\ pub' \in [Tasks -> Pubs] /\ pub'[t].phase = "unlink"
          /\ pub'[t].by = pub[t].by /\ pub'[t].awaiter = pub[t].awaiter
          /\ \A s \in Tasks : s # t => pub'[s] = pub[s]
      BY <1>0, <2>2 DEF Pubs, PubPhases
    <2>5. \A s \in Tasks : Child(s)' = Child(s)
      BY <2>1 DEF Child
    <2>6. Ends(t)'
      BY <1>0, <2>1, <2>3, <2>4, <2>5, <2>w DEF Ends, Handover, Terminal
    <2>7. ASSUME NEW a \in Tasks, frame[a].pc = "suspended", Child(a) = t PROVE Link(a)'
      BY <1>0, <2>1, <2>3, <2>4, <2>5, <2>7, <2>w DEF Link, Linked
    <2> QED BY <1>0, <2>1, <2>3, <2>4, <2>6, <2>7, <2>w, PubKeeps
  <1>3. CASE LoadAwaiterGeneration(t)
    <2>w. pub[t].phase = "load"
      BY <1>3 DEF LoadAwaiterGeneration, Publishing
    <2>1. UNCHANGED <<tcb, promise, frame, call, ready, cpu>>
      BY <1>3 DEF LoadAwaiterGeneration
    <2>2. /\ pub[t].awaiter \in Tasks /\ Child(pub[t].awaiter) = t
          /\ frame[pub[t].awaiter].pc = "suspended"
      BY <1>0, <2>w DEF Ends, Handover
    <2>3. tcb[pub[t].awaiter].gen \in Nat
      BY <1>0, <2>2, Fields
    <2>4. /\ pub' \in [Tasks -> Pubs] /\ pub'[t].phase = "schedule"
          /\ pub'[t].by = pub[t].by /\ pub'[t].awaiter = pub[t].awaiter
          /\ pub'[t].gen = tcb[pub[t].awaiter].gen
          /\ \A s \in Tasks : s # t => pub'[s] = pub[s]
      BY <1>0, <1>3, <2>3 DEF LoadAwaiterGeneration, Pubs, PubPhases
    <2>5. \A s \in Tasks : Child(s)' = Child(s)
      BY <2>1 DEF Child
    <2>6. Ends(t)'
      BY <1>0, <2>1, <2>4, <2>5, <2>w DEF Ends, Handover, Terminal
    <2>7. ASSUME NEW a \in Tasks, frame[a].pc = "suspended", Child(a) = t PROVE Link(a)'
      <3>1. a = pub[t].awaiter
        BY <1>0, <2>2, <2>7, OneAwaiter DEF InAwait
      <3> QED BY <1>0, <2>1, <2>4, <2>5, <2>7, <2>w, <3>1 DEF Link, Cleared
    <2> QED BY <1>0, <2>1, <2>4, <2>6, <2>7, <2>w, PubKeeps
  <1> QED BY <1>1, <1>2, <1>3

\* The publisher clears the link of the await it ends.
LEMMA UnlinkKeeps ==
    ASSUME AwaitedOnce, ChainInv, AwaitIInv', NEW t \in Tasks, PublisherUnlinks(t)
    PROVE  ChainInv'
  <1>a. PICK a : a = pub[t].awaiter
    OBVIOUS
  <1>0. /\ TypesInv /\ AwaitIInv
        /\ \A s \in Tasks : Where(s) /\ Ends(s) /\ Link(s) /\ Links(s) /\ Cold(s)
        /\ \A x \in Callers : Caller(x)
        /\ tcb \in [Tasks -> TCBs] /\ pub \in [Tasks -> Pubs]
        /\ UNCHANGED <<promise, frame, call, ready, cpu>>
        /\ tcb' = Unlinked(t, a) /\ pub' = [pub EXCEPT ![t].phase = "load"]
        /\ pub[t].phase = "unlink"
    BY <1>a DEF ChainInv, TypesInv, AwaitIInv, PublisherUnlinks, Publishing, PubGoto
  <1>w. /\ a \in Tasks /\ frame[a].pc = "suspended" /\ Child(a) = t
        /\ tcb[a].active_child = t /\ tcb[t].parent_tcb = a
    <2>1. a \in Tasks /\ frame[a].pc = "suspended" /\ Child(a) = t
      BY <1>0, <1>a DEF Ends, Handover
    <2> QED BY <1>0, <2>1 DEF Link, Linked
  <1>o. \A s \in Tasks : frame[s].pc \in InAwait /\ Child(s) = t => s = a
    BY <1>0, <1>w, OneAwaiter DEF InAwait
  <1>p. /\ tcb'[t].parent_tcb = None /\ tcb'[a].active_child = None
        /\ \A s \in Tasks : tcb'[s].state = tcb[s].state /\ tcb'[s].gen = tcb[s].gen
        /\ \A s \in Tasks : s # a => tcb'[s].active_child = tcb[s].active_child
        /\ \A s \in Tasks : s # t => tcb'[s].parent_tcb = tcb[s].parent_tcb
    BY <1>0, <1>w DEF Unlinked, TCBs
  <1>q. /\ pub' \in [Tasks -> Pubs] /\ pub'[t].phase = "load" /\ pub'[t].by = pub[t].by
        /\ pub'[t].awaiter = pub[t].awaiter
        /\ \A s \in Tasks : s # t => pub'[s] = pub[s]
    BY <1>0 DEF Pubs, PubPhases
  <1>2. \A s \in Tasks : Child(s)' = Child(s)
    BY <1>0 DEF Child
  <1>1. TypesInv'
    BY <1>0, <1>q DEF TypesInv
  <1>3. ASSUME NEW s \in Tasks PROVE Where(s)'
    BY <1>0, <1>p DEF Where
  <1>4. ASSUME NEW s \in Tasks PROVE Ends(s)'
    <2>1. CASE s = t
      BY <1>0, <1>2, <1>p, <1>q, <2>1 DEF Ends, Handover
    <2>2. CASE s # t
      BY <1>0, <1>2, <1>p, <1>q, <2>2 DEF Ends
    <2> QED BY <2>1, <2>2
  <1>5. ASSUME NEW s \in Tasks PROVE Link(s)'
    <2>1. frame[s].pc \in InAwait => Child(s) \in Tasks
      BY <1>0, ChildOf
    <2>2. CASE s = a
      BY <1>0, <1>2, <1>p, <1>q, <1>w, <2>2 DEF Link, Cleared
    <2>3. CASE s # a
      BY <1>0, <1>2, <1>o, <1>p, <1>q, <2>1, <2>3 DEF Link, InAwait, Linked, Cleared
    <2> QED BY <2>2, <2>3
  <1>6. ASSUME NEW s \in Tasks PROVE Links(s)'
    <2>1. ASSUME NEW p \in Tasks, frame[p].pc \in {"install", "suspended"}, Linked(p), p # a
          PROVE  Linked(p)'
      <3>1. Child(p) \in Tasks /\ Child(p) # t
        BY <1>0, <1>o, <2>1, ChildOf DEF InAwait
      <3> QED BY <1>2, <1>p, <2>1, <3>1 DEF Linked
    <2>2. tcb[s].parent_tcb \in Tasks \cup {None}
      BY <1>0, Fields
    <2>3. s # t /\ tcb[s].parent_tcb # None => tcb[s].parent_tcb # a
      BY <1>0, <1>w DEF Links
    <2>4. s = a => tcb'[s].active_child = None
      BY <1>p
    <2>5. s # a => tcb'[s].active_child = tcb[s].active_child
      BY <1>p
    <2>6. s # t => tcb'[s].parent_tcb = tcb[s].parent_tcb
      BY <1>p
    <2>7. s = t => tcb'[s].parent_tcb = None
      BY <1>p
    <2> QED BY <1>0, <1>2, <2>1, <2>2, <2>3, <2>4, <2>5, <2>6, <2>7 DEF Links
  <1>7. ASSUME NEW s \in Tasks PROVE Cold(s)'
    BY <1>0, <1>p DEF Cold, Top
  <1>8. ASSUME NEW x \in Callers PROVE Caller(x)'
    <2>1. call[x] # <<>> => Top(x).task \in Tasks
      BY <1>0, TopIsCall, CallsTyped
    <2>2. call[x] # <<>> /\ pub[Top(x).task].phase = "none" => pub'[Top(x).task].phase = "none"
      BY <1>0, <1>q, <2>1
    <2> QED BY <1>0, <1>p, <2>1, <2>2 DEF Caller, Top
  <1> QED BY <1>1, <1>3, <1>4, <1>5, <1>6, <1>7, <1>8 DEF ChainInv

\* The publisher queues the awaiter: its last step.
LEMMA ScheduleKeeps ==
    ASSUME AwaitedOnce, ChainInv, AwaitIInv', NEW t \in Tasks, ScheduleAwaiter(t)
    PROVE  ChainInv'
  <1>a. PICK a : a = pub[t].awaiter
    OBVIOUS
  <1>0. /\ TypesInv /\ AwaitIInv
        /\ \A s \in Tasks : Where(s) /\ Ends(s) /\ Link(s) /\ Links(s) /\ Cold(s)
        /\ \A x \in Callers : Caller(x)
        /\ tcb \in [Tasks -> TCBs] /\ pub \in [Tasks -> Pubs]
        /\ ready \subseteq [task : Tasks, gen : Nat]
        /\ UNCHANGED <<promise, frame, call, cpu>>
        /\ pub' = [pub EXCEPT ![t].phase = "end"] /\ pub[t].phase = "schedule"
    BY DEF ChainInv, TypesInv, AwaitIInv, ScheduleAwaiter, Publishing, PubGoto
  <1>w. /\ a \in Tasks /\ frame[a].pc = "suspended" /\ Child(a) = t /\ Cleared(a)
        /\ tcb[a].state = "Suspended" /\ tcb[a].gen = pub[t].gen /\ pub[t].gen \in Nat
    <2>1. a \in Tasks /\ frame[a].pc = "suspended" /\ Child(a) = t
      BY <1>0, <1>a DEF Ends, Handover
    <2>2. tcb[a].gen \in Nat
      BY <1>0, <2>1, Fields
    <2> QED BY <1>0, <2>1, <2>2 DEF Link
  <1>o. \A s \in Tasks : frame[s].pc \in InAwait /\ Child(s) = t => s = a
    BY <1>0, <1>w, OneAwaiter DEF InAwait
  <1>c. /\ tcb' = [tcb EXCEPT ![a].state = "Queued"]
        /\ ready' = ready \cup {[task |-> a, gen |-> pub[t].gen]}
    BY <1>a, <1>w DEF ScheduleAwaiter, CanClaim, Enqueued, WithTicket
  <1>p. /\ tcb'[a].state = "Queued"
        /\ \A s \in Tasks : s # a => tcb'[s].state = tcb[s].state
        /\ \A s \in Tasks : /\ tcb'[s].gen = tcb[s].gen
                            /\ tcb'[s].active_child = tcb[s].active_child
                            /\ tcb'[s].parent_tcb = tcb[s].parent_tcb
        /\ ready' \subseteq [task : Tasks, gen : Nat]
    BY <1>0, <1>c, <1>w DEF TCBs
  <1>q. /\ pub' \in [Tasks -> Pubs] /\ pub'[t].phase = "end" /\ pub'[t].by = pub[t].by
        /\ \A s \in Tasks : s # t => pub'[s] = pub[s]
    BY <1>0 DEF Pubs, PubPhases
  <1>n. a # t /\ cpu # a
    <2>1. pub[a].phase = "none"
      BY <1>0, <1>w DEF Ends, Terminal, Where
    <2> QED BY <1>0, <1>w, <2>1 DEF Where, Terminal
  <1>2. \A s \in Tasks : Child(s)' = Child(s)
    BY <1>0 DEF Child
  <1>1. TypesInv'
    BY <1>0, <1>p, <1>q DEF TypesInv
  <1>3. ASSUME NEW s \in Tasks PROVE Where(s)'
    BY <1>0, <1>n, <1>p, <1>w DEF Where
  <1>4. ASSUME NEW s \in Tasks PROVE Ends(s)'
    <2>1. CASE s = t
      BY <1>0, <1>2, <1>n, <1>p, <1>q, <2>1 DEF Ends, Handover
    <2>2. CASE s # t
      <3>1. tcb'[s].state \in Terminal <=> tcb[s].state \in Terminal
        BY <1>p, <1>w DEF Terminal
      <3>2. tcb'[s].state = "Completed" \/ tcb'[s].state = "CompletedCanceled" =>
              tcb'[s].state = tcb[s].state
        BY <1>p
      <3>3. tcb'[s].state \in {"Created", "ColdFinalizing"} <=>
              tcb[s].state \in {"Created", "ColdFinalizing"}
        BY <1>p, <1>w
      <3>4. pub[s].phase # "none" /\ pub[s].by # s => s # a
        BY <1>0, <1>w DEF Ends, Terminal
      <3> QED BY <1>0, <1>2, <1>p, <1>q, <2>2, <3>1, <3>2, <3>3, <3>4 DEF Ends
    <2> QED BY <2>1, <2>2
  <1>5. ASSUME NEW s \in Tasks PROVE Link(s)'
    <2>1. frame[s].pc \in InAwait => Child(s) \in Tasks
      BY <1>0, ChildOf
    <2>2. CASE s = a
      BY <1>0, <1>2, <1>p, <1>q, <1>w, <2>2 DEF Link, Cleared
    <2>3. CASE s # a
      BY <1>0, <1>2, <1>o, <1>p, <1>q, <2>1, <2>3 DEF Link, InAwait, Linked, Cleared
    <2> QED BY <2>2, <2>3
  <1>6. ASSUME NEW s \in Tasks PROVE Links(s)'
    <2>1. ASSUME NEW p \in Tasks, frame[p].pc \in {"install", "suspended"}, Linked(p)
          PROVE  Linked(p)'
      <3>1. Child(p) \in Tasks
        BY <1>0, <2>1, ChildOf DEF InAwait
      <3> QED BY <1>2, <1>p, <2>1, <3>1 DEF Linked
    <2>2. tcb[s].parent_tcb \in Tasks \cup {None} /\ tcb'[s].parent_tcb = tcb[s].parent_tcb
          /\ tcb'[s].active_child = tcb[s].active_child
      BY <1>0, <1>p, Fields
    <2> QED BY <1>0, <1>2, <2>1, <2>2 DEF Links
  <1>7. ASSUME NEW s \in Tasks PROVE Cold(s)'
    BY <1>0, <1>p DEF Cold, Top
  <1>8. ASSUME NEW x \in Callers PROVE Caller(x)'
    <2>1. call[x] # <<>> => Top(x).task \in Tasks
      BY <1>0, TopIsCall, CallsTyped
    <2>2. call[x] # <<>> => /\ pub[Top(x).task].phase = "none" => pub'[Top(x).task].phase = "none"
                            /\ tcb[Top(x).task].state = "ColdFinalizing" =>
                                 tcb'[Top(x).task].state = "ColdFinalizing"
                            /\ tcb'[Top(x).task].state = "Suspended" =>
                                 tcb[Top(x).task].state = "Suspended"
      BY <1>0, <1>p, <1>q, <1>w, <2>1
    <2> QED BY <1>0, <2>1, <2>2 DEF Caller, Top
  <1> QED BY <1>1, <1>3, <1>4, <1>5, <1>6, <1>7, <1>8 DEF ChainInv

\* A leaf that sleeps is queued, by its source or by a canceller.
LEMMA LeafQueued ==
    ASSUME ChainInv, NEW t \in Tasks, frame[t].pc = "waiting", tcb[t].state = "Suspended",
           tcb' = Enqueued(t), UNCHANGED <<promise, frame, pub>>,
           cpu' = cpu \/ (cpu \notin Tasks /\ cpu' \notin Tasks)
    PROVE  /\ \A s \in Tasks : Where(s)' /\ Ends(s)' /\ Link(s)' /\ Links(s)'
           /\ tcb'[t].state = "Queued"
           /\ \A s \in Tasks : s # t => tcb'[s].state = tcb[s].state
  <1>0. /\ TypesInv /\ AwaitIInv /\ tcb \in [Tasks -> TCBs]
        /\ \A s \in Tasks : Where(s) /\ Ends(s) /\ Link(s) /\ Links(s)
    BY DEF ChainInv, TypesInv, AwaitIInv
  <1>p. /\ tcb'[t].state = "Queued"
        /\ \A s \in Tasks : s # t => tcb'[s].state = tcb[s].state
        /\ \A s \in Tasks : /\ tcb'[s].gen = tcb[s].gen
                            /\ tcb'[s].active_child = tcb[s].active_child
                            /\ tcb'[s].parent_tcb = tcb[s].parent_tcb
    BY <1>0 DEF TCBs, Enqueued
  <1>2. \A s \in Tasks : Child(s)' = Child(s)
    BY DEF Child
  <1>3. ASSUME NEW s \in Tasks PROVE Where(s)'
    BY <1>0, <1>p DEF Where
  <1>4. ASSUME NEW s \in Tasks PROVE Ends(s)'
    <2>1. tcb'[s].state \in Terminal <=> tcb[s].state \in Terminal
      BY <1>p DEF Terminal
    <2>2. tcb'[s].state = "Completed" \/ tcb'[s].state = "CompletedCanceled" =>
            tcb'[s].state = tcb[s].state
      BY <1>p
    <2>3. tcb'[s].state \in {"Created", "ColdFinalizing"} <=>
            tcb[s].state \in {"Created", "ColdFinalizing"}
      BY <1>p
    <2>4. pub[s].phase # "none" /\ pub[s].by # s => s # t
      BY <1>0 DEF Ends, Terminal
    <2> QED BY <1>0, <1>2, <1>p, <2>1, <2>2, <2>3, <2>4 DEF Ends
  <1>5. ASSUME NEW s \in Tasks PROVE Link(s)'
    <2>1. frame[s].pc \in InAwait => Child(s) \in Tasks /\ s # t
      BY <1>0, ChildOf DEF InAwait
    <2> QED BY <1>0, <1>2, <1>p, <2>1 DEF Link, InAwait, Linked, Cleared
  <1>6. ASSUME NEW s \in Tasks PROVE Links(s)'
    <2>1. ASSUME NEW p \in Tasks, frame[p].pc \in {"install", "suspended"}, Linked(p)
          PROVE  Linked(p)'
      <3>1. Child(p) \in Tasks
        BY <1>0, <2>1, ChildOf DEF InAwait
      <3> QED BY <1>2, <1>p, <2>1, <3>1 DEF Linked
    <2>2. tcb[s].parent_tcb \in Tasks \cup {None} /\ tcb'[s].parent_tcb = tcb[s].parent_tcb
          /\ tcb'[s].active_child = tcb[s].active_child
      BY <1>0, <1>p, Fields
    <2> QED BY <1>0, <1>2, <2>1, <2>2 DEF Links
  <1> QED BY <1>3, <1>4, <1>5, <1>6, <1>p

\* A ticket of a task joins the ready queue.
LEMMA TicketType ==
    ASSUME TypesInv, NEW t \in Tasks, ready' = WithTicket(t, tcb[t].gen)
    PROVE  ready' \subseteq [task : Tasks, gen : Nat]
  <1>1. tcb[t].gen \in Nat
    BY Fields
  <1> QED BY <1>1 DEF TypesInv, WithTicket

\* The source of a leaf wakes it.
LEMMA SourceKeeps ==
    ASSUME ChainInv, AwaitIInv', NEW t \in Tasks, SourceWakes(t)
    PROVE  ChainInv'
  <1>0. /\ TypesInv /\ \A s \in Tasks : Cold(s)
        /\ \A x \in Callers : Caller(x)
        /\ frame[t].pc = "waiting" /\ tcb[t].state = "Suspended" /\ tcb' = Enqueued(t)
        /\ UNCHANGED <<promise, frame, pub, call, cpu>>
        /\ ready' = WithTicket(t, tcb[t].gen)
    BY DEF ChainInv, SourceWakes
  <1>1. /\ \A s \in Tasks : Where(s)' /\ Ends(s)' /\ Link(s)' /\ Links(s)'
        /\ tcb'[t].state = "Queued"
        /\ \A s \in Tasks : s # t => tcb'[s].state = tcb[s].state
    BY <1>0, LeafQueued
  <1>2. TypesInv'
    BY <1>0, TicketType DEF TypesInv
  <1>7. ASSUME NEW s \in Tasks PROVE Cold(s)'
    BY <1>0, <1>1 DEF Cold, Top
  <1>8. ASSUME NEW x \in Callers PROVE Caller(x)'
    <2>1. call[x] # <<>> => Top(x).task \in Tasks
      BY <1>0, TopIsCall, CallsTyped
    <2>2. call[x] # <<>> => /\ tcb[Top(x).task].state = "ColdFinalizing" =>
                                 tcb'[Top(x).task].state = "ColdFinalizing"
                            /\ tcb'[Top(x).task].state = "Suspended" =>
                                 tcb[Top(x).task].state = "Suspended"
      BY <1>0, <1>1, <2>1
    <2> QED BY <1>0, <2>1, <2>2 DEF Caller, Top
  <1> QED BY <1>1, <1>2, <1>7, <1>8 DEF ChainInv

-----------------------------------------------------------------------------
(* The calls of request_cancel.                                            *)

\* The call on top changes.
LEMMA TopWritten ==
    ASSUME CallTypes, NEW x \in Callers, call[x] # <<>>, NEW r \in CallRecs,
           call' = [call EXCEPT ![x] = [@ EXCEPT ![Len(@)] = r]]
    PROVE  /\ call' \in [Callers -> Seq(CallRecs)]
           /\ \A y \in Callers : y # x => call'[y] = call[y]
           /\ Len(call'[x]) = Len(call[x]) /\ call'[x] # <<>> /\ Top(x)' = r
           /\ \A k \in 1 .. Len(call[x]) : k # Len(call[x]) => call'[x][k] = call[x][k]
           /\ call'[x][Len(call[x])] = r
  <1>1. call \in [Callers -> Seq(CallRecs)] /\ call[x] \in Seq(CallRecs)
    BY DEF CallTypes
  <1>2. Len(call[x]) \in Nat \ {0} /\ Len(call[x]) \in DOMAIN call[x]
        /\ DOMAIN call[x] = 1 .. Len(call[x])
    BY <1>1, TopIsCall
  <1> HIDE DEF CallRecs
  <1>3. PICK q : q = [call[x] EXCEPT ![Len(call[x])] = r]
    OBVIOUS
  <1>4. /\ q \in Seq(CallRecs) /\ Len(q) = Len(call[x]) /\ q[Len(call[x])] = r
        /\ \A k \in 1 .. Len(call[x]) : k # Len(call[x]) => q[k] = call[x][k]
    BY <1>1, <1>2, <1>3
  <1>5. call' = [call EXCEPT ![x] = q]
    BY <1>3
  <1>6. /\ call' \in [Callers -> Seq(CallRecs)] /\ call'[x] = q
        /\ \A y \in Callers : y # x => call'[y] = call[y]
    BY <1>1, <1>4, <1>5
  <1>7. q # <<>>
    BY <1>2, <1>4
  <1> QED BY <1>4, <1>6, <1>7 DEF Top

\* The call on top returns.
LEMMA TopReturned ==
    ASSUME CallTypes, NEW x \in Callers, call[x] # <<>>,
           call' = [call EXCEPT ![x] = SubSeq(@, 1, Len(@) - 1)]
    PROVE  /\ call' \in [Callers -> Seq(CallRecs)]
           /\ \A y \in Callers : y # x => call'[y] = call[y]
           /\ Len(call'[x]) = Len(call[x]) - 1
           /\ \A k \in 1 .. Len(call'[x]) : call'[x][k] = call[x][k]
           /\ call'[x] = <<>> <=> Len(call[x]) = 1
  <1>1. call \in [Callers -> Seq(CallRecs)] /\ call[x] \in Seq(CallRecs)
    BY DEF CallTypes
  <1>2. Len(call[x]) \in Nat \ {0} /\ Len(call[x]) \in DOMAIN call[x]
        /\ DOMAIN call[x] = 1 .. Len(call[x])
    BY <1>1, TopIsCall
  <1> HIDE DEF CallRecs
  <1>3. PICK q : q = SubSeq(call[x], 1, Len(call[x]) - 1)
    OBVIOUS
  <1>4. /\ q \in Seq(CallRecs) /\ Len(q) = Len(call[x]) - 1
        /\ \A k \in 1 .. Len(q) : q[k] = call[x][k]
    BY <1>1, <1>2, <1>3
  <1>5. call' = [call EXCEPT ![x] = q]
    BY <1>3
  <1>6. /\ call' \in [Callers -> Seq(CallRecs)] /\ call'[x] = q
        /\ \A y \in Callers : y # x => call'[y] = call[y]
    BY <1>1, <1>4, <1>5
  <1>7. q = <<>> <=> Len(call[x]) = 1
    <2>1. q \in Seq(CallRecs)
      BY <1>4
    <2>2. q # <<>> => Len(q) # 0
      BY <2>1
    <2>3. q = <<>> => Len(q) = 0
      OBVIOUS
    <2> QED BY <1>2, <1>4, <2>2, <2>3
  <1> QED BY <1>4, <1>6, <1>7

\* A phase stored in the call on top.
LEMMA TopGoes ==
    ASSUME CallTypes, NEW x \in Callers, call[x] # <<>>, NEW phase \in CallPhases,
           CallGoto(x, phase)
    PROVE  /\ call' \in [Callers -> Seq(CallRecs)]
           /\ \A y \in Callers : y # x => call'[y] = call[y]
           /\ Len(call'[x]) = Len(call[x]) /\ call'[x] # <<>>
           /\ \A k \in 1 .. Len(call[x]) : k # Len(call[x]) => call'[x][k] = call[x][k]
           /\ call'[x][Len(call[x])] = Top(x)' /\ Top(x)'.phase = phase
           /\ Top(x)'.task = Top(x).task /\ Top(x)'.waits = Top(x).waits
  <1>1. PICK r : r = [Top(x) EXCEPT !.phase = phase]
    OBVIOUS
  <1>2. Top(x) \in CallRecs
    BY TopIsCall
  <1>3. r \in CallRecs /\ r.phase = phase /\ r.task = Top(x).task /\ r.waits = Top(x).waits
    BY <1>1, <1>2 DEF CallRecs
  <1>4. call' = [call EXCEPT ![x] = [@ EXCEPT ![Len(@)] = r]]
    <2>1. call' = [call EXCEPT ![x][Len(call[x])].phase = phase]
      BY DEF CallGoto
    <2>2. call \in [Callers -> Seq(CallRecs)]
      BY DEF CallTypes
    <2>3. [call[x][Len(call[x])] EXCEPT !.phase = phase] = r
      BY <1>1 DEF Top
    <2> HIDE DEF CallRecs
    <2> QED BY <2>1, <2>2, <2>3
  <1> HIDE DEF CallRecs
  <1> QED BY <1>3, <1>4, TopWritten

\* On the executor's thread the caller whose call goes on has the executor, and
\* no other caller has a call under way.
LEMMA CallerRuns ==
    ASSUME OnExecutor, ChainInv, NEW x \in Callers, NEW phase, Calls(x, phase)
    PROVE  /\ TypesInv /\ cpu = x /\ cpu \notin Tasks /\ call[x] # <<>>
           /\ Top(x).phase = phase /\ Top(x).task \in Tasks /\ Top(x).waits \in {0, 1}
           /\ \A y \in Callers : y # x => call[y] = <<>>
  <1>1. cpu = x /\ call[x] # <<>> /\ Top(x).phase = phase /\ TypesInv
    BY DEF Calls, IsExecuting, OnExecutor, ChainInv
  <1>2. \A y \in Callers : y # x => call[y] = <<>>
    BY <1>1 DEF ChainInv, Caller
  <1> QED BY <1>1, <1>2, TopIsCall, CallsTyped, Names

\* What is left to show of a step of a caller.
LEMMA CallerKeeps ==
    ASSUME ChainInv, NEW x \in Callers, cpu = x, call[x] # <<>>, TypesInv',
           \A y \in Callers : y # x => call'[y] = call[y],
           Caller(x)', cpu' = x \/ cpu' = None,
           \A s \in Tasks : Where(s)' /\ Ends(s)' /\ Link(s)' /\ Links(s)' /\ Cold(s)'
    PROVE  ChainInv'
  <1>1. ASSUME NEW y \in Callers, y # x PROVE Caller(y)'
    <2>1. call'[y] = <<>>
      BY <1>1 DEF ChainInv, Caller
    <2>2. cpu' # y
      BY <1>1, Names
    <2>3. Len(call'[y]) = 0
      BY <2>1
    <2> QED BY <2>1, <2>2, <2>3 DEF Caller
  <1> QED BY <1>1 DEF ChainInv

\* What the invariant says of a caller when its call on top is rewritten ...
LEMMA CallerWritten ==
    ASSUME ChainInv, NEW x \in Callers, cpu = x, call[x] # <<>>, cpu' = cpu,
           Len(call'[x]) = Len(call[x]), call'[x] # <<>>,
           \A k \in 1 .. Len(call[x]) : k # Len(call[x]) => call'[x][k] = call[x][k],
           Top(x)'.phase \notin {"load", "ticket"},
           Top(x)'.phase = "arbiter" /\ Top(x)'.waits = 0 =>
             ~(tcb'[Top(x)'.task].state = "Suspended" /\ frame'[Top(x)'.task].pc = "suspended"),
           Top(x)'.phase = "finalize" =>
             tcb'[Top(x)'.task].state = "ColdFinalizing" /\ pub'[Top(x)'.task].phase = "none"
    PROVE  Caller(x)'
  <1>1. Caller(x) /\ Len(call[x]) \in Nat
    BY TopIsCall, CallsTyped DEF ChainInv
  <1>2. ASSUME NEW k \in 1 .. Len(call'[x])
        PROVE  /\ call'[x][k].phase \notin {"load", "ticket"}
               /\ k < Len(call'[x]) => call'[x][k].phase = "arbiter" /\ call'[x][k].waits = 1
    <2>1. CASE k = Len(call[x])
      BY <1>1, <2>1 DEF Top
    <2>2. CASE k # Len(call[x])
      BY <1>1, <2>2 DEF Caller
    <2> QED BY <2>1, <2>2
  <1> QED BY <1>1, <1>2 DEF Caller

\* ... and when it returns.
LEMMA CallerReturned ==
    ASSUME ChainInv, NEW x \in Callers, cpu = x, call[x] # <<>>, Return(x)
    PROVE  /\ Caller(x)' /\ (cpu' = x \/ cpu' = None)
           /\ call' \in [Callers -> Seq(CallRecs)]
           /\ \A y \in Callers : y # x => call'[y] = call[y]
  <1>1. Caller(x) /\ Len(call[x]) \in Nat /\ Len(call[x]) # 0 /\ TypesInv
    BY TopIsCall, CallsTyped DEF ChainInv
  <1>2. /\ call' \in [Callers -> Seq(CallRecs)]
        /\ \A y \in Callers : y # x => call'[y] = call[y]
        /\ Len(call'[x]) = Len(call[x]) - 1
        /\ \A k \in 1 .. Len(call'[x]) : call'[x][k] = call[x][k]
        /\ call'[x] = <<>> <=> Len(call[x]) = 1
    BY <1>1, TopReturned, CallsTyped DEF Return
  <1>3. cpu' = IF Len(call[x]) = 1 THEN None ELSE x
    BY DEF Return
  <1>4. call'[x] # <<>> <=> cpu' = x
    BY <1>2, <1>3, Names
  <1>5. ASSUME NEW k \in 1 .. Len(call'[x])
        PROVE  call'[x][k].phase = "arbiter" /\ call'[x][k].waits = 1
    <2>1. k \in 1 .. Len(call[x]) /\ k < Len(call[x]) /\ call'[x][k] = call[x][k]
      BY <1>1, <1>2
    <2> QED BY <1>1, <2>1 DEF Caller
  <1>6. call'[x] # <<>> => Top(x)'.phase = "arbiter" /\ Top(x)'.waits = 1
    <2>1. call'[x] # <<>> => Len(call'[x]) \in 1 .. Len(call'[x])
      BY <1>1, <1>2
    <2> QED BY <1>5, <2>1 DEF Top
  <1>7. Caller(x)'
    BY <1>4, <1>5, <1>6 DEF Caller
  <1> QED BY <1>2, <1>3, <1>7

\* A call begins on an executor that runs nothing.
LEMMA RequestKeeps ==
    ASSUME OnExecutor, ChainInv, AwaitIInv', NEW x \in Callers, NEW t \in Tasks,
           RequestCancel(x, t)
    PROVE  ChainInv'
  <1>0. /\ TypesInv /\ \A y \in Callers : Caller(y) /\ y # None
        /\ \A s \in Tasks : Cold(s)
        /\ cpu = None /\ cpu' = x /\ UNCHANGED <<tcb, promise, frame, pub, ready>>
        /\ call' = [call EXCEPT ![x] = <<NewCall(t)>>]
        /\ call \in [Callers -> Seq(CallRecs)]
    BY Names DEF ChainInv, TypesInv, RequestCancel, OnExecutor
  <1>1. NewCall(t) \in CallRecs /\ NewCall(t).phase = "flags"
    BY DEF NewCall, CallRecs, CallPhases
  <1>2. PICK r : r = NewCall(t)
    OBVIOUS
  <1>3. /\ call' \in [Callers -> Seq(CallRecs)] /\ call'[x] = <<r>>
        /\ \A y \in Callers : y # x => call'[y] = call[y]
    <2> HIDE DEF CallRecs
    <2>1. <<r>> \in Seq(CallRecs)
      BY <1>1, <1>2
    <2> QED BY <1>0, <1>2, <2>1
  <1>4. Len(call'[x]) = 1 /\ call'[x] # <<>> /\ call'[x][1].phase = "flags" /\ Top(x)'.phase = "flags"
    BY <1>1, <1>2, <1>3 DEF Top
  <1>5. TypesInv'
    BY <1>0, <1>3 DEF TypesInv
  <1>6. \A s \in Tasks : Where(s)' /\ Ends(s)' /\ Link(s)' /\ Links(s)'
    BY <1>0, TasksStay, Names
  <1>7. ASSUME NEW s \in Tasks PROVE Cold(s)'
    BY <1>0 DEF Cold
  <1>8. ASSUME NEW y \in Callers PROVE Caller(y)'
    <2>1. CASE y = x
      <3>1. \A k \in 1 .. Len(call'[x]) : k = 1
        BY <1>4
      <3> QED BY <1>0, <1>4, <2>1, <3>1 DEF Caller
    <2>2. CASE y # x
      <3>1. call'[y] = <<>> /\ Len(call'[y]) = 0
        BY <1>0, <1>3, <2>2 DEF Caller
      <3> QED BY <1>0, <2>2, <3>1 DEF Caller
    <2> QED BY <2>1, <2>2
  <1> QED BY <1>5, <1>6, <1>7, <1>8 DEF ChainInv

\* The cancellation flags are stored.
LEMMA FlagsKeeps ==
    ASSUME OnExecutor, ChainInv, AwaitIInv', NEW x \in Callers, StoreCancelFlags(x)
    PROVE  ChainInv'
  <1>0. /\ TypesInv /\ cpu = x /\ call[x] # <<>> /\ Top(x).phase = "flags"
        /\ Top(x).task \in Tasks /\ tcb \in [Tasks -> TCBs] /\ \A s \in Tasks : Cold(s)
    BY CallerRuns DEF StoreCancelFlags, ChainInv, TypesInv, AwaitIInv
  <1>1. /\ UNCHANGED <<promise, frame, pub, ready, cpu>> /\ CallGoto(x, "claim")
        /\ tcb' = [tcb EXCEPT ![Top(x).task].cancel_requested = 1,
                              ![Top(x).task].cancel_handled = 0]
    BY DEF StoreCancelFlags
  <1>2. \A s \in Tasks : /\ tcb'[s].state = tcb[s].state /\ tcb'[s].gen = tcb[s].gen
                         /\ tcb'[s].active_child = tcb[s].active_child
                         /\ tcb'[s].parent_tcb = tcb[s].parent_tcb
    BY <1>0, <1>1 DEF TCBs
  <1>3. \A s \in Tasks : Where(s)' /\ Ends(s)' /\ Link(s)' /\ Links(s)'
    BY <1>1, <1>2, TasksStay
  <1>4. /\ call' \in [Callers -> Seq(CallRecs)]
        /\ \A y \in Callers : y # x => call'[y] = call[y]
        /\ Len(call'[x]) = Len(call[x]) /\ call'[x] # <<>>
        /\ \A k \in 1 .. Len(call[x]) : k # Len(call[x]) => call'[x][k] = call[x][k]
        /\ Top(x)'.phase = "claim"
    BY <1>0, <1>1, TopGoes, CallsTyped DEF CallPhases
  <1>5. Caller(x)'
    BY <1>0, <1>1, <1>4, CallerWritten
  <1>6. ASSUME NEW s \in Tasks PROVE Cold(s)'
    BY <1>0, <1>2 DEF Cold
  <1>7. TypesInv'
    BY <1>0, <1>1, <1>4 DEF TypesInv
  <1> QED BY <1>0, <1>1, <1>3, <1>4, <1>5, <1>6, <1>7, CallerKeeps

\* The call on top after the resolution word is claimed.
LEMMA ClaimTop ==
    ASSUME CallTypes, NEW x \in Callers, call[x] # <<>>, ClaimAwait(x)
    PROVE  /\ call' \in [Callers -> Seq(CallRecs)]
           /\ \A y \in Callers : y # x => call'[y] = call[y]
           /\ Len(call'[x]) = Len(call[x]) /\ call'[x] # <<>>
           /\ \A k \in 1 .. Len(call[x]) : k # Len(call[x]) => call'[x][k] = call[x][k]
           /\ call'[x][Len(call[x])] = Top(x)'
           /\ Top(x)'.phase = "snapshot" /\ Top(x)'.task = Top(x).task
  <1>w. PICK w \in {0, 1} :
          call' = [call EXCEPT ![x][Len(call[x])].phase = "snapshot",
                               ![x][Len(call[x])].waits = w]
    <2>1. PICK w : w = IF tcb[Top(x).task].resolution \in Cancellable \cup {"CancelClaimed"}
                         THEN 1 ELSE 0
      OBVIOUS
    <2> QED BY <2>1 DEF ClaimAwait
  <1>r. PICK r : r = [Top(x) EXCEPT !.phase = "snapshot", !.waits = w]
    OBVIOUS
  <1>s. r \in CallRecs /\ r.phase = "snapshot" /\ r.task = Top(x).task
    <2>1. Top(x) \in CallRecs
      BY TopIsCall
    <2> QED BY <1>r, <2>1 DEF CallRecs, CallPhases
  <1>c. call' = [call EXCEPT ![x] = [@ EXCEPT ![Len(@)] = r]]
    <2>2. call \in [Callers -> Seq(CallRecs)]
      BY DEF CallTypes
    <2>3. [call[x][Len(call[x])] EXCEPT !.phase = "snapshot", !.waits = w] = r
      BY <1>r DEF Top
    <2>4. Len(call[x]) \in DOMAIN call[x]
      BY TopIsCall
    <2> HIDE DEF CallRecs
    <2> QED BY <1>w, <2>2, <2>3, <2>4
  <1> HIDE DEF CallRecs
  <1> QED BY <1>s, <1>c, TopWritten

\* The resolution word of the await is claimed.
LEMMA ClaimKeeps ==
    ASSUME OnExecutor, ChainInv, AwaitIInv', NEW x \in Callers, ClaimAwait(x)
    PROVE  ChainInv'
  <1>0. /\ TypesInv /\ cpu = x /\ call[x] # <<>> /\ Top(x).phase = "claim"
        /\ Top(x).task \in Tasks /\ tcb \in [Tasks -> TCBs] /\ \A s \in Tasks : Cold(s)
    BY CallerRuns DEF ClaimAwait, ChainInv, TypesInv, AwaitIInv
  <1>1. /\ UNCHANGED <<promise, frame, pub, ready, cpu>>
        /\ \/ tcb' = [tcb EXCEPT ![Top(x).task].resolution = "CancelClaimed"]
           \/ tcb' = tcb
    BY DEF ClaimAwait
  <1>2. \A s \in Tasks : /\ tcb'[s].state = tcb[s].state /\ tcb'[s].gen = tcb[s].gen
                         /\ tcb'[s].active_child = tcb[s].active_child
                         /\ tcb'[s].parent_tcb = tcb[s].parent_tcb
    BY <1>0, <1>1 DEF TCBs
  <1>3. \A s \in Tasks : Where(s)' /\ Ends(s)' /\ Link(s)' /\ Links(s)'
    BY <1>1, <1>2, TasksStay
  <1>4. /\ call' \in [Callers -> Seq(CallRecs)]
        /\ \A y \in Callers : y # x => call'[y] = call[y]
        /\ Len(call'[x]) = Len(call[x]) /\ call'[x] # <<>>
        /\ \A k \in 1 .. Len(call[x]) : k # Len(call[x]) => call'[x][k] = call[x][k]
        /\ Top(x)'.phase = "snapshot"
    BY <1>0, ClaimTop, CallsTyped
  <1>5. Caller(x)'
    BY <1>0, <1>1, <1>4, CallerWritten
  <1>6. ASSUME NEW s \in Tasks PROVE Cold(s)'
    BY <1>0, <1>2 DEF Cold
  <1>7. TypesInv'
    BY <1>0, <1>1, <1>4 DEF TypesInv
  <1> QED BY <1>0, <1>1, <1>3, <1>4, <1>5, <1>6, <1>7, CallerKeeps

\* While a caller has the executor, a suspended await that its child's end has not
\* queued is linked to its child.
LEMMA ParkedIsLinked ==
    ASSUME ChainInv, cpu \in Callers, NEW t \in Tasks,
           tcb[t].state = "Suspended", frame[t].pc = "suspended"
    PROVE  Child(t) \in Tasks /\ Linked(t) /\ tcb[t].active_child # None
  <1>1. AwaitIInv /\ Link(t) /\ \A s \in Tasks : Ends(s) /\ Where(s)
    BY DEF ChainInv, TypesInv
  <1>2. Child(t) \in Tasks
    BY <1>1, ChildOf DEF InAwait
  <1>3. pub[Child(t)].phase \in PubPhases /\ pub[Child(t)].phase # "end"
    BY <1>1, <1>2, Fields DEF Link, ChainInv
  <1>4. pub[Child(t)].phase \notin Handover
    <2> SUFFICES ASSUME pub[Child(t)].phase \in Handover PROVE FALSE
      OBVIOUS
    <2>1. frame[Child(t)].pc = "publish"
      BY <1>1, <1>2, <1>3 DEF Ends, Handover
    <2> QED BY <1>1, <1>2, <2>1, Names DEF Where
  <1>5. Linked(t)
    BY <1>1, <1>3, <1>4 DEF Link, PubPhases, Handover
  <1> QED BY <1>2, <1>5, Names DEF Linked

\* The calls after the child is read: the child's call is on top.
LEMMA SnapshotTop ==
    ASSUME CallTypes, NEW x \in Callers, call[x] # <<>>, SnapshotChild(x),
           NEW c \in Tasks, c = tcb[Top(x).task].active_child
    PROVE  /\ call' \in [Callers -> Seq(CallRecs)]
           /\ \A y \in Callers : y # x => call'[y] = call[y]
           /\ Len(call'[x]) = Len(call[x]) + 1 /\ call'[x] # <<>>
           /\ \A k \in 1 .. Len(call[x]) : k # Len(call[x]) => call'[x][k] = call[x][k]
           /\ LET r == call'[x][Len(call[x])]
              IN  r.phase = "arbiter" /\ r.waits = 1 /\ r.task = Top(x).task
           /\ call'[x][Len(call[x]) + 1] = Top(x)'
           /\ Top(x)'.phase = "flags" /\ Top(x)'.task = c
  <1>0. call \in [Callers -> Seq(CallRecs)] /\ call[x] \in Seq(CallRecs)
    BY DEF CallTypes
  <1>4. c # None
    BY Names
  <1>s0. c \in Tasks /\ Len(call[x]) \in Nat \ {0} /\ Len(call[x]) \in DOMAIN call[x]
        /\ DOMAIN call[x] = 1 .. Len(call[x]) /\ Top(x) \in CallRecs
    BY <1>0, TopIsCall
  <1>sn. PICK n : n = NewCall(c)
    OBVIOUS
  <1>s1. n \in CallRecs /\ n.phase = "flags" /\ n.task = c
    BY <1>s0, <1>sn DEF NewCall, CallRecs, CallPhases
  <1>sr. PICK r : r = [[Top(x) EXCEPT !.phase = "arbiter"] EXCEPT !.waits = 1]
    OBVIOUS
  <1>s2. r \in CallRecs /\ r.phase = "arbiter" /\ r.waits = 1 /\ r.task = Top(x).task
    BY <1>s0, <1>sr DEF CallRecs, CallPhases
  <1>sa. PICK a : a = [Top(x) EXCEPT !.phase = "arbiter"]
    OBVIOUS
  <1>sb. PICK p : p = [call[x] EXCEPT ![Len(call[x])] = a]
    OBVIOUS
  <1>sq. PICK q : q = [call[x] EXCEPT ![Len(call[x])] = r]
    OBVIOUS
  <1>s3. call' = [call EXCEPT ![x] = Append(q, n)]
    <2>1. a \in CallRecs /\ r = [a EXCEPT !.waits = 1]
      BY <1>s0, <1>sa, <1>sr DEF CallRecs, CallPhases
    <2>2. [call EXCEPT ![x][Len(call[x])].phase = "arbiter"] = [call EXCEPT ![x] = p]
      BY <1>0, <1>sa, <1>sb DEF Top
    <2>3. p \in Seq(CallRecs) /\ Len(p) = Len(call[x]) /\ p[Len(p)] = a
      <3> HIDE DEF CallRecs
      <3> QED BY <1>0, <1>s0, <1>sb, <2>1
    <2>4. [p EXCEPT ![Len(p)].waits = 1] = q
      <3>1. [p EXCEPT ![Len(p)].waits = 1] = [p EXCEPT ![Len(p)] = r]
        BY <2>1, <2>3
      <3> HIDE DEF CallRecs
      <3> QED BY <1>0, <1>s0, <1>sb, <1>sq, <2>3, <3>1
    <2>5. call' = [[call EXCEPT ![x] = p] EXCEPT ![x] = Append([@ EXCEPT ![Len(@)].waits = 1], n)]
      BY <1>4, <1>sn, <2>2 DEF SnapshotChild
    <2>6. [call EXCEPT ![x] = p][x] = p
      BY <1>0
    <2>7. call' = [[call EXCEPT ![x] = p] EXCEPT ![x] = Append(q, n)]
      BY <2>4, <2>5, <2>6
    <2> QED BY <1>0, <2>7
  <1>s4. /\ q \in Seq(CallRecs) /\ Len(q) = Len(call[x]) /\ q[Len(call[x])] = r
        /\ \A k \in 1 .. Len(call[x]) : k # Len(call[x]) => q[k] = call[x][k]
    <2> HIDE DEF CallRecs
    <2> QED BY <1>0, <1>s0, <1>s2, <1>sq
  <1>ss. PICK z : z = Append(q, n)
    OBVIOUS
  <1>s5. /\ z \in Seq(CallRecs) /\ Len(z) = Len(call[x]) + 1 /\ z[Len(call[x]) + 1] = n
        /\ \A k \in 1 .. Len(call[x]) : z[k] = q[k]
    <2> HIDE DEF CallRecs
    <2> QED BY <1>s0, <1>s1, <1>s4, <1>ss
  <1>s6. /\ call' \in [Callers -> Seq(CallRecs)] /\ call'[x] = z
        /\ \A y \in Callers : y # x => call'[y] = call[y]
    <2> HIDE DEF CallRecs
    <2> QED BY <1>0, <1>s3, <1>s5, <1>ss
  <1>s7. Top(x)' = n /\ call'[x] # <<>>
    BY <1>s0, <1>s5, <1>s6 DEF Top
  <1> HIDE DEF CallRecs
  <1> QED BY <1>s0, <1>s1, <1>s2, <1>s4, <1>s5, <1>s6, <1>s7

\* The child is read, and cancelled first when there is one.
LEMMA SnapshotKeeps ==
    ASSUME OnExecutor, ChainInv, AwaitIInv', NEW x \in Callers, SnapshotChild(x)
    PROVE  ChainInv'
  <1>0. /\ TypesInv /\ cpu = x /\ call[x] # <<>> /\ Top(x).phase = "snapshot"
        /\ Top(x).task \in Tasks /\ \A s \in Tasks : Cold(s)
        /\ call \in [Callers -> Seq(CallRecs)] /\ call[x] \in Seq(CallRecs)
        /\ UNCHANGED <<tcb, promise, frame, pub, ready, cpu>>
    BY CallerRuns DEF SnapshotChild, ChainInv, TypesInv
  <1>1. \A s \in Tasks : Where(s)' /\ Ends(s)' /\ Link(s)' /\ Links(s)'
    BY <1>0, TasksStay
  <1>2. ASSUME NEW s \in Tasks PROVE Cold(s)'
    BY <1>0 DEF Cold
  <1>c. PICK c : c = tcb[Top(x).task].active_child
    OBVIOUS
  <1>3. CASE c = None
    <2>1. CallGoto(x, "arbiter")
      BY <1>3, <1>c DEF SnapshotChild, CallGoto
    <2>2. /\ call' \in [Callers -> Seq(CallRecs)]
          /\ \A y \in Callers : y # x => call'[y] = call[y]
          /\ Len(call'[x]) = Len(call[x]) /\ call'[x] # <<>>
          /\ \A k \in 1 .. Len(call[x]) : k # Len(call[x]) => call'[x][k] = call[x][k]
          /\ Top(x)'.phase = "arbiter" /\ Top(x)'.task = Top(x).task
      BY <1>0, <2>1, TopGoes, CallsTyped DEF CallPhases
    <2>3. ~(tcb[Top(x).task].state = "Suspended" /\ frame[Top(x).task].pc = "suspended")
      BY <1>0, <1>3, <1>c, ParkedIsLinked
    <2>4. Caller(x)'
      BY <1>0, <2>2, <2>3, CallerWritten
    <2>5. TypesInv'
      BY <1>0, <2>2 DEF TypesInv
    <2> QED BY <1>0, <1>1, <1>2, <2>2, <2>4, <2>5, CallerKeeps
  <1>4. CASE c # None
    <2>0. c \in Tasks /\ Len(call[x]) \in Nat \ {0}
      BY <1>0, <1>4, <1>c, TopIsCall, CallsTyped, Fields
    <2>6. /\ call' \in [Callers -> Seq(CallRecs)]
          /\ \A y \in Callers : y # x => call'[y] = call[y]
          /\ Len(call'[x]) = Len(call[x]) + 1 /\ call'[x] # <<>>
          /\ \A k \in 1 .. Len(call[x]) : k # Len(call[x]) => call'[x][k] = call[x][k]
          /\ call'[x][Len(call[x])].phase = "arbiter" /\ call'[x][Len(call[x])].waits = 1
          /\ call'[x][Len(call[x]) + 1] = Top(x)' /\ Top(x)'.phase = "flags"
      BY <1>0, <1>c, <2>0, SnapshotTop, CallsTyped
    <2>8. ASSUME NEW k \in 1 .. Len(call'[x])
          PROVE  /\ call'[x][k].phase \notin {"load", "ticket"}
                 /\ k < Len(call'[x]) => call'[x][k].phase = "arbiter" /\ call'[x][k].waits = 1
      <3>1. CASE k = Len(call[x]) + 1
        BY <2>0, <2>6, <3>1
      <3>2. CASE k = Len(call[x])
        BY <2>0, <2>6, <3>2
      <3>3. CASE k \in 1 .. Len(call[x]) /\ k < Len(call[x])
        <4>1. call'[x][k] = call[x][k]
          BY <2>0, <2>6, <3>3
        <4> QED BY <3>3, <4>1 DEF ChainInv, Caller
      <3>4. k \in 1 .. (Len(call[x]) + 1)
        BY <2>6
      <3> QED BY <2>0, <3>1, <3>2, <3>3, <3>4
    <2>9. Caller(x)'
      BY <1>0, <2>6, <2>8 DEF Caller
    <2>10. TypesInv'
      BY <1>0, <2>6 DEF TypesInv
    <2> QED BY <1>0, <1>1, <1>2, <2>6, <2>9, <2>10, CallerKeeps
  <1> QED BY <1>3, <1>4

\* The arbiter: a sleeping leaf is queued, a suspended await is left to its child.
LEMMA ArbiterKeeps ==
    ASSUME OnExecutor, ChainInv, AwaitIInv', NEW x \in Callers, CancelArbiter(x)
    PROVE  ChainInv'
  <1>t. PICK t : t = Top(x).task
    OBVIOUS
  <1>0. /\ TypesInv /\ cpu = x /\ cpu \notin Tasks /\ call[x] # <<>> /\ Top(x).phase = "arbiter"
        /\ t \in Tasks /\ Top(x).waits \in {0, 1} /\ \A s \in Tasks : Cold(s)
        /\ Caller(x) /\ Where(t) /\ UNCHANGED <<promise, frame, pub>> /\ None \notin Tasks
    BY <1>t, CallerRuns, Names DEF CancelArbiter, ChainInv
  <1>n. \A s \in Tasks : tcb[s].state # "ColdFinalizing"
    BY <1>0 DEF Cold
  <1>1. CASE /\ tcb[t].state = "Created" /\ CallGoto(x, "cold")
             /\ UNCHANGED <<tcb, ready, cpu>>
    <2>1. \A s \in Tasks : Where(s)' /\ Ends(s)' /\ Link(s)' /\ Links(s)'
      BY <1>0, <1>1, TasksStay
    <2>2. /\ call' \in [Callers -> Seq(CallRecs)]
          /\ \A y \in Callers : y # x => call'[y] = call[y]
          /\ Len(call'[x]) = Len(call[x]) /\ call'[x] # <<>>
          /\ \A k \in 1 .. Len(call[x]) : k # Len(call[x]) => call'[x][k] = call[x][k]
          /\ Top(x)'.phase = "cold"
      BY <1>0, <1>1, TopGoes, CallsTyped DEF CallPhases
    <2>3. Caller(x)'
      BY <1>0, <1>1, <2>2, CallerWritten
    <2>4. TypesInv' /\ \A s \in Tasks : Cold(s)'
      BY <1>0, <1>1, <1>n, <2>2 DEF TypesInv, Cold
    <2> QED BY <1>0, <1>1, <2>1, <2>2, <2>3, <2>4, CallerKeeps
  <1>2. CASE /\ tcb[t].state = "Suspended" /\ frame[t].pc = "waiting"
             /\ tcb' = Enqueued(t) /\ ready' = WithTicket(t, tcb[t].gen) /\ Return(x)
    <2>1. /\ Caller(x)' /\ (cpu' = x \/ cpu' = None)
          /\ call' \in [Callers -> Seq(CallRecs)]
          /\ \A y \in Callers : y # x => call'[y] = call[y]
      BY <1>0, <1>2, CallerReturned
    <2>2. /\ \A s \in Tasks : Where(s)' /\ Ends(s)' /\ Link(s)' /\ Links(s)'
          /\ tcb'[t].state = "Queued"
          /\ \A s \in Tasks : s # t => tcb'[s].state = tcb[s].state
      BY <1>0, <1>2, <2>1, LeafQueued
    <2>3. \A s \in Tasks : Cold(s)'
      BY <1>n, <2>2 DEF Cold
    <2>4. TypesInv'
      BY <1>0, <1>2, <2>1, TicketType DEF TypesInv
    <2> QED BY <1>0, <2>1, <2>2, <2>3, <2>4, CallerKeeps
  <1>3. CASE tcb[t].state = "Suspended" /\ frame[t].pc # "waiting" /\ Top(x).waits = 0
    BY <1>0, <1>3, <1>t DEF Caller, Where, Terminal
  <1>4. CASE Return(x) /\ UNCHANGED <<tcb, ready>>
    <2>1. /\ Caller(x)' /\ (cpu' = x \/ cpu' = None)
          /\ call' \in [Callers -> Seq(CallRecs)]
          /\ \A y \in Callers : y # x => call'[y] = call[y]
      BY <1>0, <1>4, CallerReturned
    <2>2. \A s \in Tasks : Where(s)' /\ Ends(s)' /\ Link(s)' /\ Links(s)'
      BY <1>0, <1>4, <2>1, TasksStay
    <2>3. \A s \in Tasks : Cold(s)'
      BY <1>4, <1>n DEF Cold
    <2>4. TypesInv'
      BY <1>0, <1>4, <2>1, Names DEF TypesInv
    <2> QED BY <1>0, <2>1, <2>2, <2>3, <2>4, CallerKeeps
  <1> QED BY <1>1, <1>2, <1>3, <1>4, <1>t DEF CancelArbiter

\* A cold task is claimed by its canceller, unless it was started.
LEMMA ColdKeeps ==
    ASSUME OnExecutor, ChainInv, AwaitIInv', NEW x \in Callers, ColdCancel(x)
    PROVE  ChainInv'
  <1>t. PICK t : t = Top(x).task
    OBVIOUS
  <1>0. /\ TypesInv /\ cpu = x /\ cpu \notin Tasks /\ call[x] # <<>> /\ Top(x).phase = "cold"
        /\ t \in Tasks /\ AwaitIInv /\ tcb \in [Tasks -> TCBs] /\ None \notin Tasks
        /\ \A s \in Tasks : Where(s) /\ Ends(s) /\ Link(s) /\ Links(s) /\ Cold(s)
        /\ UNCHANGED <<promise, frame, pub, ready>>
    BY <1>t, CallerRuns, Names DEF ColdCancel, ChainInv, TypesInv, AwaitIInv
  <1>n. \A s \in Tasks : tcb[s].state # "ColdFinalizing"
    BY <1>0 DEF Cold
  <1>1. CASE tcb[t].state # "Created"
    <2>0. Return(x) /\ UNCHANGED tcb
      BY <1>1, <1>t DEF ColdCancel
    <2>1. /\ Caller(x)' /\ (cpu' = x \/ cpu' = None)
          /\ call' \in [Callers -> Seq(CallRecs)]
          /\ \A y \in Callers : y # x => call'[y] = call[y]
      BY <1>0, <2>0, CallerReturned
    <2>2. \A s \in Tasks : Where(s)' /\ Ends(s)' /\ Link(s)' /\ Links(s)'
      BY <1>0, <2>0, <2>1, TasksStay
    <2>3. \A s \in Tasks : Cold(s)'
      BY <1>n, <2>0 DEF Cold
    <2>4. TypesInv'
      BY <1>0, <2>0, <2>1, Names DEF TypesInv
    <2> QED BY <1>0, <2>1, <2>2, <2>3, <2>4, CallerKeeps
  <1>2. CASE tcb[t].state = "Created"
    <2>0. /\ tcb' = [tcb EXCEPT ![t].state = "ColdFinalizing"] /\ CallGoto(x, "finalize")
          /\ cpu' = cpu
      BY <1>2, <1>t DEF ColdCancel
    <2>p. /\ tcb'[t].state = "ColdFinalizing"
          /\ \A s \in Tasks : s # t => tcb'[s].state = tcb[s].state
          /\ \A s \in Tasks : /\ tcb'[s].gen = tcb[s].gen
                              /\ tcb'[s].active_child = tcb[s].active_child
                              /\ tcb'[s].parent_tcb = tcb[s].parent_tcb
      BY <1>0, <2>0 DEF TCBs
    <2>a. \A s \in Tasks : frame[s].pc \in InAwait => s # t /\ Child(s) \in Tasks
      <3>1. frame[t].pc = "body"
        BY <1>0, <1>2 DEF Where, Terminal
      <3> QED BY <1>0, <3>1, ChildOf DEF InAwait
    <2>2. \A s \in Tasks : Child(s)' = Child(s)
      BY <1>0 DEF Child
    <2>3. ASSUME NEW s \in Tasks PROVE Where(s)'
      BY <1>0, <1>2, <2>0, <2>p DEF Where, Terminal
    <2>e. pub[t].phase = "none" /\ promise[t].continuation \notin Tasks
      <3>1. frame[t].pc = "body"
        BY <1>0, <1>2 DEF Where, Terminal
      <3> QED BY <1>0, <1>2, <3>1 DEF Ends, Terminal
    <2>4. ASSUME NEW s \in Tasks PROVE Ends(s)'
      <3>1. CASE s = t
        BY <1>0, <1>2, <2>2, <2>e, <2>p, <3>1 DEF Ends, Terminal, Handover
      <3>2. CASE s # t
        BY <1>0, <2>2, <2>p, <3>2 DEF Ends
      <3> QED BY <3>1, <3>2
    <2>5. ASSUME NEW s \in Tasks PROVE Link(s)'
      <3>1. Child(s) = t => tcb'[Child(s)].state # "Created"
        BY <2>p
      <3> QED BY <1>0, <2>2, <2>a, <2>p, <3>1 DEF Link, InAwait, Linked, Cleared
    <2>6. ASSUME NEW s \in Tasks PROVE Links(s)'
      <3>1. ASSUME NEW p \in Tasks, frame[p].pc \in {"install", "suspended"}, Linked(p)
            PROVE  Linked(p)'
        BY <2>2, <2>a, <2>p, <3>1 DEF Linked, InAwait
      <3>2. tcb[s].parent_tcb \in Tasks \cup {None} /\ tcb'[s].parent_tcb = tcb[s].parent_tcb
            /\ tcb'[s].active_child = tcb[s].active_child
        BY <1>0, <2>p, Fields
      <3> QED BY <1>0, <2>2, <3>1, <3>2 DEF Links
    <2>7. /\ call' \in [Callers -> Seq(CallRecs)]
          /\ \A y \in Callers : y # x => call'[y] = call[y]
          /\ Len(call'[x]) = Len(call[x]) /\ call'[x] # <<>>
          /\ \A k \in 1 .. Len(call[x]) : k # Len(call[x]) => call'[x][k] = call[x][k]
          /\ Top(x)'.phase = "finalize" /\ Top(x)'.task = t
      BY <1>0, <1>t, <2>0, TopGoes, CallsTyped DEF CallPhases
    <2>8. Caller(x)'
      BY <1>0, <2>0, <2>7, <2>e, <2>p, CallerWritten
    <2>9. ASSUME NEW s \in Tasks PROVE Cold(s)'
      <3>1. tcb'[s].state = "ColdFinalizing" => s = t
        BY <1>n, <2>p
      <3> QED BY <1>0, <2>0, <2>7, <3>1 DEF Cold, Top
    <2>10. TypesInv'
      BY <1>0, <2>0, <2>7 DEF TypesInv
    <2> QED BY <1>0, <2>0, <2>3, <2>4, <2>5, <2>6, <2>7, <2>8, <2>9, <2>10, CallerKeeps
  <1> QED BY <1>1, <1>2

\* The canceller publishes the end of the cold task.
LEMMA ColdPublishKeeps ==
    ASSUME OnExecutor, ChainInv, AwaitIInv', NEW x \in Callers, ColdPublish(x)
    PROVE  ChainInv'
  <1>t. PICK t : t = Top(x).task
    OBVIOUS
  <1>0. /\ TypesInv /\ cpu = x /\ cpu \notin Tasks /\ call[x] # <<>> /\ Top(x).phase = "finalize"
        /\ t \in Tasks /\ AwaitIInv /\ promise \in [Tasks -> Promises] /\ pub \in [Tasks -> Pubs]
        /\ \A s \in Tasks : Where(s) /\ Ends(s) /\ Link(s) /\ Links(s) /\ Cold(s)
        /\ UNCHANGED <<tcb, frame, ready, cpu>> /\ Caller(x) /\ x # t
        /\ BeginPublish(t, x, "Canceled") /\ CallGoto(x, "publish")
    BY <1>t, CallerRuns, Names DEF ColdPublish, ChainInv, TypesInv
  <1>f. tcb[t].state = "ColdFinalizing" /\ pub[t].phase = "none" /\ frame[t].pc = "body"
        /\ promise[t].continuation \notin Tasks \cup {"Done"}
    <2>1. tcb[t].state = "ColdFinalizing" /\ pub[t].phase = "none"
      BY <1>0, <1>t DEF Caller
    <2> QED BY <1>0, <2>1 DEF Where, Terminal, Ends, Handover
  <1>p. /\ promise' \in [Tasks -> Promises] /\ pub' \in [Tasks -> Pubs]
        /\ promise'[t].result = "Canceled" /\ pub'[t].phase = "state" /\ pub'[t].by = x
        /\ \A s \in Tasks : promise'[s].continuation = promise[s].continuation
        /\ \A s \in Tasks : s # t => promise'[s] = promise[s] /\ pub'[s] = pub[s]
    <2>1. /\ promise' = [promise EXCEPT ![t].result = "Canceled"]
          /\ pub' = [pub EXCEPT ![t].phase = "state", ![t].by = x]
      BY <1>0 DEF BeginPublish
    <2>2. /\ promise' \in [Tasks -> Promises] /\ promise'[t].result = "Canceled"
          /\ \A s \in Tasks : promise'[s].continuation = promise[s].continuation
          /\ \A s \in Tasks : s # t => promise'[s] = promise[s]
      BY <1>0, <2>1 DEF Promises
    <2>3. [pub[t] EXCEPT !.phase = "state", !.by = x] \in Pubs
      BY <1>0 DEF Pubs, PubPhases
    <2>4. /\ pub' \in [Tasks -> Pubs] /\ pub'[t].phase = "state" /\ pub'[t].by = x
          /\ \A s \in Tasks : s # t => pub'[s] = pub[s]
      BY <1>0, <2>1, <2>3 DEF Pubs
    <2> QED BY <2>2, <2>4
  <1>2. \A s \in Tasks : Child(s)' = Child(s)
    BY <1>0 DEF Child
  <1>3. ASSUME NEW s \in Tasks PROVE Where(s)'
    BY <1>0 DEF Where
  <1>4. ASSUME NEW s \in Tasks PROVE Ends(s)'
    <2>1. CASE s = t
      BY <1>0, <1>2, <1>f, <1>p, <2>1 DEF Ends, Handover, Terminal
    <2>2. CASE s # t
      BY <1>0, <1>2, <1>p, <2>2 DEF Ends
    <2> QED BY <2>1, <2>2
  <1>5. ASSUME NEW s \in Tasks PROVE Link(s)'
    <2>1. frame[s].pc \in InAwait => Child(s) \in Tasks
      BY <1>0, ChildOf
    <2>2. frame[s].pc \notin {"prepare", "install", "post", "resume", "claim"}
      BY <1>0 DEF Where
    <2>3. ~(frame[s].pc = "suspended" /\ Child(s) = t)
      BY <1>0, <1>f DEF Link
    <2> QED BY <1>0, <1>2, <1>p, <2>1, <2>2, <2>3 DEF Link, InAwait, Linked, Cleared
  <1>6. ASSUME NEW s \in Tasks PROVE Links(s)'
    <2>1. ASSUME NEW p \in Tasks, frame[p].pc \in {"install", "suspended"}, Linked(p)
          PROVE  Linked(p)'
      <3>1. Child(p) \in Tasks
        BY <1>0, <2>1, ChildOf DEF InAwait
      <3> QED BY <1>0, <1>2, <2>1, <3>1 DEF Linked
    <2>2. tcb[s].parent_tcb \in Tasks \cup {None}
      BY <1>0, Fields
    <2> QED BY <1>0, <1>2, <2>1, <2>2 DEF Links
  <1>7. /\ call' \in [Callers -> Seq(CallRecs)]
        /\ \A y \in Callers : y # x => call'[y] = call[y]
        /\ Len(call'[x]) = Len(call[x]) /\ call'[x] # <<>>
        /\ \A k \in 1 .. Len(call[x]) : k # Len(call[x]) => call'[x][k] = call[x][k]
        /\ Top(x)'.phase = "publish" /\ Top(x)'.task = t
    BY <1>0, <1>t, TopGoes, CallsTyped DEF CallPhases
  <1>8. Caller(x)'
    BY <1>0, <1>7, CallerWritten
  <1>9. ASSUME NEW s \in Tasks PROVE Cold(s)'
    <2>1. tcb[s].state = "ColdFinalizing" => s = t
      BY <1>0, <1>t DEF Cold
    <2> QED BY <1>0, <1>7, <2>1 DEF Cold, Top
  <1>10. TypesInv'
    BY <1>0, <1>7, <1>p DEF TypesInv
  <1> QED BY <1>0, <1>3, <1>4, <1>5, <1>6, <1>7, <1>8, <1>9, <1>10, CallerKeeps

\* The cold cancellation returns when the end is published.
LEMMA ColdReturnKeeps ==
    ASSUME OnExecutor, ChainInv, AwaitIInv', NEW x \in Callers, ColdCancelReturns(x)
    PROVE  ChainInv'
  <1>0. /\ TypesInv /\ cpu = x /\ cpu \notin Tasks /\ call[x] # <<>>
        /\ Top(x).task \in Tasks /\ \A s \in Tasks : Ends(s) /\ Cold(s)
        /\ pub[Top(x).task].phase = "end" /\ Return(x)
        /\ UNCHANGED <<tcb, promise, frame, pub, ready>> /\ None \notin Tasks
    BY CallerRuns, Names DEF ColdCancelReturns, ChainInv
  <1>1. /\ Caller(x)' /\ (cpu' = x \/ cpu' = None)
        /\ call' \in [Callers -> Seq(CallRecs)]
        /\ \A y \in Callers : y # x => call'[y] = call[y]
    BY <1>0, CallerReturned
  <1>2. \A s \in Tasks : Where(s)' /\ Ends(s)' /\ Link(s)' /\ Links(s)'
    BY <1>0, <1>1, TasksStay
  <1>n. \A s \in Tasks : tcb[s].state # "ColdFinalizing"
    <2>1. tcb[Top(x).task].state \in Terminal
      BY <1>0 DEF Ends
    <2> QED BY <1>0, <2>1 DEF Cold, Terminal
  <1>3. \A s \in Tasks : Cold(s)'
    BY <1>0, <1>n DEF Cold
  <1>4. TypesInv'
    BY <1>0, <1>1, Names DEF TypesInv
  <1> QED BY <1>0, <1>1, <1>2, <1>3, <1>4, CallerKeeps

\* The suspension that belongs to no await is never met.
LEMMA NoLostSuspension ==
    ASSUME ChainInv, NEW x \in Callers
    PROVE  ~LoadGeneration(x) /\ ~ClaimSuspended(x)
  <1>1. ASSUME NEW phase \in {"load", "ticket"}, Calls(x, phase) PROVE FALSE
    <2>1. call[x] # <<>> /\ Top(x).phase = phase /\ Caller(x) /\ TypesInv
      BY <1>1 DEF Calls, ChainInv
    <2>2. Len(call[x]) \in 1 .. Len(call[x])
      BY <2>1, TopIsCall, CallsTyped
    <2> QED BY <1>1, <2>1, <2>2 DEF Caller, Top
  <1> QED BY <1>1 DEF LoadGeneration, ClaimSuspended

\* Every step of a caller.
LEMMA CancelStepKeeps ==
    ASSUME OnExecutor, ChainInv, AwaitIInv', NEW x \in Callers, CancelStep(x)
    PROVE  ChainInv'
  BY NoLostSuspension, FlagsKeeps, ClaimKeeps, SnapshotKeeps, ArbiterKeeps, ColdKeeps,
     ColdPublishKeeps, ColdReturnKeeps DEF CancelStep

-----------------------------------------------------------------------------
\* A continuation that is installed finds the word free.
LEMMA NoContinuationTaken ==
    ASSUME AwaitedOnce, ChainInv, NEW t \in Tasks
    PROVE  ~ContinuationTaken(t)
  <1>0. /\ TypesInv /\ AwaitIInv /\ Where(t) /\ Link(t) /\ \A s \in Tasks : Ends(s)
    BY DEF ChainInv, TypesInv
  <1>1. ASSUME Runs(t, "install"), promise[Child(t)].continuation # None PROVE FALSE
    <2>1. frame[t].pc = "install" /\ cpu = t
      BY <1>1 DEF Runs
    <2>2. Child(t) \in Tasks /\ pub[Child(t)].phase = "none"
      BY <1>0, <2>1, ChildOf DEF InAwait, Link
    <2>3. PICK a : a = promise[Child(t)].continuation
      OBVIOUS
    <2>4. a \in Tasks \cup {None, "Done"} /\ a # "Done"
      BY <1>0, <2>2, <2>3, Fields DEF Ends, Handover
    <2>5. a \in Tasks
      BY <1>1, <2>3, <2>4
    <2>6. frame[a].pc = "suspended" /\ Child(a) = Child(t)
      BY <1>0, <2>2, <2>3, <2>5 DEF Ends
    <2>7. a = t
      BY <1>0, <2>1, <2>5, <2>6, OneAwaiter DEF InAwait
    <2> QED BY <2>1, <2>6, <2>7
  <1> QED BY <1>1 DEF ContinuationTaken

\* Every step of a coroutine; the paths of an await whose child has ended before
\* the continuation is installed are not taken on the executor's thread.
LEMMA CoroutineStepKeeps ==
    ASSUME OnExecutor, AwaitedOnce, ChainInv, AwaitIInv', NEW t \in Tasks, CoroutineStep(t)
    PROVE  ChainInv'
  <1>0. /\ TypesInv /\ AwaitIInv /\ Where(t) /\ Link(t) /\ \A s \in Tasks : Ends(s)
        /\ tcb \in [Tasks -> TCBs] /\ frame \in [Tasks -> Frames]
    BY DEF ChainInv, TypesInv, AwaitIInv
  <1>2. ASSUME NEW p, Runs(t, p) PROVE p \notin {"unlink", "running"}
    BY <1>0, <1>2 DEF Runs, Where
  <1>3. ASSUME Runs(t, "body") \/ Runs(t, "entry") \/ Runs(t, "post") \/ Runs(t, "resume")
               \/ Runs(t, "claim") \/ Runs(t, "sample") \/ Runs(t, "canceled") \/ Runs(t, "ready")
        PROVE  cpu = t /\ tcb[t].state = "Running"
    BY <1>0, <1>3 DEF Runs, Where, Terminal
  <1>4. CASE AwaitEntry(t)
    <2>1. cpu = t /\ frame[t].pc = "entry" /\ UNCHANGED <<tcb, promise, pub, call, ready, cpu>>
      BY <1>4 DEF AwaitEntry, Runs
    <2>2. Child(t) \in Tasks /\ tcb[t].state = "Running"
      BY <1>0, <1>3, <1>4, <2>1, ChildOf DEF InAwait, AwaitEntry
    <2>3. PICK p : /\ p = IF EntryCancels(t) THEN "canceled"
                          ELSE IF promise[Child(t)].result = "ReadyLive" THEN "ready"
                          ELSE "prepare"
                   /\ Goto(t, p)
      BY <1>4 DEF AwaitEntry
    <2>4. /\ frame'[t].pc = p /\ frame'[t].next = frame[t].next
          /\ \A s \in Tasks : s # t => frame'[s] = frame[s]
      BY <1>0, <2>3 DEF Goto, Frames
    <2>5. promise[Child(t)].result \in {"Pending", "ReadyLive", "Canceled"}
      BY <1>0, <2>2 DEF TypesInv, Promises
    <2>6. p = "prepare" => pub[Child(t)].phase = "none"
      BY <1>0, <2>2, <2>3, <2>5 DEF EntryCancels, Ends
    <2>7. p \in {"canceled", "ready", "prepare"}
      BY <2>3
    <2> QED BY <2>1, <2>2, <2>4, <2>6, <2>7, MoveKeeps
  <1>5. CASE Resolve(t)
    <2>1. /\ cpu = t /\ frame[t].pc \in {"post", "resume"}
          /\ UNCHANGED <<promise, pub, call, ready, cpu>>
      BY <1>5 DEF Resolve, Runs
    <2>2. tcb[t].state = "Running"
      BY <1>3, <1>5 DEF Resolve
    <2>3. PICK p \in {"ready", "canceled", "claim", "sample"} : Goto(t, p)
      BY <1>0, <1>5, ResolutionWord DEF Resolve
    <2>4. /\ frame'[t].pc = p /\ frame'[t].next = frame[t].next
          /\ \A s \in Tasks : s # t => frame'[s] = frame[s]
      BY <1>0, <2>3 DEF Goto, Frames
    <2>5. \A s \in Tasks : /\ tcb'[s].state = tcb[s].state /\ tcb'[s].gen = tcb[s].gen
                           /\ tcb'[s].active_child = tcb[s].active_child
                           /\ tcb'[s].parent_tcb = tcb[s].parent_tcb
      BY <1>0, <1>5 DEF Resolve, TCBs
    <2> QED BY <2>1, <2>2, <2>3, <2>4, <2>5, MoveKeeps
  <1>c. CASE ClaimNormal(t)
    <2>1. cpu = t /\ frame[t].pc = "claim" /\ UNCHANGED <<promise, pub, call, ready, cpu>>
      BY <1>c DEF ClaimNormal, Runs
    <2>2. tcb[t].state = "Running"
      BY <1>3, <1>c DEF ClaimNormal
    <2>3. PICK p \in {"ready", "post"} : Goto(t, p)
      BY <1>c DEF ClaimNormal
    <2>4. /\ frame'[t].pc = p /\ frame'[t].next = frame[t].next
          /\ \A s \in Tasks : s # t => frame'[s] = frame[s]
      BY <1>0, <2>3 DEF Goto, Frames
    <2>5. \A s \in Tasks : /\ tcb'[s].state = tcb[s].state /\ tcb'[s].gen = tcb[s].gen
                           /\ tcb'[s].active_child = tcb[s].active_child
                           /\ tcb'[s].parent_tcb = tcb[s].parent_tcb
      BY <1>0, <1>c DEF ClaimNormal, TCBs
    <2> QED BY <2>1, <2>2, <2>3, <2>4, <2>5, MoveKeeps
  <1>6. CASE Sample(t)
    <2>1. cpu = t /\ frame[t].pc = "sample" /\ UNCHANGED <<tcb, promise, pub, call, ready, cpu>>
      BY <1>6 DEF Sample, Runs
    <2>2. tcb[t].state = "Running"
      BY <1>3, <1>6 DEF Sample
    <2>3. PICK p \in {"ready", "canceled"} : Goto(t, p)
      BY <1>6 DEF Sample
    <2>4. frame'[t].pc = p /\ \A s \in Tasks : s # t => frame'[s] = frame[s]
      BY <1>0, <2>3 DEF Goto, Frames
    <2> QED BY <2>1, <2>2, <2>3, <2>4, MoveKeeps
  <1>7. CASE AwaitCaught(t)
    <2>1. cpu = t /\ frame[t].pc = "canceled" /\ UNCHANGED <<promise, pub, call, ready, cpu>>
      BY <1>7 DEF AwaitCaught, Runs
    <2>2. tcb[t].state = "Running"
      BY <1>3, <1>7 DEF AwaitCaught
    <2>4. frame'[t].pc = "body" /\ \A s \in Tasks : s # t => frame'[s] = frame[s]
      BY <1>0, <1>7 DEF AwaitCaught, Frames
    <2>5. \A s \in Tasks : /\ tcb'[s].state = tcb[s].state /\ tcb'[s].gen = tcb[s].gen
                           /\ tcb'[s].active_child = tcb[s].active_child
                           /\ tcb'[s].parent_tcb = tcb[s].parent_tcb
      <3>1. PICK h : h = [Handled(t) EXCEPT !.resolution = "Idle"]
        OBVIOUS
      <3>2. h.state = tcb[t].state /\ h.gen = tcb[t].gen
            /\ h.active_child = tcb[t].active_child /\ h.parent_tcb = tcb[t].parent_tcb
        BY <1>0, <3>1 DEF Handled, TCBs
      <3> QED BY <1>0, <1>7, <3>1, <3>2 DEF AwaitCaught
    <2> QED BY <2>1, <2>2, <2>4, <2>5, MoveKeeps
  <1>8. CASE TakeResult(t)
    <2>1. cpu = t /\ frame[t].pc = "ready" /\ UNCHANGED <<promise, pub, call, ready, cpu>>
      BY <1>8 DEF TakeResult, Runs
    <2>2. tcb[t].state = "Running"
      BY <1>3, <1>8 DEF TakeResult
    <2>4. frame'[t].pc \in {"body", "trap"} /\ \A s \in Tasks : s # t => frame'[s] = frame[s]
      BY <1>0, <1>8 DEF TakeResult, Goto, Frames
    <2>5. \A s \in Tasks : /\ tcb'[s].state = tcb[s].state /\ tcb'[s].gen = tcb[s].gen
                           /\ tcb'[s].active_child = tcb[s].active_child
                           /\ tcb'[s].parent_tcb = tcb[s].parent_tcb
      BY <1>0, <1>8 DEF TakeResult, TCBs
    <2> QED BY <2>1, <2>2, <2>4, <2>5, MoveKeeps
  <1>9. CASE AwaitUnwinds(t)
    <2>1. cpu = t /\ frame[t].pc = "canceled" /\ UNCHANGED <<call, ready, cpu>>
          /\ BeginPublish(t, t, "Canceled") /\ Goto(t, "publish")
      BY <1>9 DEF AwaitUnwinds, Runs
    <2>2. tcb[t].state = "Running"
      BY <1>3, <1>9 DEF AwaitUnwinds
    <2>4. frame'[t].pc = "publish" /\ \A s \in Tasks : s # t => frame'[s] = frame[s]
      BY <1>0, <2>1 DEF Goto, Frames
    <2>5. \A s \in Tasks : /\ tcb'[s].state = tcb[s].state /\ tcb'[s].gen = tcb[s].gen
                           /\ tcb'[s].active_child = tcb[s].active_child
                           /\ tcb'[s].parent_tcb = tcb[s].parent_tcb
      BY <1>0, <1>9 DEF AwaitUnwinds, TCBs
    <2> QED BY <2>1, <2>2, <2>4, <2>5, EndKeeps
  <1>10. CASE DrainUnwinds(t) \/ Complete(t) \/ LeafUnwinds(t)
    <2>1. cpu = t /\ frame[t].pc \in {"ready", "body"} /\ UNCHANGED <<tcb, call, ready, cpu>>
          /\ Goto(t, "publish")
      BY <1>10 DEF DrainUnwinds, Complete, LeafUnwinds, Runs
    <2>2. tcb[t].state = "Running"
      BY <1>3, <1>10 DEF DrainUnwinds, Complete, LeafUnwinds
    <2>3. PICK result \in {"ReadyLive", "Canceled"} : BeginPublish(t, t, result)
      BY <1>10 DEF DrainUnwinds, Complete, LeafUnwinds
    <2>4. frame'[t].pc = "publish" /\ \A s \in Tasks : s # t => frame'[s] = frame[s]
      BY <1>0, <2>1 DEF Goto, Frames
    <2> QED BY <2>1, <2>2, <2>3, <2>4, EndKeeps
  <1>11. ~ContinuationTaken(t) /\ ~ClearAwaitLink(t) /\ ~StoreRunning(t)
    BY <1>2, NoContinuationTaken DEF ClearAwaitLink, StoreRunning
  <1> QED BY <1>4, <1>5, <1>c, <1>6, <1>7, <1>8, <1>9, <1>10, <1>11, StartKeeps, PrepareKeeps,
        InstallKeeps, LeaveKeeps DEF CoroutineStep

\* Initially no task has begun.
LEMMA ChainInit ==
    ASSUME Init PROVE ChainInv
  <1>1. AwaitIInv
    BY AwaitInit
  <1>2. \A s \in Tasks : /\ tcb[s].state = IF s \in Roots THEN "Queued" ELSE "Created"
                         /\ tcb[s].active_child = None /\ tcb[s].parent_tcb = None
                         /\ frame[s].pc = "body" /\ promise[s].result = "Pending"
                         /\ promise[s].continuation = None /\ pub[s].phase = "none"
    BY DEF Init
  <1>3. cpu = None /\ \A x \in Callers : call[x] = <<>> /\ Len(call[x]) = 0
    BY DEF Init
  <1>4. TypesInv
    <2>1. promise \in [Tasks -> Promises] /\ pub \in [Tasks -> Pubs]
      BY DEF Init, Promises, Pubs, PubPhases
    <2>2. call \in [Callers -> Seq(CallRecs)]
      BY DEF Init
    <2>3. ready \subseteq [task : Tasks, gen : Nat]
      BY AwaitAssumption DEF Init, AwaitAssumption
    <2> QED BY <1>1, <1>3, <2>1, <2>2, <2>3 DEF TypesInv
  <1>5. ASSUME NEW s \in Tasks PROVE Where(s) /\ Ends(s) /\ Link(s) /\ Links(s) /\ Cold(s)
    BY <1>2, <1>3, Names DEF Where, Ends, Link, Links, Cold, Terminal, Handover
  <1>6. ASSUME NEW x \in Callers PROVE Caller(x)
    BY <1>3, Names DEF Caller
  <1> QED BY <1>4, <1>5, <1>6 DEF ChainInv

\* Every step keeps the chain.
LEMMA ChainStep ==
    ASSUME OnExecutor, AwaitedOnce, ChainInv, [Next]_vars
    PROVE  ChainInv'
  <1>1. AwaitIInv'
    BY AwaitStep DEF ChainInv, TypesInv
  <1>2. CASE UNCHANGED vars
    <2>1. UNCHANGED <<tcb, promise, frame, pub, call, cpu>> /\ ready' = ready
      BY <1>2 DEF vars
    <2> QED BY <1>1, <2>1, StayKeeps DEF ChainInv, TypesInv
  <1>3. ASSUME NEW e \in ready, PopReady(e) PROVE ChainInv'
    BY <1>1, <1>3, ResumeKeeps
  <1>4. ASSUME NEW t \in Tasks, CoroutineStep(t) PROVE ChainInv'
    BY <1>1, <1>4, CoroutineStepKeeps
  <1>5. ASSUME NEW t \in Tasks, PublishStep(t) PROVE ChainInv'
    BY <1>1, <1>5, StateKeeps, HandoverKeeps, UnlinkKeeps, ScheduleKeeps DEF PublishStep
  <1>6. ASSUME NEW t \in Tasks, SourceWakes(t) PROVE ChainInv'
    BY <1>1, <1>6, SourceKeeps
  <1>7. ASSUME NEW x \in Callers, CancelStep(x) PROVE ChainInv'
    BY <1>1, <1>7, CancelStepKeeps
  <1>8. ASSUME NEW x \in Callers, NEW t \in Tasks, RequestCancel(x, t) PROVE ChainInv'
    BY <1>1, <1>8, RequestKeeps
  <1> QED BY <1>2, <1>3, <1>4, <1>5, <1>6, <1>7, <1>8 DEF Next, Step

\* On the executor's thread, whatever the tasks, the plan of awaits and the
\* callers: what a coroutine, the publisher of its end, the link to its awaiter
\* and the cancellers' call stacks say of each other (ChainInv).
THEOREM ChainHolds ==
    ASSUME OnExecutor, AwaitedOnce
    PROVE  Spec => []ChainInv
  <1>1. ChainInv /\ [Next]_vars => ChainInv'
    BY ChainStep
  <1>2. Init => ChainInv
    BY ChainInit
  <1> QED BY <1>1, <1>2, PTL DEF Spec

\* A suspended await is resumed by the end of its child and by nothing else: when
\* PopReady has resumed the parent, the child's publisher has stored the terminal
\* state, taken the continuation word and cleared the link in both directions.
THEOREM ResumedByChildOnlyHolds ==
    ASSUME OnExecutor, AwaitedOnce
    PROVE  Spec => []ResumedByChildOnly
  <1>1. ASSUME ChainInv PROVE ResumedByChildOnly
    <2> SUFFICES ASSUME NEW t \in Tasks, frame[t].pc = "resume"
                 PROVE  /\ tcb[Child(t)].state \in Terminal
                        /\ promise[Child(t)].continuation = "Done"
                        /\ tcb[t].active_child = None
                        /\ tcb[Child(t)].parent_tcb = None
      BY DEF ResumedByChildOnly
    <2>1. Child(t) \in Tasks /\ Link(t)
      BY <1>1, ChildOf DEF ChainInv, TypesInv, InAwait
    <2>2. Ends(Child(t))
      BY <1>1, <2>1 DEF ChainInv
    <2> QED BY <2>1, <2>2 DEF Link, Cleared, Ends
  <1> QED BY <1>1, ChainHolds, PTL

-----------------------------------------------------------------------------
(* What one step does to one task: a coroutine moves when it has the       *)
(* executor or gets it, and nothing else moves it.                         *)

\* The coroutine of t moves on.
Moves(t) ==
    LET from == frame[t].pc
        to == frame'[t].pc
    IN  /\ cpu = t /\ CoroutineStep(t)
        /\ \/ /\ frame'[t].next = frame[t].next
              /\ \/ from = "body" /\ to = "entry" /\ Awaits(t)
                 \/ from = "body" /\ to = "publish"
                 \/ from = "entry" /\ to \in {"prepare", "canceled", "ready"}
                 \/ from = "prepare" /\ to = "install"
                 \/ from = "install" /\ to = "suspended"
                 \/ from \in {"post", "resume"} /\ to \in {"ready", "canceled", "claim", "sample"}
                 \/ from = "claim" /\ to \in {"ready", "post"}
                 \/ from = "sample" /\ to \in {"ready", "canceled"}
                 \/ from \in {"canceled", "ready"} /\ to = "publish"
                 \/ from = "ready" /\ to = "trap"
                 \/ from = "publish" /\ to = "done"
           \/ /\ from \in {"canceled", "ready"} /\ to = "body"
              /\ frame'[t].next = frame[t].next + 1
           \/ from = "body" /\ to = "waiting" /\ IsLeaf(t)

\* The executor resumes t.
Resumes(t) ==
    /\ cpu = None /\ cpu' = t
    /\ tcb[t].state = "Queued" /\ tcb'[t].state = "Running"
    /\ frame'[t].next = frame[t].next
    /\ \/ frame[t].pc \in {"body", "waiting"} /\ frame'[t].pc = "body"
       \/ frame[t].pc = "suspended" /\ frame'[t].pc = "resume"

\* The coroutine of t stays where it is; others may write the state of its task.
Stays(t) ==
    LET from == tcb[t].state
        to == tcb'[t].state
    IN  /\ frame'[t] = frame[t]
        /\ \/ from = to
           \/ from = "Suspended" /\ to = "Queued"
           \/ /\ from = "Created" /\ to = "Queued"
              /\ \E p \in Tasks : /\ cpu = p /\ frame[p].pc = "body" /\ Awaits(p)
                                  /\ Child(p) = t /\ frame'[p].pc = "entry"
           \/ /\ from = "Created" /\ to = "ColdFinalizing"
              /\ cpu \in Callers /\ call[cpu] # <<>> /\ Top(cpu).task = t
           \/ cpu = t /\ to \in Terminal
           \/ from = "ColdFinalizing" /\ to \in Terminal

\* A coroutine's step, seen from its own task.
LEMMA OwnMoves ==
    ASSUME OnExecutor, AwaitedOnce, ChainInv, NEW t \in Tasks, CoroutineStep(t)
    PROVE  Moves(t) /\ \A s \in Tasks : s # t => frame'[s] = frame[s]
  <1>0. /\ Where(t) /\ frame \in [Tasks -> Frames] /\ tcb \in [Tasks -> TCBs] /\ cpu = t
    BY DEF ChainInv, TypesInv, AwaitIInv, CoroutineStep, AwaitStart, AwaitEntry, AwaitPrepare,
       InstallContinuation, ContinuationTaken, ClearAwaitLink, StoreRunning, Resolve, ClaimNormal,
       Sample, AwaitCaught, AwaitUnwinds, DrainUnwinds, TakeResult, LeafSleep,
       Complete, LeafUnwinds, CoroutineEnds, Runs
  <1>1. ASSUME NEW p, Goto(t, p)
        PROVE  /\ frame'[t].pc = p /\ frame'[t].next = frame[t].next
               /\ \A s \in Tasks : s # t => frame'[s] = frame[s]
    BY <1>0, <1>1 DEF Goto, Frames
  <1>2. frame[t].pc \notin {"unlink", "running"}
    BY <1>0 DEF Where
  <1>3. ASSUME frame' = [frame EXCEPT ![t].pc = "body", ![t].next = @ + 1]
        PROVE  /\ frame'[t].pc = "body" /\ frame'[t].next = frame[t].next + 1
               /\ \A s \in Tasks : s # t => frame'[s] = frame[s]
    BY <1>0, <1>3 DEF Frames
  <1>4. CASE AwaitStart(t) \/ Complete(t) \/ LeafUnwinds(t) \/ AwaitPrepare(t)
             \/ InstallContinuation(t) \/ AwaitUnwinds(t) \/ DrainUnwinds(t) \/ CoroutineEnds(t)
    BY <1>0, <1>1, <1>4 DEF AwaitStart, Complete, LeafUnwinds, AwaitPrepare,
       InstallContinuation, AwaitUnwinds, DrainUnwinds, CoroutineEnds, Runs, Moves
  <1>5. CASE AwaitEntry(t)
    <2>1. PICK p \in {"prepare", "canceled", "ready"} : Goto(t, p)
      BY <1>5 DEF AwaitEntry
    <2> QED BY <1>0, <1>1, <1>5, <2>1 DEF AwaitEntry, Runs, Moves
  <1>6. CASE Resolve(t)
    <2>1. PICK p \in {"ready", "canceled", "claim", "sample"} : Goto(t, p)
      BY <1>0, <1>6, ResolutionWord DEF Resolve
    <2>2. frame[t].pc \in {"post", "resume"}
      BY <1>6 DEF Resolve, Runs
    <2> QED BY <1>0, <1>1, <2>1, <2>2 DEF Moves
  <1>c. CASE ClaimNormal(t)
    <2>1. PICK p \in {"ready", "post"} : Goto(t, p)
      BY <1>c DEF ClaimNormal
    <2> QED BY <1>0, <1>1, <1>c, <2>1 DEF ClaimNormal, Runs, Moves
  <1>7. CASE Sample(t)
    <2>1. PICK p \in {"ready", "canceled"} : Goto(t, p)
      BY <1>7 DEF Sample
    <2> QED BY <1>0, <1>1, <1>7, <2>1 DEF Sample, Runs, Moves
  <1>8. CASE AwaitCaught(t)
    BY <1>0, <1>3, <1>8 DEF AwaitCaught, Runs, Moves
  <1>9. CASE TakeResult(t)
    <2>1. CASE HasResult(Child(t))
      BY <1>0, <1>3, <1>9, <2>1 DEF TakeResult, Runs, Moves
    <2>2. CASE ~HasResult(Child(t))
      BY <1>0, <1>1, <1>9, <2>2 DEF TakeResult, Runs, Moves
    <2> QED BY <2>1, <2>2
  <1>10. CASE LeafSleep(t)
    <2>1. frame'[t].pc = "waiting" /\ \A s \in Tasks : s # t => frame'[s] = frame[s]
      BY <1>0, <1>10 DEF LeafSleep, Frames
    <2> QED BY <1>0, <1>10, <2>1 DEF LeafSleep, Runs, Moves
  <1>11. ~ContinuationTaken(t) /\ ~ClearAwaitLink(t) /\ ~StoreRunning(t)
    <2>1. ~ContinuationTaken(t)
      BY NoContinuationTaken
    <2> QED BY <1>2, <2>1 DEF ClearAwaitLink, StoreRunning, Runs
  <1> QED BY <1>4, <1>5, <1>6, <1>c, <1>7, <1>8, <1>9, <1>10, <1>11 DEF CoroutineStep

\* Every step, seen from any task.
LEMMA StepMoves ==
    ASSUME OnExecutor, AwaitedOnce, ChainInv, [Next]_vars, NEW s \in Tasks
    PROVE  Moves(s) \/ Resumes(s) \/ Stays(s)
  <1>0. /\ TypesInv /\ AwaitIInv /\ tcb \in [Tasks -> TCBs] /\ frame \in [Tasks -> Frames]
        /\ \A t \in Tasks : Where(t) /\ Ends(t)
    BY DEF ChainInv, TypesInv, AwaitIInv
  <1>1. CASE UNCHANGED vars
    BY <1>1 DEF vars, Stays
  <1>2. ASSUME NEW e \in ready, PopReady(e) PROVE Resumes(s) \/ Stays(s)
    <2>t. PICK t : t = e.task
      OBVIOUS
    <2>0. t \in Tasks
      BY <1>0, <2>t DEF TypesInv
    <2>1. CASE ~Claimable(e)
      BY <1>2, <2>1 DEF PopReady, Stays
    <2>2. CASE Claimable(e)
      <3>p. /\ cpu = None /\ cpu' = t /\ tcb[t].state = "Queued" /\ tcb'[t].state = "Running"
            /\ \A r \in Tasks : r # t => frame'[r] = frame[r] /\ tcb'[r] = tcb[r]
            /\ frame'[t].next = frame[t].next /\ frame'[t].pc = Resumed(frame[t].pc)
        BY <1>0, <1>2, <2>0, <2>2, <2>t DEF PopReady, Claimable, TCBs, Frames
      <3>1. CASE s = t
        <4>1. frame[t].pc \in {"body", "suspended", "waiting"}
          BY <1>0, <2>0, <3>p DEF Where, Terminal
        <4> QED BY <3>1, <3>p, <4>1 DEF Resumes, Resumed
      <3>2. CASE s # t
        BY <3>2, <3>p DEF Stays
      <3> QED BY <3>1, <3>2
    <2> QED BY <2>1, <2>2
  <1>3. ASSUME NEW t \in Tasks, CoroutineStep(t) PROVE Moves(s) \/ Stays(s)
    <2>1. Moves(t) /\ \A r \in Tasks : r # t => frame'[r] = frame[r]
      BY <1>3, OwnMoves
    <2>2. CASE s = t
      BY <2>1, <2>2
    <2>3. CASE s # t
      <3>1. CASE AwaitStart(t)
        <4>0. cpu = t /\ frame[t].pc = "body" /\ Awaits(t) /\ Goto(t, "entry")
          BY <3>1 DEF AwaitStart, Runs
        <4>1. frame'[t].pc = "entry"
          BY <1>0, <4>0 DEF Goto, Frames
        <4>2. CASE tcb[Child(t)].state = "Created" /\ s = Child(t)
          <5>1. tcb'[s].state = "Queued"
            BY <1>0, <3>1, <4>2 DEF AwaitStart, TCBs
          <5> QED BY <2>1, <2>3, <4>0, <4>1, <4>2, <5>1 DEF Stays
        <4>3. CASE ~(tcb[Child(t)].state = "Created" /\ s = Child(t))
          <5>1. tcb'[s].state = tcb[s].state
            BY <1>0, <3>1, <4>3 DEF AwaitStart, TCBs
          <5> QED BY <2>1, <2>3, <5>1 DEF Stays
        <4> QED BY <4>2, <4>3
      <3>2. CASE AwaitPrepare(t)
        <4>1. tcb'[s].state = tcb[s].state
          BY <1>0, <2>3, <3>2 DEF AwaitPrepare, TCBs
        <4> QED BY <2>1, <2>3, <4>1 DEF Stays
      <3>3. CASE ~AwaitStart(t) /\ ~AwaitPrepare(t)
        <4>1. ~ContinuationTaken(t) /\ ~ClearAwaitLink(t) /\ ~StoreRunning(t)
          <5>1. ~ContinuationTaken(t)
            BY NoContinuationTaken
          <5> QED BY <1>0, <5>1 DEF ClearAwaitLink, StoreRunning, Runs, Where
        <4>2. tcb'[s].state = tcb[s].state
          BY <1>0, <1>3, <2>3, <3>3, <4>1 DEF CoroutineStep, AwaitEntry, InstallContinuation,
             Resolve, ClaimNormal, Sample, AwaitCaught, AwaitUnwinds, DrainUnwinds, TakeResult, LeafSleep,
             Complete, LeafUnwinds, CoroutineEnds, TCBs
        <4> QED BY <2>1, <2>3, <4>2 DEF Stays
      <3> QED BY <3>1, <3>2, <3>3
    <2> QED BY <2>2, <2>3
  <1>4. ASSUME NEW t \in Tasks, PublishStep(t) PROVE Stays(s)
    <2>0. frame'[s] = frame[s]
      BY <1>4 DEF PublishStep, PublishState, ExchangeContinuation, NoteChildTerminal,
         PublisherUnlinks, LoadAwaiterGeneration, ScheduleAwaiter
    <2>1. CASE PublishState(t)
      <3>1. CASE s # t
        <4>1. tcb'[s].state = tcb[s].state
          BY <1>0, <2>1, <3>1 DEF PublishState, TCBs
        <4> QED BY <2>0, <4>1 DEF Stays
      <3>2. CASE s = t
        <4>1. tcb'[t].state \in Terminal
          BY <1>0, <2>1 DEF PublishState, TCBs, Terminal
        <4>2. /\ pub[t].phase = "state"
              /\ cpu = t \/ tcb[t].state \in Terminal \cup {"ColdFinalizing"}
          BY <2>1, PublisherRuns DEF PublishState, PubPhases
        <4>3. cpu = t \/ tcb[t].state = "ColdFinalizing"
          BY <1>0, <4>2 DEF Ends
        <4> QED BY <2>0, <3>2, <4>1, <4>3 DEF Stays
      <3> QED BY <3>1, <3>2
    <2>2. CASE ScheduleAwaiter(t)
      <3>1. CASE CanClaim(pub[t].awaiter, pub[t].gen)
        <4>1. tcb' = [tcb EXCEPT ![pub[t].awaiter].state = "Queued"]
              /\ tcb[pub[t].awaiter].state = "Suspended"
          BY <2>2, <3>1 DEF ScheduleAwaiter, Enqueued, CanClaim
        <4>2. CASE s = pub[t].awaiter
          BY <1>0, <2>0, <4>1, <4>2 DEF Stays, TCBs
        <4>3. CASE s # pub[t].awaiter
          BY <1>0, <2>0, <4>1, <4>3 DEF Stays
        <4> QED BY <4>2, <4>3
      <3>2. CASE ~CanClaim(pub[t].awaiter, pub[t].gen)
        BY <2>0, <2>2, <3>2 DEF ScheduleAwaiter, Stays
      <3> QED BY <3>1, <3>2
    <2>3. CASE ~PublishState(t) /\ ~ScheduleAwaiter(t)
      <3>1. tcb'[s].state = tcb[s].state
        BY <1>0, <1>4, <2>3 DEF PublishStep, ExchangeContinuation, NoteChildTerminal,
           PublisherUnlinks, LoadAwaiterGeneration, Unlinked, TCBs
      <3> QED BY <2>0, <3>1 DEF Stays
    <2> QED BY <2>1, <2>2, <2>3
  <1>5. ASSUME NEW t \in Tasks, SourceWakes(t) PROVE Stays(s)
    <2>1. frame' = frame /\ tcb' = [tcb EXCEPT ![t].state = "Queued"] /\ tcb[t].state = "Suspended"
      BY <1>5 DEF SourceWakes, Enqueued
    <2>2. CASE s = t
      BY <1>0, <2>1, <2>2 DEF Stays, TCBs
    <2>3. CASE s # t
      BY <1>0, <2>1, <2>3 DEF Stays
    <2> QED BY <2>2, <2>3
  <1>6. ASSUME NEW x \in Callers, CancelStep(x) PROVE Stays(s)
    <2>t. PICK t : t = Top(x).task
      OBVIOUS
    <2>1. frame' = frame
      BY <1>6 DEF CancelStep, StoreCancelFlags, ClaimAwait, SnapshotChild, CancelArbiter,
         ColdCancel, ColdPublish, ColdCancelReturns, LoadGeneration, ClaimSuspended
    <2>2. CASE CancelArbiter(x)
      <3>1. \/ tcb' = tcb
            \/ tcb[t].state = "Suspended" /\ tcb' = [tcb EXCEPT ![t].state = "Queued"]
        BY <2>2, <2>t DEF CancelArbiter, Enqueued
      <3>2. \/ tcb'[s].state = tcb[s].state
            \/ tcb[s].state = "Suspended" /\ tcb'[s].state = "Queued"
        <4>1. CASE s = t
          BY <1>0, <3>1, <4>1 DEF TCBs
        <4>2. CASE s # t
          BY <1>0, <3>1, <4>2 DEF TCBs
        <4> QED BY <4>1, <4>2
      <3> QED BY <2>1, <3>2 DEF Stays
    <2>3. CASE ColdCancel(x)
      <3>0. cpu = x /\ call[x] # <<>>
        BY <2>3, CallerRuns DEF ColdCancel
      <3>1. \/ tcb' = tcb
            \/ tcb[t].state = "Created" /\ tcb' = [tcb EXCEPT ![t].state = "ColdFinalizing"]
        BY <2>3, <2>t DEF ColdCancel
      <3>2. \/ tcb'[s].state = tcb[s].state
            \/ s = t /\ tcb[s].state = "Created" /\ tcb'[s].state = "ColdFinalizing"
        BY <1>0, <3>1 DEF TCBs
      <3> QED BY <2>1, <2>t, <3>0, <3>2 DEF Stays
    <2>4. CASE LoadGeneration(x) \/ ClaimSuspended(x)
      BY <2>4, NoLostSuspension
    <2>5. CASE ~CancelArbiter(x) /\ ~ColdCancel(x) /\ ~LoadGeneration(x) /\ ~ClaimSuspended(x)
      <3>0. \/ tcb' = tcb
            \/ tcb' = [tcb EXCEPT ![t].cancel_requested = 1, ![t].cancel_handled = 0]
            \/ tcb' = [tcb EXCEPT ![t].resolution = "CancelClaimed"]
        BY <1>6, <2>5, <2>t DEF CancelStep, StoreCancelFlags, ClaimAwait, SnapshotChild,
           ColdPublish, ColdCancelReturns
      <3>1. tcb'[s].state = tcb[s].state
        BY <1>0, <3>0 DEF TCBs
      <3> QED BY <2>1, <3>1 DEF Stays
    <2> QED BY <2>2, <2>3, <2>4, <2>5
  <1>7. ASSUME NEW x \in Callers, NEW t \in Tasks, RequestCancel(x, t) PROVE Stays(s)
    BY <1>7 DEF RequestCancel, Stays
  <1> QED BY <1>1, <1>2, <1>3, <1>4, <1>5, <1>6, <1>7 DEF Next, Step

\* The link of t to its awaiter: made by the awaiter's prepare, cleared by the end of t.
Reparented(t) ==
    \/ tcb'[t].parent_tcb = tcb[t].parent_tcb
    \/ \E p \in Tasks : cpu = p /\ frame[p].pc = "prepare" /\ Child(p) = t
    \/ cpu = t /\ frame[t].pc = "publish"

\* The cancellation flags of t: cleared by its own `.await?`, set by a canceller.
Flagged(t) ==
    \/ /\ tcb'[t].cancel_requested = tcb[t].cancel_requested
       /\ tcb'[t].cancel_handled = tcb[t].cancel_handled
    \/ AwaitCaught(t) /\ tcb'[t].cancel_requested \in {0, tcb[t].cancel_requested}
    \/ /\ cpu \in Callers /\ call[cpu] # <<>> /\ StoreCancelFlags(cpu)
       /\ Top(cpu).task = t /\ Top(cpu).phase = "flags"
       /\ tcb'[t].cancel_requested = 1 /\ tcb'[t].cancel_handled = 0

\* What a step writes of these.
LEMMA StepWrites ==
    ASSUME OnExecutor, AwaitedOnce, ChainInv, [Next]_vars, NEW s \in Tasks
    PROVE  Reparented(s) /\ Flagged(s)
  <1>0. /\ TypesInv /\ AwaitIInv /\ tcb \in [Tasks -> TCBs]
        /\ \A t \in Tasks : Where(t) /\ Ends(t)
    BY DEF ChainInv, TypesInv, AwaitIInv
  <1>s. ASSUME /\ tcb'[s].parent_tcb = tcb[s].parent_tcb
               /\ tcb'[s].cancel_requested = tcb[s].cancel_requested
               /\ tcb'[s].cancel_handled = tcb[s].cancel_handled
        PROVE  Reparented(s) /\ Flagged(s)
    BY <1>s DEF Reparented, Flagged
  <1>1. CASE UNCHANGED vars
    BY <1>1, <1>s DEF vars
  <1>2. ASSUME NEW e \in ready, PopReady(e) PROVE Reparented(s) /\ Flagged(s)
    <2>1. \/ tcb' = tcb
          \/ tcb' = [tcb EXCEPT ![e.task].state = "Running"]
      BY <1>2 DEF PopReady
    <2> QED BY <1>0, <1>s, <2>1 DEF TCBs
  <1>3. ASSUME NEW t \in Tasks, CoroutineStep(t) PROVE Reparented(s) /\ Flagged(s)
    <2>1. CASE AwaitStart(t)
      <3>1. \/ tcb' = tcb
            \/ tcb' = [tcb EXCEPT ![Child(t)].state = "Queued", ![Child(t)].gen = 1]
        BY <2>1 DEF AwaitStart
      <3> QED BY <1>0, <1>s, <3>1 DEF TCBs
    <2>2. CASE AwaitPrepare(t)
      <3>0. cpu = t /\ frame[t].pc = "prepare"
            /\ tcb' = [tcb EXCEPT ![t].gen = @ + 1,
                                  ![t].state = "Suspended",
                                  ![t].resolution = "Armed",
                                  ![t].active_child = Child(t),
                                  ![Child(t)].parent_tcb = t]
        BY <2>2 DEF AwaitPrepare, Runs
      <3>1. /\ tcb'[s].cancel_requested = tcb[s].cancel_requested
            /\ tcb'[s].cancel_handled = tcb[s].cancel_handled
            /\ s # Child(t) => tcb'[s].parent_tcb = tcb[s].parent_tcb
        BY <1>0, <3>0 DEF TCBs
      <3> QED BY <3>0, <3>1 DEF Reparented, Flagged
    <2>3. CASE AwaitCaught(t)
      <3>h. PICK h : h = [Handled(t) EXCEPT !.resolution = "Idle"]
        OBVIOUS
      <3>1. h.parent_tcb = tcb[t].parent_tcb /\ h.cancel_requested \in {0, tcb[t].cancel_requested}
        BY <1>0, <3>h DEF Handled, TCBs
      <3>2. tcb' = [tcb EXCEPT ![t] = h]
        BY <2>3, <3>h DEF AwaitCaught
      <3>3. CASE s = t
        <4>1. tcb'[s] = h
          BY <1>0, <3>2, <3>3
        <4> QED BY <2>3, <3>1, <3>3, <4>1 DEF Reparented, Flagged
      <3>4. CASE s # t
        BY <1>0, <1>s, <3>2, <3>4
      <3> QED BY <3>3, <3>4
    <2>4. CASE ~AwaitStart(t) /\ ~AwaitPrepare(t) /\ ~AwaitCaught(t)
      <3>1. ~ContinuationTaken(t) /\ ~ClearAwaitLink(t) /\ ~StoreRunning(t)
        <4>1. ~ContinuationTaken(t)
          BY NoContinuationTaken
        <4> QED BY <1>0, <4>1 DEF ClearAwaitLink, StoreRunning, Runs, Where
      <3>2. \/ tcb' = tcb
            \/ tcb' = [tcb EXCEPT ![t].resolution = Resolution(t)]
            \/ tcb' = [tcb EXCEPT ![t].resolution = "Idle"]
            \/ tcb' = [tcb EXCEPT ![t].resolution = "NormalClaimed"]
            \/ tcb' = [tcb EXCEPT ![t].state = "Suspended", ![t].gen = @ + 1]
        BY <1>3, <2>4, <3>1 DEF CoroutineStep, AwaitEntry, InstallContinuation,
           Resolve, ClaimNormal, Sample, AwaitUnwinds, DrainUnwinds, TakeResult, LeafSleep,
           Complete, LeafUnwinds, CoroutineEnds
      <3> QED BY <1>0, <1>s, <3>2 DEF TCBs
    <2> QED BY <2>1, <2>2, <2>3, <2>4
  <1>4. ASSUME NEW t \in Tasks, PublishStep(t) PROVE Reparented(s) /\ Flagged(s)
    <2>1. CASE PublisherUnlinks(t)
      <3>1. tcb' = Unlinked(t, pub[t].awaiter)
        BY <2>1 DEF PublisherUnlinks
      <3>2. /\ tcb'[s].cancel_requested = tcb[s].cancel_requested
            /\ tcb'[s].cancel_handled = tcb[s].cancel_handled
            /\ s # t => tcb'[s].parent_tcb = tcb[s].parent_tcb
        BY <1>0, <3>1 DEF Unlinked, TCBs
      <3>3. pub[t].phase = "unlink" /\ cpu = pub[t].by
        BY <2>1, PublisherRuns DEF PublisherUnlinks, PubPhases
      <3>4. cpu = t /\ frame[t].pc = "publish"
        BY <1>0, <3>3 DEF Ends, Handover
      <3> QED BY <3>2, <3>4 DEF Reparented, Flagged
    <2>2. CASE ~PublisherUnlinks(t)
      <3>1. PICK word, end :
            \/ tcb' = tcb
            \/ tcb' = [tcb EXCEPT ![t].active_child = None, ![t].state = end]
            \/ tcb' = [tcb EXCEPT ![pub[t].awaiter].resolution = word]
            \/ tcb' = [tcb EXCEPT ![pub[t].awaiter].state = "Queued"]
        <4>1. CASE PublishState(t)
          BY <4>1 DEF PublishState
        <4>2. CASE NoteChildTerminal(t)
          <5>1. tcb' = [tcb EXCEPT ![pub[t].awaiter].resolution =
                          NotedWord(tcb[pub[t].awaiter].resolution, promise[t].result)]
            BY <4>2 DEF NoteChildTerminal
          <5> QED BY <5>1
        <4>3. CASE ScheduleAwaiter(t)
          BY <4>3 DEF ScheduleAwaiter, Enqueued
        <4>4. CASE ExchangeContinuation(t) \/ LoadAwaiterGeneration(t)
          BY <4>4 DEF ExchangeContinuation, LoadAwaiterGeneration
        <4> QED BY <1>4, <2>2, <4>1, <4>2, <4>3, <4>4 DEF PublishStep
      <3> QED BY <1>0, <1>s, <3>1 DEF TCBs
    <2> QED BY <2>1, <2>2
  <1>5. ASSUME NEW t \in Tasks, SourceWakes(t) PROVE Reparented(s) /\ Flagged(s)
    <2>1. tcb' = [tcb EXCEPT ![t].state = "Queued"]
      BY <1>5 DEF SourceWakes, Enqueued
    <2> QED BY <1>0, <1>s, <2>1 DEF TCBs
  <1>6. ASSUME NEW x \in Callers, CancelStep(x) PROVE Reparented(s) /\ Flagged(s)
    <2>t. PICK t : t = Top(x).task
      OBVIOUS
    <2>1. CASE StoreCancelFlags(x)
      <3>0. cpu = x /\ call[x] # <<>> /\ Top(x).phase = "flags"
        BY <2>1, CallerRuns DEF StoreCancelFlags
      <3>1. tcb' = [tcb EXCEPT ![t].cancel_requested = 1, ![t].cancel_handled = 0]
        BY <2>1, <2>t DEF StoreCancelFlags
      <3>2. CASE s # t
        BY <1>0, <1>s, <3>1, <3>2
      <3>3. CASE s = t
        <4>1. /\ tcb'[s].cancel_requested = 1 /\ tcb'[s].cancel_handled = 0
              /\ tcb'[s].parent_tcb = tcb[s].parent_tcb
          BY <1>0, <3>1, <3>3 DEF TCBs
        <4> QED BY <2>1, <2>t, <3>0, <3>3, <4>1 DEF Reparented, Flagged
      <3> QED BY <3>2, <3>3
    <2>2. CASE ~StoreCancelFlags(x)
      <3>1. ~LoadGeneration(x) /\ ~ClaimSuspended(x)
        BY NoLostSuspension
      <3>2. \/ tcb' = tcb
            \/ tcb' = [tcb EXCEPT ![t].resolution = "CancelClaimed"]
            \/ tcb' = [tcb EXCEPT ![t].state = "Queued"]
            \/ tcb' = [tcb EXCEPT ![t].state = "ColdFinalizing"]
        BY <1>6, <2>2, <2>t, <3>1 DEF CancelStep, ClaimAwait, SnapshotChild, CancelArbiter,
           ColdCancel, ColdPublish, ColdCancelReturns, Enqueued
      <3> QED BY <1>0, <1>s, <3>2 DEF TCBs
    <2> QED BY <2>1, <2>2
  <1>7. ASSUME NEW x \in Callers, NEW t \in Tasks, RequestCancel(x, t)
        PROVE  Reparented(s) /\ Flagged(s)
    BY <1>7, <1>s DEF RequestCancel
  <1> QED BY <1>1, <1>2, <1>3, <1>4, <1>5, <1>6, <1>7 DEF Next, Step

-----------------------------------------------------------------------------
(* A task that is to be awaited has not begun.                             *)

\* The awaits of t to come, and the one it has begun and not suspended for.
Ahead(t, i) == i > frame[t].next \/ (i = frame[t].next /\ frame[t].pc = "body")
Starting(t, i) == i = frame[t].next /\ frame[t].pc \in {"entry", "prepare", "install"}

\* The children of these have not run: the first is started by t alone, and the
\* other is queued behind t.
Fresh(t) ==
    /\ frame[t].pc = "waiting" => IsLeaf(t)
    /\ \A i \in DOMAIN Plan[t] : LET c == Plan[t][i].child IN
         /\ Ahead(t, i) => /\ frame[c].pc = "body"
                           /\ tcb[c].state \in {"Created", "ColdFinalizing"} \cup Terminal
         /\ Starting(t, i) => frame[c].pc = "body"

\* The awaits of a plan.
LEMMA PlanFacts ==
    ASSUME NEW t \in Tasks
    PROVE  /\ DOMAIN Plan[t] = 1..Len(Plan[t]) /\ Len(Plan[t]) \in Nat
           /\ \A i \in DOMAIN Plan[t] : Plan[t][i].child \in Tasks /\ Plan[t][i].child \notin Roots
                                        /\ Plan[t][i].kind \in {"plain", "catch", "barrier"}
  <1> DEFINE Awaited == [child : Tasks \ Roots, kind : {"plain", "catch", "barrier"}]
  <1>1. Plan[t] \in Seq(Awaited)
    BY AwaitAssumption DEF AwaitAssumption
  <1> HIDE DEF Awaited
  <1>2. DOMAIN Plan[t] = 1..Len(Plan[t]) /\ Len(Plan[t]) \in Nat
        /\ \A i \in DOMAIN Plan[t] : Plan[t][i] \in Awaited
    BY <1>1
  <1> QED BY <1>2 DEF Awaited

\* No coroutine runs before the await that starts it.
LEMMA FreshStep ==
    ASSUME OnExecutor, AwaitedOnce, ChainInv, \A t \in Tasks : Fresh(t), [Next]_vars,
           NEW t \in Tasks
    PROVE  Fresh(t)'
  <1>0. /\ TypesInv /\ AwaitIInv /\ \A s \in Tasks : Where(s) /\ Fresh(s)
    BY DEF ChainInv, TypesInv, AwaitIInv
  <1>t. Moves(t) \/ Resumes(t) \/ Stays(t)
    BY StepMoves
  <1>n. frame[t].next \in Nat \ {0} /\ frame[t].pc \in Points
    BY <1>0, Fields
  <1>1. frame'[t].pc = "waiting" => IsLeaf(t)
    BY <1>0, <1>t DEF Fresh, Moves, Resumes, Stays
  <1>2. ASSUME NEW i \in DOMAIN Plan[t], NEW c, c = Plan[t][i].child, Ahead(t, i)'
        PROVE  frame'[c].pc = "body" /\ tcb'[c].state \in {"Created", "ColdFinalizing"} \cup Terminal
    <2>0. c \in Tasks /\ i \in 1..Len(Plan[t])
      BY <1>2, PlanFacts
    <2>1. Ahead(t, i)
      <3>1. CASE Moves(t)
        BY <1>2, <1>n, <2>0, <3>1 DEF Moves, Ahead, IsLeaf
      <3>2. CASE Resumes(t)
        <4>1. frame[t].pc # "waiting"
          BY <1>0, <2>0 DEF Fresh, IsLeaf
        <4> QED BY <1>2, <1>n, <3>2, <4>1 DEF Resumes, Ahead
      <3>3. CASE Stays(t)
        BY <1>2, <3>3 DEF Stays, Ahead
      <3> QED BY <1>t, <3>1, <3>2, <3>3
    <2>2. frame[c].pc = "body" /\ tcb[c].state \in {"Created", "ColdFinalizing"} \cup Terminal
      BY <1>0, <1>2, <2>1 DEF Fresh
    <2>3. cpu # c
      BY <1>0, <2>0, <2>2 DEF Where, Terminal
    <2>4. Stays(c)
      <3>1. ~Resumes(c)
        BY <2>2 DEF Resumes, Terminal
      <3> QED BY <2>0, <2>3, <3>1, StepMoves DEF Moves
    <2>5. ~(\E p \in Tasks : /\ cpu = p /\ frame[p].pc = "body" /\ Awaits(p)
                             /\ Child(p) = c /\ frame'[p].pc = "entry")
      <3> SUFFICES ASSUME NEW p \in Tasks, frame[p].pc = "body", Awaits(p), Child(p) = c,
                          frame'[p].pc = "entry"
                   PROVE  FALSE
        OBVIOUS
      <3>1. frame[p].next \in DOMAIN Plan[p]
        BY <1>0, PlanFacts, Fields DEF Awaits
      <3>2. p = t /\ i = frame[p].next
        BY <1>2, <3>1 DEF AwaitedOnce, Child
      <3>3. frame'[t].next = frame[t].next
        BY <1>t, <3>2 DEF Moves, Resumes, Stays
      <3> QED BY <1>2, <1>n, <3>2, <3>3 DEF Ahead
    <2> QED BY <2>2, <2>3, <2>4, <2>5 DEF Stays, Terminal
  <1>3. ASSUME NEW i \in DOMAIN Plan[t], NEW c, c = Plan[t][i].child, Starting(t, i)'
        PROVE  frame'[c].pc = "body"
    <2>0. c \in Tasks
      BY <1>3, PlanFacts
    <2>1. /\ frame[c].pc = "body"
          /\ cpu = t /\ cpu # c
      <3>1. CASE Moves(t)
        <4>1. cpu = t /\ (Starting(t, i) \/ Ahead(t, i))
          BY <1>3, <3>1 DEF Moves, Starting, Ahead
        <4>2. frame[c].pc = "body"
          BY <1>0, <1>3, <4>1 DEF Fresh
        <4>3. cpu # c
          <5>1. CASE Starting(t, i)
            BY <4>1, <4>2, <5>1 DEF Starting
          <5>2. CASE Ahead(t, i)
            BY <1>0, <1>3, <2>0, <4>2, <5>2 DEF Fresh, Where, Terminal
          <5> QED BY <4>1, <5>1, <5>2
        <4> QED BY <4>1, <4>2, <4>3
      <3>2. CASE Resumes(t)
        BY <1>3, <3>2 DEF Resumes, Starting
      <3>3. CASE Stays(t)
        <4>1. Starting(t, i)
          BY <1>3, <3>3 DEF Stays, Starting
        <4>2. cpu = t
          BY <1>0, <4>1 DEF Starting, Where
        <4> QED BY <1>0, <1>3, <4>1, <4>2 DEF Fresh, Starting
      <3> QED BY <1>t, <3>1, <3>2, <3>3
    <2>2. Stays(c)
      BY <2>0, <2>1, StepMoves, Names DEF Moves, Resumes
    <2> QED BY <2>1, <2>2 DEF Stays
  <1> QED BY <1>1, <1>2, <1>3 DEF Fresh, IsLeaf

-----------------------------------------------------------------------------
(* The tasks that wait for a task, however far up.                         *)

\* The lineage holds t and the awaiter of each of its members, and is the least
\* such set.
LEMMA LineageClosed ==
    ASSUME TypesInv, NEW t \in Tasks
    PROVE  /\ t \in Lineage(t) /\ Lineage(t) \in SUBSET Tasks /\ Closed(Lineage(t))
           /\ \A S \in SUBSET Tasks : t \in S /\ Closed(S) => Lineage(t) \subseteq S
  <1>1. t \in Lineage(t) /\ Lineage(t) \in SUBSET Tasks
    BY DEF Lineage
  <1>2. \A S \in SUBSET Tasks : t \in S /\ Closed(S) => Lineage(t) \subseteq S
    BY DEF Lineage
  <1>3. ASSUME NEW s \in Lineage(t), tcb[s].parent_tcb # None
        PROVE  tcb[s].parent_tcb \in Lineage(t)
    <2>1. \A S \in SUBSET Tasks : t \in S /\ Closed(S) => tcb[s].parent_tcb \in S
      BY <1>2, <1>3 DEF Closed
    <2>2. tcb[s].parent_tcb \in Tasks
      BY <1>1, <1>3, Fields
    <2> QED BY <2>1, <2>2 DEF Lineage
  <1> QED BY <1>1, <1>2, <1>3 DEF Closed

\* A member other than t awaits a member.
LEMMA LineageAwaits ==
    ASSUME ChainInv, NEW t \in Tasks, NEW s \in Lineage(t), s # t
    PROVE  /\ s \in Tasks /\ frame[s].pc \in {"install", "suspended"}
           /\ Child(s) \in Lineage(t) /\ tcb[s].active_child = Child(s)
  <1>0. TypesInv /\ \A r \in Tasks : Links(r)
    BY DEF ChainInv
  <1>1. /\ t \in Lineage(t) /\ Lineage(t) \in SUBSET Tasks /\ Closed(Lineage(t))
        /\ \A S \in SUBSET Tasks : t \in S /\ Closed(S) => Lineage(t) \subseteq S
    BY <1>0, LineageClosed
  <1>2. PICK S : S = Lineage(t) \ {s}
    OBVIOUS
  <1>3. S \in SUBSET Tasks /\ t \in S /\ ~Closed(S)
    BY <1>1, <1>2
  <1>4. PICK r \in S : tcb[r].parent_tcb \notin S \cup {None}
    BY <1>3 DEF Closed
  <1>5. tcb[r].parent_tcb = s /\ r \in Lineage(t) /\ r \in Tasks
    BY <1>1, <1>2, <1>4 DEF Closed
  <1>6. s # None
    BY <1>1, Names
  <1>7. frame[s].pc \in {"install", "suspended"} /\ Child(s) = r /\ Linked(s)
    BY <1>0, <1>5, <1>6 DEF Links
  <1> QED BY <1>1, <1>5, <1>7 DEF Linked

\* The lineage of a task that has begun and not ended stays.
LEMMA LineageStays ==
    ASSUME OnExecutor, AwaitedOnce, ChainInv, ChainInv', \A t \in Tasks : Fresh(t), [Next]_vars,
           NEW t \in Tasks, frame[t].pc \notin {"body", "publish"}
    PROVE  Lineage(t)' = Lineage(t)
  <1>0. TypesInv /\ TypesInv' /\ AwaitIInv
    BY DEF ChainInv, TypesInv
  <1>1. /\ t \in Lineage(t) /\ Lineage(t) \in SUBSET Tasks /\ Closed(Lineage(t))
        /\ \A S \in SUBSET Tasks : t \in S /\ Closed(S) => Lineage(t) \subseteq S
    BY <1>0, LineageClosed
  <1>2. ASSUME NEW s \in Lineage(t) PROVE tcb'[s].parent_tcb = tcb[s].parent_tcb
    <2>1. s \in Tasks /\ frame[s].pc \notin {"body", "publish"}
      BY <1>1, LineageAwaits
    <2>2. ASSUME NEW p \in Tasks, frame[p].pc = "prepare", Child(p) = s PROVE FALSE
      <3>1. frame[p].next \in DOMAIN Plan[p]
        BY <1>0, <2>2, ChildOf DEF InAwait
      <3>2. Starting(p, frame[p].next) /\ Plan[p][frame[p].next].child = s
        BY <2>2 DEF Starting, Child
      <3>3. frame[s].pc = "body"
        BY <2>2, <3>1, <3>2 DEF Fresh
      <3> QED BY <2>1, <3>3
    <2> QED BY <2>1, <2>2, StepWrites DEF Reparented
  <1>3. PICK A : A = Lineage(t)
    OBVIOUS
  <1>4. PICK B : B = Lineage(t)'
    OBVIOUS
  <1>5. /\ t \in B /\ B \in SUBSET Tasks
        /\ \A s \in B : tcb'[s].parent_tcb \in B \cup {None}
        /\ \A S \in SUBSET Tasks :
             t \in S /\ (\A s \in S : tcb'[s].parent_tcb \in S \cup {None}) => B \subseteq S
    <2>1. /\ t \in B /\ B \in SUBSET Tasks
      BY <1>4 DEF Lineage
    <2>2. \A S \in SUBSET Tasks :
             t \in S /\ (\A s \in S : tcb'[s].parent_tcb \in S \cup {None}) => B \subseteq S
      BY <1>4 DEF Lineage, Closed
    <2>3. ASSUME NEW s \in B, tcb'[s].parent_tcb # None
          PROVE  tcb'[s].parent_tcb \in B
      <3>1. tcb'[s].parent_tcb \in Tasks
        <4>1. tcb' \in [Tasks -> TCBs]
          BY <1>0 DEF TypesInv, AwaitIInv
        <4> QED BY <2>1, <2>3, <4>1 DEF TCBs
      <3>2. ASSUME NEW S \in SUBSET Tasks, t \in S, \A r \in S : tcb'[r].parent_tcb \in S \cup {None}
            PROVE  tcb'[s].parent_tcb \in S
        BY <2>2, <2>3, <3>2
      <3> QED BY <1>4, <3>1, <3>2 DEF Lineage, Closed
    <2> QED BY <2>1, <2>2, <2>3
  <1>6. B \subseteq A
    BY <1>1, <1>2, <1>3, <1>5 DEF Closed
  <1>7. A \subseteq B
    <2>1. \A s \in B : tcb[s].parent_tcb \in B \cup {None}
      BY <1>2, <1>3, <1>5, <1>6
    <2> QED BY <1>1, <1>3, <1>5, <2>1 DEF Closed
  <1> QED BY <1>3, <1>4, <1>6, <1>7

-----------------------------------------------------------------------------
(* A cancellation reaches the task that sleeps.                            *)

Sleeping(t) == t \notin Drains /\ frame[t].pc = "waiting" /\ tcb[t].state = "Suspended"

\* While a task that is cancelled sleeps, a canceller is on its way down to it.
OnTheWay(t) ==
    /\ cpu \in Callers /\ call[cpu] # <<>>
    /\ \/ Top(cpu).task \in Lineage(t) /\ Top(cpu).phase \in {"flags", "claim", "snapshot"}
       \/ Top(cpu).task = t /\ Top(cpu).phase = "arbiter"
Reach(t) == Sleeping(t) /\ IsCanceled(t) => OnTheWay(t)

\* A step of the canceller brings it nearer, or wakes the task.
LEMMA WalkGoesOn ==
    ASSUME OnExecutor, ChainInv, NEW t \in Tasks, Sleeping(t), Sleeping(t)', OnTheWay(t),
           Lineage(t)' = Lineage(t), NEW x \in Callers, CancelStep(x)
    PROVE  OnTheWay(t)'
  <1>0. /\ TypesInv /\ cpu = x /\ call[x] # <<>> /\ Where(t) /\ Links(t) /\ t \in Lineage(t)
        /\ tcb \in [Tasks -> TCBs]
    <2>1. cpu = x /\ call[x] # <<>>
      BY CallerRuns DEF CancelStep, StoreCancelFlags, ClaimAwait, SnapshotChild, CancelArbiter,
         ColdCancel, ColdPublish, ColdCancelReturns, LoadGeneration, ClaimSuspended
    <2> QED BY <2>1, LineageClosed DEF ChainInv, TypesInv, AwaitIInv
  <1>1. CASE StoreCancelFlags(x)
    <2>1. Top(x).phase = "flags" /\ CallGoto(x, "claim") /\ cpu' = cpu
      BY <1>1 DEF StoreCancelFlags, Calls
    <2>2. call'[x] # <<>> /\ Top(x)'.phase = "claim" /\ Top(x)'.task = Top(x).task
      BY <1>0, <2>1, TopGoes, CallsTyped DEF CallPhases
    <2>3. Top(x).task \in Lineage(t)
      BY <1>0, <2>1 DEF OnTheWay
    <2> QED BY <1>0, <2>1, <2>2, <2>3 DEF OnTheWay, Top
  <1>2. CASE ClaimAwait(x)
    <2>1. Top(x).phase = "claim" /\ cpu' = cpu
      BY <1>2 DEF ClaimAwait, Calls
    <2>2. call'[x] # <<>> /\ Top(x)'.phase = "snapshot" /\ Top(x)'.task = Top(x).task
      BY <1>0, <1>2, ClaimTop, CallsTyped
    <2>3. Top(x).task \in Lineage(t)
      BY <1>0, <2>1 DEF OnTheWay
    <2> QED BY <1>0, <2>1, <2>2, <2>3 DEF OnTheWay, Top
  <1>3. CASE SnapshotChild(x)
    <2>1. Top(x).phase = "snapshot" /\ cpu' = cpu
      BY <1>3 DEF SnapshotChild, Calls
    <2>2. PICK s : s = Top(x).task
      OBVIOUS
    <2>3. s \in Lineage(t)
      BY <1>0, <2>1, <2>2 DEF OnTheWay
    <2>4. CASE s = t
      <3>1. tcb[t].active_child = None
        BY <1>0 DEF Links, Sleeping
      <3>2. CallGoto(x, "arbiter")
        BY <1>3, <2>2, <2>4, <3>1 DEF SnapshotChild, CallGoto
      <3>3. call'[x] # <<>> /\ Top(x)'.phase = "arbiter" /\ Top(x)'.task = t
        BY <1>0, <2>2, <2>4, <3>2, TopGoes, CallsTyped DEF CallPhases
      <3> QED BY <1>0, <2>1, <3>3 DEF OnTheWay, Top
    <2>5. CASE s # t
      <3>c. PICK c : c = tcb[s].active_child
        OBVIOUS
      <3>1. c \in Lineage(t) /\ c \in Tasks
        BY <1>0, <2>3, <2>5, <3>c, LineageAwaits, LineageClosed
      <3>2. call'[x] # <<>> /\ Top(x)'.phase = "flags" /\ Top(x)'.task = c
        BY <1>0, <1>3, <2>2, <3>1, <3>c, SnapshotTop, CallsTyped
      <3> QED BY <1>0, <2>1, <3>1, <3>2 DEF OnTheWay, Top
    <2> QED BY <2>4, <2>5
  <1>4. CASE CancelArbiter(x)
    <2>1. Top(x).phase = "arbiter"
      BY <1>4 DEF CancelArbiter, Calls
    <2>2. Top(x).task = t
      BY <1>0, <2>1 DEF OnTheWay
    <2>3. tcb' = [tcb EXCEPT ![t].state = "Queued"]
      BY <1>4, <2>2 DEF CancelArbiter, Enqueued, Sleeping
    <2>4. tcb'[t].state = "Queued"
      BY <1>0, <2>3 DEF TCBs
    <2> QED BY <2>4 DEF Sleeping
  <1>5. CASE ColdCancel(x) \/ ColdPublish(x) \/ ColdCancelReturns(x)
    BY <1>0, <1>5 DEF ColdCancel, ColdPublish, ColdCancelReturns, Calls, OnTheWay
  <1> QED BY <1>1, <1>2, <1>3, <1>4, <1>5, NoLostSuspension DEF CancelStep

\* Every step keeps it so.
LEMMA ReachStep ==
    ASSUME OnExecutor, AwaitedOnce, ChainInv, ChainInv', \A t \in Tasks : Fresh(t),
           \A t \in Tasks : Reach(t), [Next]_vars, NEW t \in Tasks
    PROVE  Reach(t)'
  <1>0. /\ TypesInv /\ TypesInv' /\ AwaitIInv /\ Reach(t) /\ tcb \in [Tasks -> TCBs]
    BY DEF ChainInv, TypesInv, AwaitIInv
  <1> SUFFICES ASSUME Sleeping(t)', IsCanceled(t)' PROVE OnTheWay(t)'
    BY DEF Reach
  <1>l. t \in Lineage(t) /\ Lineage(t) \in SUBSET Tasks
    BY <1>0, LineageClosed
  <1>1. CASE Moves(t)
    <2>1. LeafSleep(t)
      <3>1. frame[t].pc = "body" /\ frame'[t].pc = "waiting" /\ CoroutineStep(t)
        BY <1>1 DEF Moves, Sleeping
      <3>2. frame \in [Tasks -> Frames]
        BY <1>0 DEF AwaitIInv
      <3> QED BY <3>1, <3>2 DEF CoroutineStep, AwaitStart, AwaitEntry, AwaitPrepare,
            InstallContinuation, ContinuationTaken, ClearAwaitLink, StoreRunning, Resolve, ClaimNormal,
            Sample, AwaitCaught, AwaitUnwinds, DrainUnwinds, TakeResult, Complete,
            LeafUnwinds, CoroutineEnds, Runs, Goto, Frames
    <2>2. tcb' = [tcb EXCEPT ![t].state = "Suspended", ![t].gen = @ + 1]
          /\ (t \in Drains \/ ~IsCanceled(t))
      BY <2>1 DEF LeafSleep
    <2>3. \A s \in Tasks : /\ tcb'[s].parent_tcb = tcb[s].parent_tcb
                           /\ tcb'[s].cancel_requested = tcb[s].cancel_requested
                           /\ tcb'[s].cancel_handled = tcb[s].cancel_handled
      BY <1>0, <2>2 DEF TCBs
    <2>4. \A S \in SUBSET Tasks : Closed(S)' <=> Closed(S)
      BY <2>3 DEF Closed
    <2>5. \A s : s \in Lineage(t)' <=> s \in Lineage(t)
      BY <2>4 DEF Lineage
    <2>6. IsCanceled(t)
      BY <1>l, <2>3, <2>5 DEF IsCanceled
    <2> QED BY <2>2, <2>6 DEF Sleeping
  <1>2. CASE Resumes(t)
    BY <1>2 DEF Resumes, Sleeping
  <1>3. CASE Stays(t)
    <2>1. Sleeping(t)
      BY <1>3 DEF Stays, Sleeping, Terminal
    <2>2. Lineage(t)' = Lineage(t)
      BY <2>1, LineageStays DEF Sleeping
    <2>3. CASE \E s \in Lineage(t) : /\ cpu \in Callers /\ call[cpu] # <<>>
                                     /\ StoreCancelFlags(cpu) /\ Top(cpu).task = s
                                     /\ Top(cpu).phase = "flags"
      <3>1. OnTheWay(t)
        BY <2>3 DEF OnTheWay
      <3> QED BY <2>1, <2>2, <2>3, <3>1, WalkGoesOn DEF CancelStep
    <2>4. CASE ~\E s \in Lineage(t) : /\ cpu \in Callers /\ call[cpu] # <<>>
                                      /\ StoreCancelFlags(cpu) /\ Top(cpu).task = s
                                      /\ Top(cpu).phase = "flags"
      <3>1. ASSUME NEW s \in Lineage(t), tcb'[s].cancel_requested = 1
            PROVE  tcb[s].cancel_requested = 1
        <4>1. Flagged(s)
          BY <1>l, StepWrites
        <4> QED BY <2>4, <3>1, <4>1 DEF Flagged
      <3>2. tcb[t].cancel_handled = 0
        <4>1. Flagged(t) /\ tcb'[t].cancel_handled = 0
          BY StepWrites DEF IsCanceled
        <4>2. ~AwaitCaught(t)
          BY <2>1 DEF AwaitCaught, Runs, Sleeping
        <4> QED BY <1>l, <2>4, <4>1, <4>2 DEF Flagged
      <3>3. IsCanceled(t)
        BY <2>2, <3>1, <3>2 DEF IsCanceled
      <3>4. OnTheWay(t)
        BY <1>0, <2>1, <3>3 DEF Reach
      <3>5. ASSUME cpu' = cpu, call' = call PROVE OnTheWay(t)'
        BY <2>2, <3>4, <3>5 DEF OnTheWay, Top
      <3>6. cpu \in Callers /\ cpu \notin Tasks /\ cpu # None
        BY <3>4, Names DEF OnTheWay
      <3>7. ASSUME NEW e \in ready, PopReady(e) PROVE FALSE
        BY <3>6, <3>7 DEF PopReady
      <3>8. ASSUME NEW s \in Tasks, CoroutineStep(s) PROVE FALSE
        BY <3>6, <3>8, OwnMoves DEF Moves
      <3>9. ASSUME NEW s \in Tasks, PublishStep(s) \/ SourceWakes(s) PROVE OnTheWay(t)'
        BY <3>5, <3>9 DEF PublishStep, PublishState, ExchangeContinuation, NoteChildTerminal,
           PublisherUnlinks, LoadAwaiterGeneration, ScheduleAwaiter, SourceWakes
      <3>10. ASSUME NEW x \in Callers, CancelStep(x) PROVE OnTheWay(t)'
        BY <2>1, <2>2, <3>4, <3>10, WalkGoesOn
      <3>11. ASSUME NEW x \in Callers, NEW s \in Tasks, RequestCancel(x, s) PROVE FALSE
        BY <3>6, <3>11 DEF RequestCancel, OnExecutor
      <3>12. CASE UNCHANGED vars
        BY <3>5, <3>12 DEF vars
      <3> QED BY <3>7, <3>8, <3>9, <3>10, <3>11, <3>12 DEF Next, Step
    <2> QED BY <2>3, <2>4
  <1> QED BY <1>1, <1>2, <1>3, StepMoves

\* The chain, the tasks that have not begun and the cancellers on their way.
ReachInv == ChainInv /\ \A t \in Tasks : Fresh(t) /\ Reach(t)

\* On the executor's thread, for every set of tasks and plan of awaits: these hold
\* throughout.
LEMMA ReachHolds ==
    ASSUME OnExecutor, AwaitedOnce
    PROVE  Spec => []ReachInv
  <1>1. ASSUME ReachInv, [Next]_vars PROVE ReachInv'
    <2>1. ChainInv'
      BY <1>1, ChainStep DEF ReachInv
    <2>2. \A t \in Tasks : Fresh(t)'
      BY <1>1, FreshStep DEF ReachInv
    <2>3. \A t \in Tasks : Reach(t)'
      BY <1>1, <2>1, ReachStep DEF ReachInv
    <2> QED BY <2>1, <2>2, <2>3 DEF ReachInv
  <1>2. ASSUME Init PROVE ReachInv
    <2>1. \A t \in Tasks : frame[t].pc = "body"
                           /\ (t \notin Roots => tcb[t].state = "Created")
      BY <1>2 DEF Init
    <2>2. \A t \in Tasks : Reach(t)
      BY <2>1 DEF Reach, Sleeping
    <2>3. ASSUME NEW t \in Tasks PROVE Fresh(t)
      BY <2>1, PlanFacts DEF Fresh
    <2> QED BY <1>2, <2>2, <2>3, ChainInit DEF ReachInv
  <1> QED BY <1>1, <1>2, PTL DEF Spec

\* When no request_cancel is under way, no task sleeps on a source while it, or a
\* task that waits for it however far up, is cancelled: request_cancel reads
\* active_child and calls itself for the child until it finds the one that sleeps.
THEOREM CancelReachesSleeperHolds ==
    ASSUME OnExecutor, AwaitedOnce
    PROVE  Spec => []CancelReachesSleeper
  <1>1. ReachInv => CancelReachesSleeper
    BY Names DEF ReachInv, CancelReachesSleeper, Reach, Sleeping, OnTheWay, Idle
  <1> QED BY <1>1, ReachHolds, PTL

-----------------------------------------------------------------------------
(* No await traps.  What a step does to the publication of the end of a    *)
(* task and to the resolution word of an await.                            *)

Unwinds(t) == AwaitUnwinds(t) \/ DrainUnwinds(t) \/ LeafUnwinds(t)

\* The publication of the end of t goes on.
Published(t) ==
    LET from == pub[t].phase
        to == pub'[t].phase
    IN  \/ from = to /\ promise'[t].result = promise[t].result
        \/ /\ from = "none" /\ to = "state"
           /\ promise'[t].result \in {"ReadyLive", "Canceled"}
           /\ promise'[t].result = "Canceled" =>
                Unwinds(t) \/ tcb[t].state = "ColdFinalizing"
        \/ /\ promise'[t].result = promise[t].result
           /\ \/ from = "state" /\ to = "exchange"
              \/ from = "exchange" /\ to = "note"
              \/ from = "exchange" /\ to = "end" /\ promise[t].continuation = None
              \/ from = "note" /\ to = "unlink" /\ NoteChildTerminal(t)
              \/ from = "unlink" /\ to = "load"
              \/ from = "load" /\ to = "schedule"
              \/ from = "schedule" /\ to = "end"

\* The resolution word of t is written by its coroutine, a canceller or the
\* publisher of its child.
Worded(t) ==
    \/ tcb'[t].resolution = tcb[t].resolution
    \/ tcb'[t].resolution = "CancelClaimed"
    \/ Moves(t)
    \/ \E c \in Tasks : NoteChildTerminal(c) /\ pub[c].awaiter = t

\* The first step of a publication.
LEMMA BeginPublished ==
    ASSUME ChainInv, NEW t \in Tasks, NEW by, NEW result \in {"ReadyLive", "Canceled"},
           BeginPublish(t, by, result), pub[t].phase = "none",
           result = "Canceled" => Unwinds(t) \/ tcb[t].state = "ColdFinalizing",
           NEW s \in Tasks
    PROVE  Published(s)
  <1>0. promise \in [Tasks -> Promises] /\ pub \in [Tasks -> Pubs]
    BY DEF ChainInv, TypesInv
  <1>1. /\ promise' = [promise EXCEPT ![t].result = result]
        /\ pub' = [pub EXCEPT ![t].phase = "state", ![t].by = by]
    BY DEF BeginPublish
  <1>2. CASE s = t
    <2>1. promise'[t].result = result /\ pub'[t].phase = "state"
      BY <1>0, <1>1 DEF Promises, Pubs
    <2> QED BY <1>2, <2>1 DEF Published
  <1>3. CASE s # t
    <2>1. promise'[s] = promise[s] /\ pub'[s] = pub[s]
      BY <1>0, <1>1, <1>3
    <2> QED BY <2>1 DEF Published
  <1> QED BY <1>2, <1>3

\* Every step.
LEMMA StepPublishes ==
    ASSUME OnExecutor, AwaitedOnce, ChainInv, [Next]_vars, NEW s \in Tasks
    PROVE  Published(s)
  <1>0. /\ TypesInv /\ promise \in [Tasks -> Promises] /\ pub \in [Tasks -> Pubs]
        /\ \A t \in Tasks : Where(t) /\ Ends(t)
    BY DEF ChainInv, TypesInv
  <1>s. ASSUME pub' = pub, promise'[s].result = promise[s].result PROVE Published(s)
    BY <1>s DEF Published
  <1>1. CASE UNCHANGED vars
    BY <1>1, <1>s DEF vars
  <1>2. ASSUME NEW e \in ready, PopReady(e) PROVE Published(s)
    BY <1>2, <1>s DEF PopReady
  <1>3. ASSUME NEW t \in Tasks, CoroutineStep(t) PROVE Published(s)
    <2>0. ASSUME frame[t].pc \in {"body", "canceled", "ready"}, cpu = t
          PROVE  pub[t].phase = "none"
      <3>1. tcb[t].state = "Running"
        BY <1>0, <2>0 DEF Where, Terminal
      <3> QED BY <1>0, <2>0, <3>1 DEF Ends, Terminal
    <2>1. CASE Unwinds(t)
      <3>1. BeginPublish(t, t, "Canceled") /\ frame[t].pc \in {"body", "canceled", "ready"} /\ cpu = t
        BY <2>1 DEF Unwinds, AwaitUnwinds, DrainUnwinds, LeafUnwinds, Runs
      <3> QED BY <2>0, <2>1, <3>1, BeginPublished
    <2>2. CASE Complete(t)
      <3>1. BeginPublish(t, t, "ReadyLive") /\ frame[t].pc = "body" /\ cpu = t
        BY <2>2 DEF Complete, Runs
      <3> QED BY <2>0, <3>1, BeginPublished
    <2>3. CASE InstallContinuation(t)
      <3>1. promise' = [promise EXCEPT ![Child(t)].continuation = t] /\ pub' = pub
        BY <2>3 DEF InstallContinuation
      <3>2. promise'[s].result = promise[s].result
        BY <1>0, <3>1 DEF Promises
      <3> QED BY <1>s, <3>1, <3>2
    <2>4. CASE ~Unwinds(t) /\ ~Complete(t) /\ ~InstallContinuation(t)
      <3>1. pub' = pub /\ promise' = promise
        BY <1>3, <2>4 DEF CoroutineStep, Unwinds, AwaitStart, AwaitEntry, AwaitPrepare,
           ContinuationTaken, ClearAwaitLink, StoreRunning, Resolve, ClaimNormal,
           Sample, AwaitCaught, TakeResult, LeafSleep, CoroutineEnds
      <3> QED BY <1>s, <3>1
    <2> QED BY <2>1, <2>2, <2>3, <2>4
  <1>4. ASSUME NEW t \in Tasks, PublishStep(t) PROVE Published(s)
    <2>1. CASE ExchangeContinuation(t)
      <3>1. /\ promise' = [promise EXCEPT ![t].continuation = "Done"]
            /\ pub' = [pub EXCEPT ![t].phase = IF promise[t].continuation = None
                                                 THEN "end" ELSE "note",
                                  ![t].awaiter = promise[t].continuation]
            /\ pub[t].phase = "exchange"
        BY <2>1 DEF ExchangeContinuation, Publishing
      <3>2. promise'[s].result = promise[s].result
        BY <1>0, <3>1 DEF Promises
      <3>3. CASE s = t
        <4>1. pub'[t].phase = IF promise[t].continuation = None THEN "end" ELSE "note"
          BY <1>0, <3>1 DEF Pubs
        <4> QED BY <3>1, <3>2, <3>3, <4>1 DEF Published
      <3>4. CASE s # t
        <4>1. pub'[s] = pub[s]
          BY <1>0, <3>1, <3>4
        <4> QED BY <3>2, <4>1 DEF Published
      <3> QED BY <3>3, <3>4
    <2>2. CASE ~ExchangeContinuation(t)
      <3>1. PICK to : /\ promise' = promise
                      /\ pub'[t].phase = to /\ (s # t => pub'[s] = pub[s])
                      /\ \/ pub[t].phase = "state" /\ to = "exchange"
                         \/ pub[t].phase = "note" /\ to = "unlink" /\ NoteChildTerminal(t)
                         \/ pub[t].phase = "unlink" /\ to = "load"
                         \/ pub[t].phase = "load" /\ to = "schedule"
                         \/ pub[t].phase = "schedule" /\ to = "end"
        <4>0. ASSUME NEW p, PubGoto(t, p)
              PROVE  pub'[t].phase = p /\ (s # t => pub'[s] = pub[s])
          BY <1>0, <4>0 DEF PubGoto, Pubs
        <4>1. CASE PublishState(t) \/ NoteChildTerminal(t) \/ PublisherUnlinks(t)
                   \/ ScheduleAwaiter(t)
          BY <4>0, <4>1 DEF PublishState, NoteChildTerminal, PublisherUnlinks, ScheduleAwaiter,
             Publishing
        <4>2. CASE LoadAwaiterGeneration(t)
          <5>1. /\ pub' = [pub EXCEPT ![t].phase = "schedule", ![t].gen = tcb[pub[t].awaiter].gen]
                /\ promise' = promise /\ pub[t].phase = "load"
            BY <4>2 DEF LoadAwaiterGeneration, Publishing
          <5>2. pub'[t].phase = "schedule" /\ (s # t => pub'[s] = pub[s])
            BY <1>0, <5>1 DEF Pubs
          <5> QED BY <5>1, <5>2
        <4> QED BY <1>4, <2>2, <4>1, <4>2 DEF PublishStep
      <3>2. CASE s = t
        BY <3>1, <3>2 DEF Published
      <3>3. CASE s # t
        BY <3>1, <3>3 DEF Published
      <3> QED BY <3>2, <3>3
    <2> QED BY <2>1, <2>2
  <1>5. ASSUME NEW t \in Tasks, SourceWakes(t) PROVE Published(s)
    BY <1>5, <1>s DEF SourceWakes
  <1>6. ASSUME NEW x \in Callers, CancelStep(x) PROVE Published(s)
    <2>1. CASE ColdPublish(x)
      <3>1. /\ Top(x).task \in Tasks /\ BeginPublish(Top(x).task, x, "Canceled")
            /\ call[x] # <<>> /\ Top(x).phase = "finalize"
        BY <2>1, CallerRuns DEF ColdPublish
      <3>2. pub[Top(x).task].phase = "none" /\ tcb[Top(x).task].state = "ColdFinalizing"
        BY <3>1 DEF ChainInv, Caller
      <3> QED BY <3>1, <3>2, BeginPublished
    <2>2. CASE ~ColdPublish(x)
      BY <1>6, <1>s, <2>2 DEF CancelStep, StoreCancelFlags, ClaimAwait, SnapshotChild,
         CancelArbiter, ColdCancel, ColdCancelReturns, LoadGeneration, ClaimSuspended
    <2> QED BY <2>1, <2>2
  <1>7. ASSUME NEW x \in Callers, NEW t \in Tasks, RequestCancel(x, t) PROVE Published(s)
    BY <1>7, <1>s DEF RequestCancel
  <1> QED BY <1>1, <1>2, <1>3, <1>4, <1>5, <1>6, <1>7 DEF Next, Step

\* Every step.
LEMMA StepWords ==
    ASSUME OnExecutor, AwaitedOnce, ChainInv, [Next]_vars, NEW s \in Tasks
    PROVE  Worded(s)
  <1>0. /\ TypesInv /\ AwaitIInv /\ tcb \in [Tasks -> TCBs]
    BY DEF ChainInv, TypesInv, AwaitIInv
  <1>s. ASSUME tcb'[s].resolution = tcb[s].resolution PROVE Worded(s)
    BY <1>s DEF Worded
  <1>1. CASE UNCHANGED vars
    BY <1>1, <1>s DEF vars
  <1>2. ASSUME NEW e \in ready, PopReady(e) PROVE Worded(s)
    <2>1. \/ tcb' = tcb
          \/ tcb' = [tcb EXCEPT ![e.task].state = "Running"]
      BY <1>2 DEF PopReady
    <2> QED BY <1>0, <1>s, <2>1 DEF TCBs
  <1>3. ASSUME NEW t \in Tasks, CoroutineStep(t) PROVE Worded(s)
    <2>1. CASE s = t
      BY <1>3, <2>1, OwnMoves DEF Worded
    <2>2. CASE s # t
      <3>1. ~ContinuationTaken(t) /\ ~ClearAwaitLink(t) /\ ~StoreRunning(t)
        <4>1. ~ContinuationTaken(t)
          BY NoContinuationTaken
        <4> QED BY <4>1 DEF ChainInv, ClearAwaitLink, StoreRunning, Runs, Where
      <3>2. PICK h, w, g :
            \/ tcb' = tcb
            \/ tcb' = [tcb EXCEPT ![Child(t)].state = "Queued", ![Child(t)].gen = 1]
            \/ tcb' = [tcb EXCEPT ![t].gen = g, ![t].state = "Suspended",
                                  ![t].resolution = "Armed", ![t].active_child = Child(t),
                                  ![Child(t)].parent_tcb = t]
            \/ tcb' = [tcb EXCEPT ![t].resolution = w]
            \/ tcb' = [tcb EXCEPT ![t] = h]
            \/ tcb' = [tcb EXCEPT ![t].state = "Suspended", ![t].gen = g]
        <4>1. CASE AwaitPrepare(t)
          <5>1. tcb' = [tcb EXCEPT ![t].gen = tcb[t].gen + 1, ![t].state = "Suspended",
                                   ![t].resolution = "Armed", ![t].active_child = Child(t),
                                   ![Child(t)].parent_tcb = t]
            BY <4>1 DEF AwaitPrepare
          <5> QED BY <5>1
        <4>2. CASE LeafSleep(t)
          <5>1. tcb' = [tcb EXCEPT ![t].state = "Suspended", ![t].gen = tcb[t].gen + 1]
            BY <4>2 DEF LeafSleep
          <5> QED BY <5>1
        <4>3. CASE ~AwaitPrepare(t) /\ ~LeafSleep(t)
          BY <1>3, <3>1, <4>3 DEF CoroutineStep, AwaitStart, AwaitEntry, InstallContinuation,
             Resolve, ClaimNormal, Sample, AwaitCaught, AwaitUnwinds, DrainUnwinds, TakeResult,
             Complete, LeafUnwinds, CoroutineEnds
        <4> QED BY <4>1, <4>2, <4>3
      <3> QED BY <1>0, <1>s, <2>2, <3>2 DEF TCBs
    <2> QED BY <2>1, <2>2
  <1>4. ASSUME NEW t \in Tasks, PublishStep(t) PROVE Worded(s)
    <2>1. CASE NoteChildTerminal(t)
      <3>1. CASE pub[t].awaiter = s
        BY <2>1, <3>1 DEF Worded
      <3>2. CASE pub[t].awaiter # s
        BY <1>0, <1>s, <2>1, <3>2 DEF NoteChildTerminal, TCBs
      <3> QED BY <3>1, <3>2
    <2>2. CASE ~NoteChildTerminal(t)
      <3>1. PICK end :
            \/ tcb' = tcb
            \/ tcb' = [tcb EXCEPT ![t].active_child = None, ![t].state = end]
            \/ tcb' = Unlinked(t, pub[t].awaiter)
            \/ tcb' = [tcb EXCEPT ![pub[t].awaiter].state = "Queued"]
        BY <1>4, <2>2 DEF PublishStep, PublishState, ExchangeContinuation, PublisherUnlinks,
           LoadAwaiterGeneration, ScheduleAwaiter, Enqueued
      <3> QED BY <1>0, <1>s, <3>1 DEF Unlinked, TCBs
    <2> QED BY <2>1, <2>2
  <1>5. ASSUME NEW t \in Tasks, SourceWakes(t) PROVE Worded(s)
    <2>1. tcb' = [tcb EXCEPT ![t].state = "Queued"]
      BY <1>5 DEF SourceWakes, Enqueued
    <2> QED BY <1>0, <1>s, <2>1 DEF TCBs
  <1>6. ASSUME NEW x \in Callers, CancelStep(x) PROVE Worded(s)
    <2>t. PICK t : t = Top(x).task
      OBVIOUS
    <2>1. \/ tcb' = tcb
          \/ tcb' = [tcb EXCEPT ![t].resolution = "CancelClaimed"]
          \/ tcb' = [tcb EXCEPT ![t].cancel_requested = 1, ![t].cancel_handled = 0]
          \/ tcb' = [tcb EXCEPT ![t].state = "Queued"]
          \/ tcb' = [tcb EXCEPT ![t].state = "ColdFinalizing"]
      BY <1>6, <2>t, NoLostSuspension DEF CancelStep, StoreCancelFlags, ClaimAwait, SnapshotChild,
         CancelArbiter, ColdCancel, ColdPublish, ColdCancelReturns, Enqueued
    <2>2. tcb'[s].resolution = tcb[s].resolution \/ tcb'[s].resolution = "CancelClaimed"
      BY <1>0, <2>1 DEF TCBs
    <2> QED BY <2>2 DEF Worded
  <1>7. ASSUME NEW x \in Callers, NEW t \in Tasks, RequestCancel(x, t) PROVE Worded(s)
    BY <1>7, <1>s DEF RequestCancel
  <1> QED BY <1>1, <1>2, <1>3, <1>4, <1>5, <1>6, <1>7 DEF Next, Step

\* The word of an await that is not resolved, by how far the end of the child is.
Word(t) ==
    LET c == Child(t)
        word == tcb[t].resolution
    IN  frame[t].pc \in {"install", "suspended", "post", "resume", "claim"} =>
          /\ pub[c].phase \in {"none", "state", "exchange", "note"} =>
               word \in {"Armed", "CancelClaimed"}
          /\ pub[c].phase \notin {"none", "state", "exchange", "note"} =>
               word \in {"CancelClaimed", "ChildNormal", "ChildCanceled"}
          /\ word = "ChildNormal" => promise[c].result = "ReadyLive"

\* What the publisher of the child writes into the word of the await.
LEMMA NotedAwait ==
    ASSUME AwaitedOnce, ChainInv, NEW t \in Tasks, NEW c \in Tasks, NoteChildTerminal(c),
           pub[c].awaiter = t
    PROVE  /\ frame[t].pc = "suspended" /\ Child(t) = c /\ pub[c].phase = "note"
           /\ tcb'[t].resolution = NotedWord(tcb[t].resolution, promise[c].result)
           /\ promise[c].result # "Pending"
  <1>0. tcb \in [Tasks -> TCBs] /\ Ends(c)
    BY DEF ChainInv, TypesInv, AwaitIInv
  <1>1. pub[c].phase = "note"
    BY DEF NoteChildTerminal, Publishing
  <1>2. frame[t].pc = "suspended" /\ Child(t) = c /\ promise[c].result # "Pending"
    BY <1>0, <1>1 DEF Ends, Handover
  <1>3. tcb'[t].resolution = NotedWord(tcb[t].resolution, promise[c].result)
    BY <1>0 DEF NoteChildTerminal, TCBs
  <1> QED BY <1>1, <1>2, <1>3

\* The word follows the end of the child.
LEMMA WordStep ==
    ASSUME OnExecutor, AwaitedOnce, ChainInv, [Next]_vars, NEW t \in Tasks, Word(t)
    PROVE  Word(t)'
  <1>0. /\ TypesInv /\ AwaitIInv /\ \A s \in Tasks : Where(s) /\ Ends(s) /\ Link(s)
        /\ tcb \in [Tasks -> TCBs] /\ promise \in [Tasks -> Promises]
    BY DEF ChainInv, TypesInv, AwaitIInv
  <1> SUFFICES ASSUME frame'[t].pc \in {"install", "suspended", "post", "resume", "claim"}
               PROVE  Word(t)'
    BY DEF Word
  <1>n. frame'[t].next = frame[t].next
    BY StepMoves DEF Moves, Resumes, Stays
  <1>c. Child(t)' = Child(t)
    BY <1>n DEF Child
  <1>i. frame[t].pc \in {"prepare", "install", "suspended", "post", "resume", "claim"}
    BY StepMoves DEF Moves, Resumes, Stays
  <1>d. PICK c \in Tasks : c = Child(t)
    BY <1>0, <1>i, ChildOf DEF InAwait
  <1>p. Published(c) /\ Worded(t)
    BY StepPublishes, StepWords
  <1>1. CASE frame[t].pc = "prepare"
    <2>1. Moves(t)
      BY <1>1, StepMoves DEF Resumes, Stays
    <2>2. AwaitPrepare(t)
      BY <1>1, <2>1 DEF Moves, CoroutineStep, Runs, AwaitStart, AwaitEntry,
         InstallContinuation, ContinuationTaken, ClearAwaitLink, StoreRunning, Resolve, ClaimNormal,
         Sample, AwaitCaught, AwaitUnwinds, DrainUnwinds, TakeResult, LeafSleep,
         Complete, LeafUnwinds, CoroutineEnds
    <2>3. tcb'[t].resolution = "Armed" /\ pub' = pub
      BY <1>0, <2>2 DEF AwaitPrepare, TCBs
    <2>4. pub[c].phase = "none"
      BY <1>0, <1>1, <1>d DEF Link
    <2> QED BY <1>c, <1>d, <2>3, <2>4 DEF Word
  <1>4. CASE Moves(t) /\ frame[t].pc \in {"post", "resume", "claim"}
    <2>1. pub[c].phase = "end"
      BY <1>0, <1>d, <1>4 DEF Link
    <2>2. /\ tcb[t].resolution \in {"CancelClaimed", "ChildNormal", "ChildCanceled"}
          /\ tcb[t].resolution = "ChildNormal" => promise[c].result = "ReadyLive"
      BY <1>d, <1>4, <2>1 DEF Word
    <2>3. Resolve(t) \/ ClaimNormal(t)
      BY <1>4 DEF Moves, CoroutineStep, Runs, AwaitStart, AwaitEntry, AwaitPrepare,
         InstallContinuation, ContinuationTaken, ClearAwaitLink, StoreRunning,
         Sample, AwaitCaught, AwaitUnwinds, DrainUnwinds, TakeResult, LeafSleep,
         Complete, LeafUnwinds, CoroutineEnds
    <2>4. pub' = pub /\ promise' = promise
      BY <2>3 DEF Resolve, ClaimNormal
    <2>5. tcb'[t].resolution = tcb[t].resolution
      <3>1. CASE Resolve(t)
        <4>1. frame'[t].pc = Resolved(t)
          BY <1>0, <3>1 DEF Resolve, Goto, AwaitIInv, Frames
        <4>2. Resolved(t) = "claim" /\ Resolution(t) = "ChildNormal"
          BY <1>0, <4>1, ResolutionWord
        <4>3. Kind(t) # "barrier"
          BY <4>2 DEF Resolved
        <4>4. tcb[t].resolution = "ChildNormal"
          BY <2>2, <4>2, <4>3 DEF Resolution, ResolvedWord
        <4> QED BY <1>0, <3>1, <4>2, <4>4 DEF Resolve, TCBs
      <3>2. CASE ClaimNormal(t)
        <4>1. Goto(t, "ready") => frame'[t].pc = "ready"
          BY <1>0 DEF Goto, AwaitIInv, Frames
        <4> QED BY <3>2, <4>1 DEF ClaimNormal
      <3> QED BY <2>3, <3>1, <3>2
    <2> QED BY <1>c, <1>d, <2>1, <2>2, <2>4, <2>5 DEF Word
  <1>2. CASE Moves(t) /\ frame[t].pc \notin {"prepare", "post", "resume", "claim"}
    <2>1. frame[t].pc = "install" /\ frame'[t].pc = "suspended"
      BY <1>2, <1>i DEF Moves
    <2>2. InstallContinuation(t)
      BY <1>2, <2>1, NoContinuationTaken DEF Moves, CoroutineStep, Runs, AwaitStart, AwaitEntry,
         AwaitPrepare, ClearAwaitLink, StoreRunning, Resolve, ClaimNormal,
         Sample, AwaitCaught, AwaitUnwinds, DrainUnwinds, TakeResult, LeafSleep,
         Complete, LeafUnwinds, CoroutineEnds
    <2>3. tcb' = tcb /\ pub' = pub
      BY <2>2 DEF InstallContinuation
    <2>4. pub[c].phase = "none"
      BY <1>0, <1>d, <2>1 DEF Link
    <2>5. tcb[t].resolution \in {"Armed", "CancelClaimed"}
      BY <1>d, <2>1, <2>4 DEF Word
    <2> QED BY <1>c, <1>d, <2>3, <2>4, <2>5 DEF Word
  <1>3. CASE ~Moves(t) /\ frame[t].pc # "prepare"
    <2>0. frame[t].pc \in {"install", "suspended", "post", "resume", "claim"}
      BY <1>3, <1>i
    <2>w. /\ pub[c].phase \in {"none", "state", "exchange", "note"} =>
               tcb[t].resolution \in {"Armed", "CancelClaimed"}
          /\ pub[c].phase \notin {"none", "state", "exchange", "note"} =>
               tcb[t].resolution \in {"CancelClaimed", "ChildNormal", "ChildCanceled"}
          /\ tcb[t].resolution = "ChildNormal" => promise[c].result = "ReadyLive"
      BY <1>d, <2>0 DEF Word
    <2>e. frame[t].pc \in {"post", "resume", "claim"} => pub[c].phase = "end"
      BY <1>0, <1>d DEF Link
    <2>x. pub[c].phase = "exchange" => promise[c].continuation # None
      BY <1>0, <1>d, <2>0, Names DEF Link
    <2>r. promise'[c].result = promise[c].result \/ pub[c].phase = "none"
      BY <1>p DEF Published
    <2>1. CASE NoteChildTerminal(c)
      <3>1. pub[c].phase = "note" /\ pub[c].awaiter \in Tasks
        BY <1>0, <2>1 DEF NoteChildTerminal, Publishing, Ends, Handover
      <3>a. PICK a \in Tasks : a = pub[c].awaiter
        BY <3>1
      <3>2. frame[a].pc = "suspended" /\ Child(a) = c
        BY <2>1, <3>a, NotedAwait
      <3>3. a = t
        BY <1>0, <1>d, <2>0, <3>2, OneAwaiter DEF InAwait
      <3>4. /\ tcb'[t].resolution = NotedWord(tcb[t].resolution, promise[c].result)
            /\ promise[c].result # "Pending"
        BY <2>1, <3>3, <3>a, NotedAwait
      <3>5. pub'[c].phase = "unlink" /\ promise'[c].result = promise[c].result
        BY <1>p, <2>1, <3>1 DEF Published, NoteChildTerminal, PubGoto, ChainInv, TypesInv, Pubs
      <3>6. promise[c].result \in {"Pending", "ReadyLive", "Canceled"}
        BY <1>0 DEF Promises
      <3>7. tcb'[t].resolution \in {"CancelClaimed", "ChildNormal", "ChildCanceled"}
            /\ (tcb'[t].resolution = "ChildNormal" => promise[c].result = "ReadyLive")
        BY <2>w, <3>1, <3>4, <3>6 DEF NotedWord
      <3> QED BY <1>c, <1>d, <3>5, <3>7 DEF Word
    <2>2. CASE ~NoteChildTerminal(c)
      <3>1. tcb'[t].resolution \in {tcb[t].resolution, "CancelClaimed"}
        <4>1. ASSUME NEW s \in Tasks, NoteChildTerminal(s), pub[s].awaiter = t PROVE FALSE
          BY <1>d, <2>2, <4>1, NotedAwait
        <4> QED BY <1>3, <1>p, <4>1 DEF Worded
      <3>2. pub'[c].phase \in {"none", "state", "exchange", "note"} <=>
              pub[c].phase \in {"none", "state", "exchange", "note"}
        BY <1>p, <2>2, <2>x DEF Published
      <3> QED BY <1>c, <1>d, <2>r, <2>w, <3>1, <3>2 DEF Word
    <2> QED BY <2>1, <2>2
  <1> QED BY <1>1, <1>2, <1>3, <1>4

-----------------------------------------------------------------------------
(* The calls of a canceller.                                               *)

\* From the call it made down to the one that executes, each call is for the child
\* that the task of the call before awaits, and has stored the request.
Stack(x) ==
    \A k \in 1 .. Len(call[x]) : LET s == call[x][k].task IN
        /\ k = 1 => HasHandle(s)
        /\ call[x][k].phase # "flags" => tcb[s].cancel_requested = 1
        /\ k > 1 => LET p == call[x][k - 1].task IN frame[p].pc = "suspended" /\ Child(p) = s

\* Only a caller writes its calls.
LEMMA OwnCalls ==
    ASSUME CallTypes, [Next]_vars, NEW x \in Callers
    PROVE  \/ call'[x] = call[x]
           \/ CancelStep(x)
           \/ \E t \in Tasks : RequestCancel(x, t)
  <1>0. call \in [Callers -> Seq(CallRecs)]
    BY DEF CallTypes
  <1>1. CASE UNCHANGED vars
    BY <1>1 DEF vars
  <1>2. ASSUME NEW e \in ready, PopReady(e) PROVE call' = call
    BY <1>2 DEF PopReady
  <1>3. ASSUME NEW t \in Tasks, CoroutineStep(t) PROVE call' = call
    BY <1>3 DEF CoroutineStep, AwaitStart, AwaitEntry, AwaitPrepare,
       InstallContinuation, ContinuationTaken, ClearAwaitLink, StoreRunning, Resolve, ClaimNormal,
       Sample, AwaitCaught, AwaitUnwinds, DrainUnwinds, TakeResult, LeafSleep,
       Complete, LeafUnwinds, CoroutineEnds
  <1>4. ASSUME NEW t \in Tasks, PublishStep(t) \/ SourceWakes(t) PROVE call' = call
    BY <1>4 DEF PublishStep, PublishState, ExchangeContinuation, NoteChildTerminal,
       PublisherUnlinks, LoadAwaiterGeneration, ScheduleAwaiter, SourceWakes
  <1>5. ASSUME NEW y \in Callers, y # x, CancelStep(y) PROVE call'[x] = call[x]
    <2>1. PICK q : call' = [call EXCEPT ![y] = q]
      <3>0. ASSUME NEW p, CallGoto(y, p) PROVE \E q : call' = [call EXCEPT ![y] = q]
        BY <3>0 DEF CallGoto
      <3>1. ASSUME Return(y) PROVE \E q : call' = [call EXCEPT ![y] = q]
        BY <3>1 DEF Return
      <3>2. CASE ClaimAwait(y) \/ LoadGeneration(y)
        BY <3>2 DEF ClaimAwait, LoadGeneration
      <3>3. CASE SnapshotChild(y)
        <4>1. PICK rest : rest = [call EXCEPT ![y][Len(call[y])].phase = "arbiter"]
          OBVIOUS
        <4>2. PICK q : q = rest[y]
          OBVIOUS
        <4>3. rest = [call EXCEPT ![y] = q]
          BY <1>0, <4>1, <4>2
        <4>4. \/ call' = rest
              \/ \E z : call' = [rest EXCEPT ![y] = z]
          BY <3>3, <4>1 DEF SnapshotChild
        <4> QED BY <4>3, <4>4
      <3> QED BY <1>5, <3>0, <3>1, <3>2, <3>3 DEF CancelStep, StoreCancelFlags, CancelArbiter,
            ColdCancel, ColdPublish, ColdCancelReturns, ClaimSuspended
    <2> QED BY <1>0, <1>5, <2>1
  <1>6. ASSUME NEW y \in Callers, y # x, NEW t \in Tasks, RequestCancel(y, t)
        PROVE  call'[x] = call[x]
    BY <1>0, <1>6 DEF RequestCancel
  <1> QED BY <1>1, <1>2, <1>3, <1>4, <1>5, <1>6 DEF Next, Step

\* While a caller has the executor no coroutine moves and no request is taken back.
LEMMA CoroutinesStay ==
    ASSUME OnExecutor, AwaitedOnce, ChainInv, [Next]_vars, cpu \in Callers, NEW s \in Tasks
    PROVE  /\ Stays(s) /\ frame'[s] = frame[s] /\ Child(s)' = Child(s)
           /\ tcb[s].cancel_requested = 1 => tcb'[s].cancel_requested = 1
  <1>1. Stays(s)
    BY StepMoves, Names DEF Moves, Resumes
  <1>2. ~AwaitCaught(s)
    BY Names DEF AwaitCaught, Runs
  <1>3. Flagged(s)
    BY StepWrites
  <1> QED BY <1>1, <1>2, <1>3 DEF Stays, Flagged, Child

\* Every step keeps the calls so.
LEMMA StackStep ==
    ASSUME OnExecutor, AwaitedOnce, ChainInv, [Next]_vars, NEW x \in Callers, Stack(x)
    PROVE  Stack(x)'
  <1>0. /\ TypesInv /\ Caller(x) /\ call[x] \in Seq(CallRecs) /\ tcb \in [Tasks -> TCBs]
        /\ \A s \in Tasks : Links(s)
    BY DEF ChainInv, TypesInv, AwaitIInv
  <1>1. CASE call[x] = <<>>
    <2>1. ASSUME NEW t \in Tasks, RequestCancel(x, t) PROVE Stack(x)'
      <3>1. call'[x] = <<NewCall(t)>> /\ HasHandle(t)
        BY <2>1 DEF RequestCancel, ChainInv, TypesInv
      <3>2. Len(call'[x]) = 1 /\ call'[x][1].task = t /\ call'[x][1].phase = "flags"
        BY <3>1 DEF NewCall
      <3> QED BY <3>1, <3>2 DEF Stack, HasHandle
    <2>2. ASSUME call'[x] = <<>> PROVE Stack(x)'
      <3>1. Len(call'[x]) = 0
        BY <2>2
      <3> QED BY <3>1 DEF Stack
    <2>3. ~CancelStep(x)
      BY <1>1 DEF CancelStep, StoreCancelFlags, ClaimAwait, SnapshotChild, CancelArbiter,
         ColdCancel, ColdPublish, ColdCancelReturns, LoadGeneration, ClaimSuspended, Calls
    <2> QED BY <1>0, <1>1, <2>1, <2>2, <2>3, CallsTyped, OwnCalls
  <1>2. CASE call[x] # <<>>
    <2>0. cpu = x /\ Len(call[x]) \in Nat \ {0} /\ Top(x) = call[x][Len(call[x])]
          /\ Top(x).task \in Tasks
      BY <1>0, <1>2, TopIsCall, CallsTyped DEF Caller, Top
    <2>1. \A k \in 1 .. Len(call[x]) : call[x][k].task \in Tasks
      <3>1. \A k \in 1 .. Len(call[x]) : call[x][k] \in CallRecs
        <4> HIDE DEF CallRecs
        <4> QED BY <1>0
      <3> QED BY <3>1 DEF CallRecs
    <2>2. \A s \in Tasks : /\ frame'[s] = frame[s] /\ Child(s)' = Child(s)
                           /\ tcb[s].cancel_requested = 1 => tcb'[s].cancel_requested = 1
      BY <2>0, CoroutinesStay
    <2>3. ASSUME NEW k \in 1 .. Len(call[x]), call'[x][k].task = call[x][k].task,
                 k > 1 => call'[x][k - 1].task = call[x][k - 1].task,
                 call'[x][k].phase # "flags" =>
                   call[x][k].phase # "flags" \/ tcb'[call[x][k].task].cancel_requested = 1
          PROVE  LET s == call'[x][k].task IN
                 /\ k = 1 => HasHandle(s)
                 /\ call'[x][k].phase # "flags" => tcb'[s].cancel_requested = 1
                 /\ k > 1 => LET p == call'[x][k - 1].task IN
                               frame'[p].pc = "suspended" /\ Plan[p][frame'[p].next].child = s
      <3>1. call[x][k].task \in Tasks /\ (k > 1 => call[x][k - 1].task \in Tasks)
        BY <2>0, <2>1
      <3>2. k = 1 => HasHandle(call'[x][k].task)
        BY <2>3 DEF Stack, HasHandle
      <3>3. call'[x][k].phase # "flags" => tcb'[call'[x][k].task].cancel_requested = 1
        BY <2>2, <2>3, <3>1 DEF Stack
      <3>4. k > 1 => LET p == call'[x][k - 1].task IN
                       frame'[p].pc = "suspended"
                       /\ Plan[p][frame'[p].next].child = call'[x][k].task
        <4> SUFFICES ASSUME k > 1, NEW p, p = call[x][k - 1].task
                     PROVE  /\ frame'[p].pc = "suspended"
                            /\ Plan[p][frame'[p].next].child = call[x][k].task
          BY <2>3
        <4>1. frame[p].pc = "suspended" /\ Child(p) = call[x][k].task
          BY DEF Stack
        <4> QED BY <2>2, <3>1, <4>1 DEF Child
      <3> QED BY <3>2, <3>3, <3>4
    <2>4. ASSUME Len(call'[x]) \in Nat, Len(call'[x]) <= Len(call[x]),
                 \A k \in 1 .. Len(call'[x]) :
                   /\ call'[x][k].task = call[x][k].task
                   /\ call'[x][k].phase # "flags" =>
                        call[x][k].phase # "flags" \/ tcb'[call[x][k].task].cancel_requested = 1
          PROVE  Stack(x)'
      <3>1. ASSUME NEW k \in 1 .. Len(call'[x])
            PROVE  LET s == call'[x][k].task IN
                 /\ k = 1 => HasHandle(s)
                 /\ call'[x][k].phase # "flags" => tcb'[s].cancel_requested = 1
                 /\ k > 1 => LET p == call'[x][k - 1].task IN
                               frame'[p].pc = "suspended" /\ Plan[p][frame'[p].next].child = s
        <4>1. k \in 1 .. Len(call[x]) /\ (k > 1 => k - 1 \in 1 .. Len(call'[x]))
          BY <2>0, <2>4
        <4> QED BY <2>3, <2>4, <4>1
      <3> QED BY <3>1 DEF Stack, Child, HasHandle
    <2>5. ASSUME Len(call'[x]) = Len(call[x]),
                 \A k \in 1 .. Len(call[x]) : k # Len(call[x]) => call'[x][k] = call[x][k],
                 call'[x][Len(call[x])].task = Top(x).task,
                 Top(x).phase # "flags" \/ tcb'[Top(x).task].cancel_requested = 1
          PROVE  Stack(x)'
      BY <2>0, <2>4, <2>5
    <2>6. ASSUME Return(x) PROVE Stack(x)'
      BY <1>0, <1>2, <2>0, <2>4, <2>6, TopReturned, CallsTyped DEF Return
    <2>7. CASE call'[x] = call[x]
      BY <2>0, <2>4, <2>7
    <2>8. CASE StoreCancelFlags(x)
      <3>1. CallGoto(x, "claim") /\ "claim" \in CallPhases
            /\ tcb' = [tcb EXCEPT ![Top(x).task].cancel_requested = 1,
                                  ![Top(x).task].cancel_handled = 0]
        BY <2>8 DEF StoreCancelFlags, CallPhases
      <3>2. tcb'[Top(x).task].cancel_requested = 1
        BY <1>0, <2>0, <3>1 DEF TCBs
      <3>3. /\ Len(call'[x]) = Len(call[x])
            /\ \A k \in 1 .. Len(call[x]) : k # Len(call[x]) => call'[x][k] = call[x][k]
            /\ call'[x][Len(call[x])].task = Top(x).task
        BY <1>0, <1>2, <3>1, TopGoes, CallsTyped
      <3> QED BY <2>5, <3>2, <3>3
    <2>9. CASE ClaimAwait(x)
      <3>1. Top(x).phase # "flags"
        BY <2>9 DEF ClaimAwait, Calls
      <3>2. /\ Len(call'[x]) = Len(call[x])
            /\ \A k \in 1 .. Len(call[x]) : k # Len(call[x]) => call'[x][k] = call[x][k]
            /\ call'[x][Len(call[x])].task = Top(x).task
        BY <1>0, <1>2, <2>9, ClaimTop, CallsTyped
      <3> QED BY <2>5, <3>1, <3>2
    <2>10. ASSUME NEW phase \in CallPhases, CallGoto(x, phase), Top(x).phase # "flags"
           PROVE  Stack(x)'
      <3>1. /\ Len(call'[x]) = Len(call[x])
            /\ \A k \in 1 .. Len(call[x]) : k # Len(call[x]) => call'[x][k] = call[x][k]
            /\ call'[x][Len(call[x])].task = Top(x).task
        BY <1>0, <1>2, <2>10, TopGoes, CallsTyped
      <3> QED BY <2>5, <2>10, <3>1
    <2>11. CASE SnapshotChild(x)
      <3>0. Top(x).phase # "flags"
        BY <2>11 DEF SnapshotChild, Calls
      <3>1. CASE tcb[Top(x).task].active_child = None
        <4>1. CallGoto(x, "arbiter")
          BY <2>11, <3>1 DEF SnapshotChild, CallGoto
        <4> QED BY <2>10, <3>0, <4>1 DEF CallPhases
      <3>2. CASE tcb[Top(x).task].active_child # None
        <4>1. PICK p \in Tasks : p = Top(x).task
          BY <2>0
        <4>2. PICK c \in Tasks : c = tcb[p].active_child
          BY <1>0, <3>2, <4>1, Fields
        <4>3. frame[p].pc = "suspended" /\ Child(p) = c
          <5>1. frame[p].pc \in {"install", "suspended"} /\ Linked(p)
            BY <1>0, <3>2, <4>1 DEF Links
          <5>2. cpu # p /\ Where(p)
            BY <2>0, Names DEF ChainInv
          <5> QED BY <4>2, <5>1, <5>2 DEF Linked, Where
        <4>4. /\ Len(call'[x]) = Len(call[x]) + 1
              /\ \A k \in 1 .. Len(call[x]) : k # Len(call[x]) => call'[x][k] = call[x][k]
              /\ call'[x][Len(call[x])].task = p
              /\ call'[x][Len(call[x]) + 1].task = c
              /\ call'[x][Len(call[x]) + 1].phase = "flags"
          BY <1>0, <1>2, <2>11, <4>1, <4>2, SnapshotTop, CallsTyped
        <4>5. ASSUME NEW k \in 1 .. Len(call'[x])
              PROVE  LET s == call'[x][k].task IN
                 /\ k = 1 => HasHandle(s)
                 /\ call'[x][k].phase # "flags" => tcb'[s].cancel_requested = 1
                 /\ k > 1 => LET r == call'[x][k - 1].task IN
                               frame'[r].pc = "suspended" /\ Plan[r][frame'[r].next].child = s
          <5>1. CASE k = Len(call[x]) + 1
            <6>1. k # 1 /\ k - 1 = Len(call[x])
              BY <2>0, <5>1
            <6>2. call'[x][k].task = c /\ call'[x][k].phase = "flags" /\ call'[x][k - 1].task = p
              BY <4>4, <5>1, <6>1
            <6>3. frame'[p].pc = "suspended" /\ Plan[p][frame'[p].next].child = c
              BY <2>2, <4>3 DEF Child
            <6> QED BY <6>1, <6>2, <6>3
          <5>2. CASE k # Len(call[x]) + 1
            <6>1. k \in 1 .. Len(call[x])
              BY <2>0, <4>4, <5>2
            <6>2. call'[x][k].task = call[x][k].task
              BY <2>0, <4>1, <4>4, <6>1
            <6>3. k > 1 => call'[x][k - 1].task = call[x][k - 1].task
              BY <2>0, <4>1, <4>4, <6>1
            <6>4. call'[x][k].phase # "flags" =>
                    call[x][k].phase # "flags" \/ tcb'[call[x][k].task].cancel_requested = 1
              BY <2>0, <3>0, <4>4, <6>1
            <6> QED BY <2>3, <6>1, <6>2, <6>3, <6>4
          <5> QED BY <5>1, <5>2
        <4> QED BY <4>5 DEF Stack, Child, HasHandle
      <3> QED BY <3>1, <3>2
    <2>12. CASE CancelArbiter(x) \/ ColdCancel(x) \/ ColdPublish(x) \/ ColdCancelReturns(x)
      <3>1. Top(x).phase # "flags"
        BY <2>12 DEF CancelArbiter, ColdCancel, ColdPublish, ColdCancelReturns, Calls
      <3>2. Return(x) \/ \E phase \in CallPhases : CallGoto(x, phase)
        BY <2>12 DEF CancelArbiter, ColdCancel, ColdPublish, ColdCancelReturns, CallPhases
      <3> QED BY <2>6, <2>10, <3>1, <3>2
    <2>13. ~\E t \in Tasks : RequestCancel(x, t)
      BY <1>2 DEF RequestCancel
    <2> QED BY <1>0, <2>7, <2>8, <2>9, <2>11, <2>12, <2>13, CallsTyped, OwnCalls, NoLostSuspension
          DEF CancelStep
  <1> QED BY <1>1, <1>2

\* A drain's child that is not awaited yet: nobody can have asked for its
\* cancellation, and it has not run.
BarrierFresh(t) ==
    \A i \in DOMAIN Plan[t] : LET c == Plan[t][i].child IN
        Plan[t][i].kind = "barrier" /\ (Ahead(t, i) \/ Starting(t, i)) =>
            tcb[c].cancel_requested = 0 /\ tcb[c].state \in {"Created", "Queued"}

\* No canceller is at such a child: nobody has a handle of it, and nobody awaits it.
LEMMA NoCanceller ==
    ASSUME AwaitedOnce, ChainInv, NEW x \in Callers, Stack(x), call[x] # <<>>,
           NEW t \in Tasks, NEW i \in DOMAIN Plan[t], Plan[t][i].kind = "barrier",
           Ahead(t, i) \/ Starting(t, i)
    PROVE  Top(x).task # Plan[t][i].child
  <1> SUFFICES ASSUME Top(x).task = Plan[t][i].child PROVE FALSE
    OBVIOUS
  <1>0. /\ TypesInv /\ AwaitIInv /\ call[x] \in Seq(CallRecs)
    BY DEF ChainInv, TypesInv
  <1>1. Len(call[x]) \in Nat \ {0} /\ Len(call[x]) \in 1 .. Len(call[x])
    BY <1>0, TopIsCall, CallsTyped
  <1>2. ~HasHandle(Plan[t][i].child)
    BY DEF HasHandle
  <1>3. Len(call[x]) > 1
    BY <1>1, <1>2 DEF Stack, Top
  <1>4. PICK p : p = call[x][Len(call[x]) - 1].task
    OBVIOUS
  <1>5. p \in Tasks
    <2>1. call[x][Len(call[x]) - 1] \in CallRecs
      <3> HIDE DEF CallRecs
      <3> QED BY <1>0, <1>1, <1>3
    <2> QED BY <1>4, <2>1 DEF CallRecs
  <1>6. frame[p].pc = "suspended" /\ Child(p) = Plan[t][i].child
    BY <1>1, <1>3, <1>4 DEF Stack, Top
  <1>7. frame[p].next \in DOMAIN Plan[p]
    BY <1>0, <1>5, <1>6, ChildOf DEF InAwait
  <1>8. p = t /\ i = frame[t].next
    BY <1>5, <1>6, <1>7 DEF AwaitedOnce, Child
  <1>9. frame[t].next \in Nat
    BY <1>0, Fields
  <1> QED BY <1>6, <1>8, <1>9 DEF Ahead, Starting

\* Every step keeps it so.
LEMMA BarrierFreshStep ==
    ASSUME OnExecutor, AwaitedOnce, ChainInv, [Next]_vars, NEW t \in Tasks,
           \A s \in Tasks : Fresh(s), \A x \in Callers : Stack(x), BarrierFresh(t)
    PROVE  BarrierFresh(t)'
  <1>0. /\ TypesInv /\ AwaitIInv /\ \A s \in Tasks : Where(s) /\ Fresh(s)
    BY DEF ChainInv, TypesInv, AwaitIInv
  <1> SUFFICES ASSUME NEW i \in DOMAIN Plan[t], Plan[t][i].kind = "barrier",
                      Ahead(t, i)' \/ Starting(t, i)', NEW c, c = Plan[t][i].child
               PROVE  tcb'[c].cancel_requested = 0 /\ tcb'[c].state \in {"Created", "Queued"}
    BY DEF BarrierFresh
  <1>c. c \in Tasks /\ i \in 1..Len(Plan[t])
    BY PlanFacts
  <1>n. frame[t].next \in Nat \ {0}
    BY <1>0, Fields
  <1>1. Ahead(t, i) \/ Starting(t, i)
    <2>1. CASE Moves(t)
      BY <1>n, <1>c, <2>1 DEF Moves, Ahead, Starting, IsLeaf
    <2>2. CASE Resumes(t)
      <3>1. frame[t].pc # "waiting"
        BY <1>0, <1>c DEF Fresh, IsLeaf
      <3> QED BY <1>n, <2>2, <3>1 DEF Resumes, Ahead, Starting
    <2>3. CASE Stays(t)
      BY <2>3 DEF Stays, Ahead, Starting
    <2> QED BY <2>1, <2>2, <2>3, StepMoves
  <1>2. tcb[c].cancel_requested = 0 /\ tcb[c].state \in {"Created", "Queued"}
    BY <1>1 DEF BarrierFresh
  <1>3. cpu # c
    BY <1>0, <1>2, <1>c DEF Where, Terminal
  <1>4. ~Resumes(c)
    <2>1. CASE Ahead(t, i)
      BY <1>0, <1>2, <2>1 DEF Fresh, Resumes, Terminal
    <2>2. CASE Starting(t, i)
      <3>1. cpu = t
        BY <1>0, <2>2 DEF Starting, Where
      <3> QED BY <3>1, Names DEF Resumes
    <2> QED BY <1>1, <2>1, <2>2
  <1>5. Stays(c) /\ Flagged(c)
    BY <1>3, <1>4, <1>c, StepMoves, StepWrites DEF Moves
  <1>6. ~(cpu \in Callers /\ call[cpu] # <<>> /\ Top(cpu).task = c)
    BY <1>1, NoCanceller
  <1>7. ~AwaitCaught(c)
    BY <1>3 DEF AwaitCaught, Runs
  <1>8. tcb'[c].cancel_requested = 0
    BY <1>2, <1>5, <1>6, <1>7 DEF Flagged
  <1>9. tcb'[c].state \in {"Created", "Queued"}
    BY <1>2, <1>3, <1>5, <1>6 DEF Stays
  <1> QED BY <1>8, <1>9

-----------------------------------------------------------------------------
(* How an await ends.                                                      *)

\* The resolution is never left pending, a drain is not cut short, and an await
\* that takes the normal branch finds its child at the end of its publication,
\* with a live result unless it is a drain.
Outcome(t) ==
    LET pc == frame[t].pc
        c == Child(t)
    IN  /\ pc # "sample"
        /\ pc = "canceled" => Kind(t) # "barrier"
        /\ pc = "ready" => /\ pub[c].phase = "end"
                           /\ Kind(t) # "barrier" => promise[c].result = "ReadyLive"

\* At the entry of an await, by the result of a child that has not run.
LEMMA EntryOutcome ==
    ASSUME ChainInv, NEW t \in Tasks, Fresh(t), BarrierFresh(t), AwaitEntry(t)
    PROVE  Outcome(t)'
  <1>0. /\ TypesInv /\ AwaitIInv /\ frame \in [Tasks -> Frames] /\ frame[t].pc = "entry"
    BY DEF ChainInv, TypesInv, AwaitIInv, AwaitEntry, Runs
  <1>1. frame[t].next \in DOMAIN Plan[t] /\ Child(t) \in Tasks
    BY <1>0, ChildOf DEF InAwait
  <1>c. PICK c \in Tasks : c = Child(t)
    BY <1>1
  <1>2. Starting(t, frame[t].next) /\ Plan[t][frame[t].next].child = c
    BY <1>0, <1>c DEF Starting, Child
  <1>3. frame[c].pc = "body" /\ Ends(c)
    BY <1>1, <1>2 DEF Fresh, ChainInv
  <1>4. promise[c].result # "ReadyLive"
    BY <1>3 DEF Ends
  <1>5. Kind(t) = "barrier" => promise[c].result # "Canceled"
    <2> SUFFICES ASSUME Kind(t) = "barrier", promise[c].result = "Canceled" PROVE FALSE
      OBVIOUS
    <2>1. tcb[c].state \in {"Created", "Queued"}
      BY <1>1, <1>2 DEF BarrierFresh, Kind
    <2> QED BY <1>3, <2>1 DEF Ends, Terminal
  <1>6. PICK p \in {"prepare", "canceled"} : Goto(t, p) /\ (p = "canceled" => Kind(t) # "barrier")
    BY <1>4, <1>5, <1>c DEF AwaitEntry, EntryCancels
  <1>7. frame'[t].pc = p /\ frame'[t].next = frame[t].next
    BY <1>0, <1>6 DEF Goto, Frames
  <1> QED BY <1>6, <1>7 DEF Outcome, Kind

\* When the await is resolved, by its word: a normal end has still to be claimed.
LEMMA ResolveOutcome ==
    ASSUME ChainInv, NEW t \in Tasks, Word(t), Resolve(t)
    PROVE  Outcome(t)'
  <1>0. /\ TypesInv /\ AwaitIInv /\ frame \in [Tasks -> Frames] /\ frame[t].pc \in {"post", "resume"}
    BY DEF ChainInv, TypesInv, AwaitIInv, Resolve, Runs
  <1>c. PICK c \in Tasks : c = Child(t)
    BY <1>0, ChildOf DEF InAwait
  <1>1. pub[c].phase = "end"
    BY <1>0, <1>c DEF ChainInv, Link
  <1>2. tcb[t].resolution \in {"CancelClaimed", "ChildNormal", "ChildCanceled"}
    BY <1>0, <1>1, <1>c DEF Word
  <1>3. Kind(t) = "barrier" => Resolved(t) = "ready"
    BY <1>2 DEF Resolved, Resolution, ResolvedBarrier
  <1>4. Kind(t) # "barrier" => Resolved(t) \in {"canceled", "claim"}
    BY <1>2 DEF Resolved, Resolution, ResolvedWord
  <1>5. pub' = pub /\ promise' = promise
    BY DEF Resolve
  <1>6. PICK p \in {"ready", "canceled", "claim"} :
          /\ Goto(t, p)
          /\ p = "canceled" => Kind(t) # "barrier"
          /\ p = "ready" => Kind(t) = "barrier"
    BY <1>3, <1>4 DEF Resolve
  <1>7. frame'[t].pc = p /\ frame'[t].next = frame[t].next
    BY <1>0, <1>6 DEF Goto, Frames
  <1>8. Child(t)' = c /\ Kind(t)' = Kind(t)
    BY <1>7, <1>c DEF Child, Kind
  <1> QED BY <1>1, <1>5, <1>6, <1>7, <1>8 DEF Outcome

\* When a normal end is claimed, the child has a live result.
LEMMA ClaimOutcome ==
    ASSUME ChainInv, NEW t \in Tasks, Word(t), ClaimNormal(t)
    PROVE  Outcome(t)'
  <1>0. /\ TypesInv /\ AwaitIInv /\ frame \in [Tasks -> Frames] /\ frame[t].pc = "claim"
    BY DEF ChainInv, TypesInv, AwaitIInv, ClaimNormal, Runs
  <1>c. PICK c \in Tasks : c = Child(t)
    BY <1>0, ChildOf DEF InAwait
  <1>1. pub[c].phase = "end"
    BY <1>0, <1>c DEF ChainInv, Link
  <1>2. tcb[t].resolution = "ChildNormal" => promise[c].result = "ReadyLive"
    BY <1>0, <1>1, <1>c DEF Word
  <1>3. pub' = pub /\ promise' = promise
    BY DEF ClaimNormal
  <1>4. PICK p \in {"ready", "post"} :
          Goto(t, p) /\ (p = "ready" => tcb[t].resolution = "ChildNormal")
    BY DEF ClaimNormal
  <1>5. frame'[t].pc = p /\ frame'[t].next = frame[t].next
    BY <1>0, <1>4 DEF Goto, Frames
  <1>6. Child(t)' = c
    BY <1>5, <1>c DEF Child
  <1> QED BY <1>1, <1>2, <1>3, <1>4, <1>5, <1>6 DEF Outcome

\* Every step.
LEMMA OutcomeStep ==
    ASSUME OnExecutor, AwaitedOnce, ChainInv, [Next]_vars, NEW t \in Tasks,
           Fresh(t), BarrierFresh(t), Word(t), Outcome(t)
    PROVE  Outcome(t)'
  <1>0. TypesInv /\ AwaitIInv
    BY DEF ChainInv, TypesInv
  <1> SUFFICES ASSUME frame'[t].pc \in {"sample", "canceled", "ready"} PROVE Outcome(t)'
    BY DEF Outcome
  <1>1. CASE Moves(t)
    <2>1. frame[t].pc \in {"entry", "post", "resume", "claim"} /\ CoroutineStep(t)
      BY <1>1 DEF Moves, Outcome
    <2>2. AwaitEntry(t) \/ Resolve(t) \/ ClaimNormal(t)
      BY <2>1 DEF CoroutineStep, Runs, AwaitStart, AwaitPrepare,
         InstallContinuation, ContinuationTaken, ClearAwaitLink, StoreRunning,
         Sample, AwaitCaught, AwaitUnwinds, DrainUnwinds, TakeResult, LeafSleep,
         Complete, LeafUnwinds, CoroutineEnds
    <2> QED BY <2>2, EntryOutcome, ResolveOutcome, ClaimOutcome
  <1>2. CASE Resumes(t)
    BY <1>2 DEF Resumes
  <1>3. CASE Stays(t)
    <2>1. frame'[t] = frame[t] /\ Child(t)' = Child(t) /\ Kind(t)' = Kind(t)
      BY <1>3 DEF Stays, Child, Kind
    <2>2. CASE frame[t].pc = "ready"
      <3>c. PICK c \in Tasks : c = Child(t)
        BY <1>0, <2>2, ChildOf DEF InAwait
      <3>1. pub[c].phase = "end" /\ Published(c)
        BY <2>2, <3>c, StepPublishes DEF Outcome
      <3>2. pub'[c].phase = "end" /\ promise'[c].result = promise[c].result
        BY <3>1 DEF Published
      <3> QED BY <2>1, <2>2, <3>2, <3>c DEF Outcome
    <2>3. CASE frame[t].pc # "ready"
      BY <2>1, <2>3 DEF Outcome
    <2> QED BY <2>2, <2>3
  <1> QED BY <1>1, <1>2, <1>3, StepMoves

-----------------------------------------------------------------------------
(* A drain whose child was cancelled finds its own task cancelled.         *)

\* The hypothesis of the drains: a task drains before it catches anything, and the
\* task a drain awaits awaits by drains alone (join_scoped awaits join_async).
DrainPlan ==
    \A t \in Tasks : \A i \in DOMAIN Plan[t] : Plan[t][i].kind = "barrier" =>
        /\ \A j \in DOMAIN Plan[t] : j < i => Plan[t][j].kind # "catch"
        /\ \A j \in DOMAIN Plan[Plan[t][i].child] : Plan[Plan[t][i].child][j].kind = "barrier"

\* A cancellation is handled by a `.await?` of the past.
Caught(t) ==
    tcb[t].cancel_handled = 1 =>
        \E i \in DOMAIN Plan[t] : i < frame[t].next /\ Plan[t][i].kind = "catch"

\* The child of a drain is cancelled through the task that drains.
Drained(t) ==
    LET c == Child(t)
    IN  frame[t].pc \in {"suspended", "post", "resume", "claim", "ready"} /\ Kind(t) = "barrier" =>
          /\ tcb[c].cancel_requested = 1 => tcb[t].cancel_requested = 1
          /\ promise[c].result = "Canceled" => \E s \in Lineage(t) : tcb[s].cancel_requested = 1

\* Every step.
LEMMA CaughtStep ==
    ASSUME OnExecutor, AwaitedOnce, ChainInv, [Next]_vars, NEW t \in Tasks, Caught(t)
    PROVE  Caught(t)'
  <1>0. TypesInv /\ AwaitIInv /\ frame \in [Tasks -> Frames] /\ frame[t].next \in Nat \ {0}
    BY Fields DEF ChainInv, TypesInv, AwaitIInv
  <1> SUFFICES ASSUME tcb'[t].cancel_handled = 1
               PROVE  \E i \in DOMAIN Plan[t] : i < frame'[t].next /\ Plan[t][i].kind = "catch"
    BY DEF Caught
  <1>p. DOMAIN Plan[t] = 1..Len(Plan[t]) /\ Len(Plan[t]) \in Nat
    BY PlanFacts
  <1>1. CASE AwaitCaught(t)
    <2>1. frame[t].next \in DOMAIN Plan[t] /\ Plan[t][frame[t].next].kind = "catch"
      BY <1>0, <1>1, ChildOf DEF AwaitCaught, Runs, InAwait, Kind
    <2>2. frame'[t].next = frame[t].next + 1
      BY <1>0, <1>1 DEF AwaitCaught, Frames
    <2> QED BY <1>0, <2>1, <2>2
  <1>2. CASE tcb[t].cancel_handled = 1
    <2>1. PICK i \in DOMAIN Plan[t] : i < frame[t].next /\ Plan[t][i].kind = "catch"
      BY <1>2 DEF Caught
    <2>2. frame'[t].next \in {frame[t].next, frame[t].next + 1}
      <3>1. ~IsLeaf(t)
        BY <2>1 DEF IsLeaf
      <3> QED BY <3>1, StepMoves DEF Moves, Resumes, Stays
    <2>3. i < frame'[t].next
      BY <1>0, <1>p, <2>1, <2>2
    <2> QED BY <2>1, <2>3
  <1>3. Flagged(t)
    BY StepWrites
  <1> QED BY <1>1, <1>2, <1>3 DEF Flagged

\* A request that reaches the child of a drain comes from the call for its awaiter.
LEMMA DrainedBelow ==
    ASSUME AwaitedOnce, ChainInv, NEW x \in Callers, Stack(x), call[x] # <<>>,
           NEW t \in Tasks, frame[t].pc \in {"suspended", "post", "resume", "claim", "ready"}, Kind(t) = "barrier",
           Top(x).task = Child(t)
    PROVE  tcb[t].cancel_requested = 1
  <1>0. /\ TypesInv /\ AwaitIInv /\ call[x] \in Seq(CallRecs) /\ Caller(x)
    BY DEF ChainInv, TypesInv
  <1>1. Len(call[x]) \in Nat \ {0} /\ Len(call[x]) \in 1 .. Len(call[x])
    BY <1>0, TopIsCall, CallsTyped
  <1>2. ~HasHandle(Child(t))
    BY <1>0, ChildOf DEF HasHandle, Child, Kind, InAwait
  <1>3. Len(call[x]) > 1
    BY <1>1, <1>2 DEF Stack, Top
  <1>k. PICK k \in 1 .. Len(call[x]) : k = Len(call[x]) - 1
    <2>1. Len(call[x]) - 1 \in 1 .. Len(call[x])
      BY <1>1, <1>3
    <2> QED BY <2>1
  <1>4. PICK p : p = call[x][k].task
    OBVIOUS
  <1>5. p \in Tasks
    <2>1. call[x][k] \in CallRecs
      <3> HIDE DEF CallRecs
      <3> QED BY <1>0
    <2> QED BY <1>4, <2>1 DEF CallRecs
  <1>6. frame[p].pc = "suspended" /\ Child(p) = Child(t)
    BY <1>1, <1>3, <1>4, <1>k DEF Stack, Top
  <1>7. p = t
    BY <1>0, <1>5, <1>6, OneAwaiter DEF InAwait
  <1>8. call[x][k].phase = "arbiter"
    BY <1>0, <1>1, <1>k DEF Caller
  <1> QED BY <1>4, <1>7, <1>8, <1>k DEF Stack

\* The tasks above a child are the child and those above its awaiter.
LEMMA LineageBelow ==
    ASSUME TypesInv, NEW t \in Tasks, NEW c \in Tasks, tcb[c].parent_tcb = t
    PROVE  Lineage(c) \subseteq {c} \cup Lineage(t)
  <1>1. t \in Lineage(t) /\ Lineage(t) \in SUBSET Tasks /\ Closed(Lineage(t))
    BY LineageClosed
  <1>2. PICK S : S = {c} \cup Lineage(t)
    OBVIOUS
  <1>3. S \in SUBSET Tasks /\ c \in S /\ Closed(S)
    BY <1>1, <1>2 DEF Closed
  <1> QED BY <1>2, <1>3, LineageClosed

\* An await that suspends, or finds its child ended, begins with a child that nobody
\* has cancelled.
LEMMA DrainBegins ==
    ASSUME OnExecutor, AwaitedOnce, ChainInv, [Next]_vars, NEW t \in Tasks, NEW c \in Tasks,
           Fresh(t), BarrierFresh(t), frame[t].pc \in {"entry", "install"},
           Kind(t) = "barrier", c = Child(t)
    PROVE  tcb'[c].cancel_requested = 0 /\ promise'[c].result # "Canceled"
  <1>0. TypesInv /\ AwaitIInv /\ Where(t) /\ Ends(c)
    BY DEF ChainInv, TypesInv
  <1>1. frame[t].next \in DOMAIN Plan[t]
    BY <1>0, ChildOf DEF InAwait
  <1>2. Starting(t, frame[t].next) /\ Plan[t][frame[t].next].child = c
        /\ Plan[t][frame[t].next].kind = "barrier"
    BY DEF Starting, Child, Kind
  <1>3. frame[c].pc = "body" /\ tcb[c].cancel_requested = 0 /\ tcb[c].state \in {"Created", "Queued"}
    BY <1>1, <1>2 DEF Fresh, BarrierFresh
  <1>4. cpu = t /\ cpu # c /\ cpu \notin Callers
    BY <1>0, <1>3, Names DEF Where
  <1>5. promise[c].result # "Canceled"
    BY <1>0, <1>3 DEF Ends, Terminal
  <1>6. ~AwaitCaught(c) /\ ~Unwinds(c)
    BY <1>4 DEF AwaitCaught, Unwinds, AwaitUnwinds, DrainUnwinds, LeafUnwinds, Runs
  <1>7. tcb'[c].cancel_requested = 0
    BY <1>3, <1>4, <1>6, StepWrites DEF Flagged
  <1>8. promise'[c].result # "Canceled"
    BY <1>3, <1>5, <1>6, StepPublishes DEF Published
  <1> QED BY <1>7, <1>8

\* The child of a drain unwinds only below a task that is cancelled.
LEMMA DrainCanceled ==
    ASSUME OnExecutor, AwaitedOnce, DrainPlan, ChainInv, [Next]_vars, NEW t \in Tasks,
           NEW c \in Tasks, c = Child(t), \A s \in Tasks : Outcome(s), Drained(t),
           frame[t].pc \in {"suspended", "post", "resume", "claim", "ready"}, Kind(t) = "barrier",
           promise'[c].result = "Canceled"
    PROVE  \E s \in Lineage(t) : tcb[s].cancel_requested = 1
  <1>0. TypesInv /\ AwaitIInv /\ Link(t) /\ Ends(c) /\ Outcome(t) /\ Outcome(c)
    BY DEF ChainInv, TypesInv
  <1>1. CASE promise[c].result = "Canceled"
    BY <1>1 DEF Drained
  <1>2. CASE promise[c].result # "Canceled"
    <2>1. pub[c].phase = "none" /\ (Unwinds(c) \/ tcb[c].state = "ColdFinalizing")
      BY <1>2, StepPublishes DEF Published
    <2>2. frame[t].pc = "suspended"
      BY <1>0, <2>1 DEF Link, Outcome
    <2>3. promise[c].continuation = t /\ tcb[c].parent_tcb = t
      BY <1>0, <2>1, <2>2 DEF Link, Linked
    <2>4. Unwinds(c)
      BY <1>0, <2>1, <2>3 DEF Ends
    <2>5. ~AwaitUnwinds(c)
      <3> SUFFICES ASSUME AwaitUnwinds(c) PROVE FALSE
        OBVIOUS
      <3>1. frame[c].pc = "canceled"
        BY DEF AwaitUnwinds, Runs
      <3>2. Kind(c) # "barrier" /\ frame[c].next \in DOMAIN Plan[c]
        BY <1>0, <3>1, ChildOf DEF Outcome, InAwait
      <3>3. frame[t].next \in DOMAIN Plan[t] /\ Plan[t][frame[t].next].kind = "barrier"
            /\ Plan[t][frame[t].next].child = c
        BY <1>0, ChildOf DEF InAwait, Kind, Child
      <3> QED BY <3>2, <3>3 DEF DrainPlan, Kind
    <2>6. PICK s \in Lineage(c) : tcb[s].cancel_requested = 1
      BY <2>4, <2>5 DEF Unwinds, DrainUnwinds, LeafUnwinds, IsCanceled
    <2>7. s = c \/ s \in Lineage(t)
      BY <1>0, <2>3, LineageBelow
    <2>8. t \in Lineage(t)
      BY <1>0, LineageClosed
    <2>9. CASE s = c
      <3>1. tcb[t].cancel_requested = 1
        BY <2>6, <2>9 DEF Drained
      <3> QED BY <2>8, <3>1
    <2> QED BY <2>6, <2>7, <2>9
  <1> QED BY <1>1, <1>2

\* Every step.
LEMMA DrainedStep ==
    ASSUME OnExecutor, AwaitedOnce, DrainPlan, ChainInv, ChainInv', [Next]_vars, NEW t \in Tasks,
           \A s \in Tasks : Fresh(s) /\ Outcome(s), \A x \in Callers : Stack(x),
           BarrierFresh(t), Drained(t)
    PROVE  Drained(t)'
  <1>0. TypesInv /\ AwaitIInv /\ Fresh(t)
    BY DEF ChainInv, TypesInv
  <1> SUFFICES ASSUME frame'[t].pc \in {"suspended", "post", "resume", "claim", "ready"}, Kind(t)' = "barrier"
               PROVE  Drained(t)'
    BY DEF Drained
  <1>1. frame'[t].next = frame[t].next
        /\ frame[t].pc \in {"entry", "install", "suspended", "post", "resume", "claim",
                            "ready", "sample"}
    BY StepMoves DEF Moves, Resumes, Stays
  <1>2. Child(t)' = Child(t) /\ Kind(t) = "barrier" /\ frame[t].pc # "sample"
    BY <1>1 DEF Child, Kind, Outcome
  <1>c. PICK c \in Tasks : c = Child(t)
    BY <1>0, <1>1, ChildOf DEF InAwait
  <1>3. CASE frame[t].pc \in {"entry", "install"}
    <2>1. tcb'[c].cancel_requested = 0 /\ promise'[c].result # "Canceled"
      BY <1>0, <1>2, <1>3, <1>c, DrainBegins
    <2> QED BY <1>2, <1>c, <2>1 DEF Drained
  <1>4. CASE frame[t].pc \notin {"entry", "install"}
    <2>0. frame[t].pc \in {"suspended", "post", "resume", "claim", "ready"}
      BY <1>1, <1>2, <1>4
    <2>1. ASSUME NEW s \in Lineage(t), tcb[s].cancel_requested = 1
          PROVE  tcb'[s].cancel_requested = 1
      <3>1. s \in Tasks /\ frame[s].pc # "canceled"
        <4>1. CASE s = t
          BY <2>0, <4>1
        <4>2. CASE s # t
          BY <4>2, LineageAwaits
        <4> QED BY <4>1, <4>2
      <3>2. Flagged(s) /\ ~AwaitCaught(s)
        BY <3>1, StepWrites DEF AwaitCaught, Runs
      <3> QED BY <2>1, <3>2 DEF Flagged
    <2>2. t \in Lineage(t) /\ Lineage(t)' = Lineage(t)
      BY <1>0, <2>0, LineageClosed, LineageStays
    <2>3. tcb'[c].cancel_requested = 1 => tcb[t].cancel_requested = 1
      <3> SUFFICES ASSUME tcb'[c].cancel_requested = 1 PROVE tcb[t].cancel_requested = 1
        OBVIOUS
      <3>1. tcb[c].cancel_requested = 1 \/ (cpu \in Callers /\ call[cpu] # <<>> /\ Top(cpu).task = c)
        BY StepWrites DEF Flagged
      <3>2. CASE tcb[c].cancel_requested = 1
        BY <1>2, <1>c, <2>0, <3>2 DEF Drained
      <3>3. CASE cpu \in Callers /\ call[cpu] # <<>> /\ Top(cpu).task = c
        BY <1>2, <1>c, <2>0, <3>3, DrainedBelow
      <3> QED BY <3>1, <3>2, <3>3
    <2>4. tcb'[c].cancel_requested = 1 => tcb'[t].cancel_requested = 1
      BY <2>1, <2>2, <2>3
    <2>5. promise'[c].result = "Canceled" => \E s \in Lineage(t) : tcb[s].cancel_requested = 1
      BY <1>2, <1>c, <2>0, DrainCanceled
    <2>6. promise'[c].result = "Canceled" => \E s \in Lineage(t)' : tcb'[s].cancel_requested = 1
      BY <2>1, <2>2, <2>5
    <2> QED BY <1>2, <1>c, <2>4, <2>6 DEF Drained
  <1> QED BY <1>3, <1>4

-----------------------------------------------------------------------------
(* An await that takes the normal branch finds a live result.              *)

TrapInv ==
    /\ ChainInv
    /\ \A t \in Tasks : /\ Fresh(t) /\ BarrierFresh(t) /\ Word(t) /\ Outcome(t)
                        /\ Caught(t) /\ Drained(t) /\ frame[t].pc # "trap"
    /\ \A x \in Callers : Stack(x)

\* The result is there when it is taken.
LEMMA ResultIsThere ==
    ASSUME DrainPlan, TrapInv, NEW t \in Tasks, TakeResult(t)
    PROVE  HasResult(Child(t))
  <1>0. /\ ChainInv /\ TypesInv /\ AwaitIInv /\ Outcome(t) /\ Caught(t) /\ Drained(t)
        /\ frame[t].pc = "ready" /\ ~(Kind(t) = "barrier" /\ IsCanceled(t))
    BY DEF TrapInv, ChainInv, TypesInv, TakeResult, Runs
  <1>1. frame[t].next \in DOMAIN Plan[t] /\ Child(t) \in Tasks
    BY <1>0, ChildOf DEF InAwait
  <1>c. PICK c \in Tasks : c = Child(t)
    BY <1>1
  <1>2. Ends(c) /\ pub[c].phase = "end" /\ promise[c].result \in {"Pending", "ReadyLive", "Canceled"}
    <2>1. promise[c] \in Promises
      BY <1>0 DEF TypesInv
    <2> QED BY <1>0, <1>c, <2>1 DEF Outcome, ChainInv, Promises
  <1>3. tcb[c].state \in Terminal /\ promise[c].result # "Pending"
    BY <1>2 DEF Ends
  <1>4. promise[c].result # "Canceled"
    <2>1. CASE Kind(t) # "barrier"
      BY <1>0, <1>c, <2>1 DEF Outcome
    <2>2. CASE Kind(t) = "barrier"
      <3>1. tcb[t].cancel_handled # 1
        BY <1>0, <1>1, <2>2 DEF Caught, DrainPlan, Kind
      <3>2. tcb[t].cancel_handled \in {0, 1}
        <4>1. tcb[t] \in TCBs
          BY <1>0 DEF AwaitIInv
        <4> QED BY <4>1 DEF TCBs
      <3>3. ~\E s \in Lineage(t) : tcb[s].cancel_requested = 1
        BY <1>0, <2>2, <3>1, <3>2 DEF IsCanceled
      <3> QED BY <1>0, <1>c, <2>2, <3>3 DEF Drained
    <2> QED BY <2>1, <2>2
  <1> QED BY <1>2, <1>3, <1>4, <1>c DEF Ends, Terminal, HasResult

\* Every step.
LEMMA TrapStep ==
    ASSUME OnExecutor, AwaitedOnce, DrainPlan, TrapInv, [Next]_vars
    PROVE  TrapInv'
  <1>0. ChainInv /\ ChainInv'
    BY ChainStep DEF TrapInv
  <1>1. ASSUME NEW t \in Tasks
        PROVE  /\ Fresh(t)' /\ BarrierFresh(t)' /\ Word(t)' /\ Outcome(t)'
               /\ Caught(t)' /\ Drained(t)'
    <2>0. /\ \A s \in Tasks : Fresh(s) /\ Outcome(s)
          /\ \A x \in Callers : Stack(x)
          /\ BarrierFresh(t) /\ Word(t) /\ Caught(t) /\ Drained(t)
      BY DEF TrapInv
    <2>1. Fresh(t)'
      BY <1>0, <2>0, FreshStep
    <2>2. BarrierFresh(t)'
      BY <1>0, <2>0, BarrierFreshStep
    <2>3. Word(t)' /\ Outcome(t)' /\ Caught(t)'
      BY <1>0, <2>0, WordStep, OutcomeStep, CaughtStep
    <2>4. Drained(t)'
      BY <1>0, <2>0, DrainedStep
    <2> QED BY <2>1, <2>2, <2>3, <2>4
  <1>2. ASSUME NEW x \in Callers PROVE Stack(x)'
    BY <1>0, StackStep DEF TrapInv
  <1>3. ASSUME NEW t \in Tasks, frame'[t].pc = "trap" PROVE FALSE
    <2>1. frame[t].pc = "ready" /\ CoroutineStep(t)
      <3>1. frame[t].pc # "trap"
        BY DEF TrapInv
      <3> QED BY <1>0, <1>3, <3>1, StepMoves DEF Moves, Resumes, Stays
    <2>2. TakeResult(t) \/ DrainUnwinds(t)
      BY <2>1 DEF CoroutineStep, Runs, AwaitStart, AwaitEntry, AwaitPrepare,
         InstallContinuation, ContinuationTaken, ClearAwaitLink, StoreRunning, Resolve, ClaimNormal,
         Sample, AwaitCaught, AwaitUnwinds, LeafSleep,
         Complete, LeafUnwinds, CoroutineEnds
    <2>3. frame \in [Tasks -> Frames]
      BY <1>0 DEF ChainInv, TypesInv, AwaitIInv
    <2>4. CASE TakeResult(t)
      <3>1. frame' = [frame EXCEPT ![t].pc = "body", ![t].next = @ + 1]
        BY <2>4, ResultIsThere DEF TakeResult
      <3> QED BY <1>3, <2>3, <3>1 DEF Frames
    <2>5. CASE DrainUnwinds(t)
      BY <1>3, <2>3, <2>5 DEF DrainUnwinds, Goto, Frames
    <2> QED BY <2>2, <2>4, <2>5
  <1> QED BY <1>0, <1>1, <1>2, <1>3 DEF TrapInv

\* An await that takes the normal branch finds a live result, so the trap of
\* await.result.access.failed is never executed: on the executor's thread, for
\* every set of tasks, every tree of awaits in which no task drains after it caught
\* a cancellation, and any number of cancellations.
THEOREM NoTrapHolds ==
    ASSUME OnExecutor, AwaitedOnce, DrainPlan
    PROVE  Spec => []NoTrap
  <1>1. ASSUME Init PROVE TrapInv
    <2>1. /\ \A t \in Tasks : /\ frame[t].pc = "body" /\ frame[t].next = 1
                              /\ tcb[t].cancel_requested = 0 /\ tcb[t].cancel_handled = 0
                              /\ (t \notin Roots => tcb[t].state = "Created")
          /\ \A x \in Callers : Len(call[x]) = 0
      BY <1>1 DEF Init
    <2>2. ASSUME NEW t \in Tasks
          PROVE  /\ Fresh(t) /\ BarrierFresh(t) /\ Word(t) /\ Outcome(t)
                 /\ Caught(t) /\ Drained(t) /\ frame[t].pc # "trap"
      BY <2>1, PlanFacts DEF Fresh, BarrierFresh, Word, Outcome, Caught, Drained
    <2>3. \A x \in Callers : Stack(x)
      BY <2>1 DEF Stack
    <2> QED BY <1>1, <2>2, <2>3, ChainInit DEF TrapInv
  <1>2. ASSUME TrapInv, [Next]_vars PROVE TrapInv'
    BY <1>2, TrapStep
  <1>3. TrapInv => NoTrap
    BY DEF TrapInv, NoTrap
  <1> QED BY <1>1, <1>2, <1>3, PTL DEF Spec

-----------------------------------------------------------------------------
(* Cancellation against the child's value, with any callers of             *)
(* request_cancel.                                                         *)

\* The call stacks stay typed.
LEMMA CallTypesStep ==
    ASSUME AwaitIInv, CallTypes, [Next]_vars
    PROVE  CallTypes'
  <1>0. call \in [Callers -> Seq(CallRecs)] /\ tcb \in [Tasks -> TCBs]
    BY DEF CallTypes, AwaitIInv
  <1>1. CASE UNCHANGED vars
    BY <1>1 DEF vars, CallTypes
  <1>2. ASSUME NEW e \in ready, PopReady(e) PROVE CallTypes'
    BY <1>2 DEF PopReady, CallTypes
  <1>3. ASSUME NEW t \in Tasks, CoroutineStep(t) PROVE CallTypes'
    BY <1>3 DEF CallTypes, CoroutineStep, AwaitStart, AwaitEntry, AwaitPrepare,
       InstallContinuation, ContinuationTaken, ClearAwaitLink, StoreRunning, Resolve, ClaimNormal,
       Sample, AwaitCaught, AwaitUnwinds, DrainUnwinds, TakeResult, LeafSleep,
       Complete, LeafUnwinds, CoroutineEnds
  <1>4. ASSUME NEW t \in Tasks, PublishStep(t) \/ SourceWakes(t) PROVE CallTypes'
    BY <1>4 DEF CallTypes, PublishStep, PublishState, ExchangeContinuation, NoteChildTerminal,
       PublisherUnlinks, LoadAwaiterGeneration, ScheduleAwaiter, SourceWakes
  <1>5. ASSUME NEW x \in Callers, CancelStep(x) PROVE CallTypes'
    <2>0. call[x] # <<>>
      BY <1>5 DEF CancelStep, StoreCancelFlags, ClaimAwait, SnapshotChild, CancelArbiter,
         ColdCancel, ColdPublish, ColdCancelReturns, LoadGeneration, ClaimSuspended, Calls
    <2>1. ASSUME NEW phase \in CallPhases, CallGoto(x, phase) PROVE CallTypes'
      BY <2>0, <2>1, TopGoes DEF CallTypes
    <2>2. ASSUME Return(x) PROVE CallTypes'
      BY <2>0, <2>2, TopReturned DEF CallTypes, Return
    <2>3. CASE StoreCancelFlags(x) \/ CancelArbiter(x) \/ ColdCancel(x) \/ ColdPublish(x)
               \/ ColdCancelReturns(x) \/ ClaimSuspended(x)
      BY <2>1, <2>2, <2>3 DEF StoreCancelFlags, CancelArbiter, ColdCancel, ColdPublish,
         ColdCancelReturns, ClaimSuspended, CallPhases
    <2>4. CASE ClaimAwait(x)
      BY <2>0, <2>4, ClaimTop DEF CallTypes
    <2>5. CASE SnapshotChild(x)
      <3>1. PICK c : c = tcb[Top(x).task].active_child
        OBVIOUS
      <3>2. c \in Tasks \cup {None}
        BY <1>0, <2>0, <3>1, TopIsCall DEF TCBs
      <3>3. CASE c = None
        <4>1. CallGoto(x, "arbiter")
          BY <2>5, <3>1, <3>3 DEF SnapshotChild, CallGoto
        <4> QED BY <2>1, <4>1 DEF CallPhases
      <3>4. CASE c \in Tasks
        BY <2>0, <2>5, <3>1, <3>4, SnapshotTop DEF CallTypes
      <3> QED BY <3>2, <3>3, <3>4
    <2>6. CASE LoadGeneration(x)
      <3>1. Top(x) \in CallRecs /\ Top(x).task \in Tasks /\ Len(call[x]) \in DOMAIN call[x]
        BY <2>0, TopIsCall
      <3>g. PICK g : g = tcb[Top(x).task].gen
        OBVIOUS
      <3>2. g \in Nat
        BY <1>0, <3>1, <3>g DEF TCBs
      <3>r. PICK q : q = [Top(x) EXCEPT !.phase = "ticket", !.gen = g]
        OBVIOUS
      <3>3. q \in CallRecs
        BY <3>1, <3>2, <3>r DEF CallRecs, CallPhases
      <3>4. call' = [call EXCEPT ![x] = [@ EXCEPT ![Len(@)] = q]]
        <4>1. call' = [call EXCEPT ![x][Len(call[x])].phase = "ticket",
                                   ![x][Len(call[x])].gen = g]
          BY <2>6, <3>g DEF LoadGeneration
        <4>2. [call[x][Len(call[x])] EXCEPT !.phase = "ticket", !.gen = g] = q
          BY <3>r DEF Top
        <4> HIDE DEF CallRecs
        <4> QED BY <1>0, <3>1, <4>1, <4>2
      <3> HIDE DEF CallRecs
      <3> QED BY <2>0, <3>3, <3>4, TopWritten DEF CallTypes
    <2> QED BY <1>5, <2>3, <2>4, <2>5, <2>6 DEF CancelStep
  <1>6. ASSUME NEW x \in Callers, NEW t \in Tasks, RequestCancel(x, t) PROVE CallTypes'
    <2>1. PICK n : n = NewCall(t)
      OBVIOUS
    <2>2. n \in CallRecs
      BY <2>1 DEF NewCall, CallRecs, CallPhases
    <2>3. call' = [call EXCEPT ![x] = <<n>>]
      BY <1>6, <2>1 DEF RequestCancel
    <2> HIDE DEF CallRecs
    <2> QED BY <1>0, <2>2, <2>3 DEF CallTypes
  <1> QED BY <1>1, <1>2, <1>3, <1>4, <1>5, <1>6 DEF Next, Step

\* A coroutine is moved by its own step or by the executor that resumes it.
LEMMA OnlyOwnMove ==
    ASSUME AwaitIInv, [Next]_vars, NEW t \in Tasks, frame'[t].pc # frame[t].pc
    PROVE  CoroutineStep(t) \/ frame'[t].pc = Resumed(frame[t].pc)
  <1>0. frame \in [Tasks -> Frames]
    BY DEF AwaitIInv
  <1>1. CASE UNCHANGED vars
    BY <1>1 DEF vars
  <1>2. ASSUME NEW e \in ready, PopReady(e) PROVE frame'[t].pc = Resumed(frame[t].pc)
    BY <1>0, <1>2 DEF PopReady, Frames
  <1>3. ASSUME NEW s \in Tasks, PublishStep(s) \/ SourceWakes(s) PROVE FALSE
    BY <1>3 DEF PublishStep, SourceWakes, PublishState, ExchangeContinuation,
       NoteChildTerminal, PublisherUnlinks, LoadAwaiterGeneration, ScheduleAwaiter
  <1>4. ASSUME NEW x \in Callers, CancelStep(x) PROVE FALSE
    BY <1>4 DEF CancelStep, StoreCancelFlags, ClaimAwait, SnapshotChild,
       CancelArbiter, ColdCancel, ColdPublish, ColdCancelReturns, LoadGeneration,
       ClaimSuspended
  <1>5. ASSUME NEW x \in Callers, NEW s \in Tasks, RequestCancel(x, s) PROVE FALSE
    BY <1>5 DEF RequestCancel
  <1>6. ASSUME NEW s \in Tasks, s # t, CoroutineStep(s) PROVE FALSE
    <2>1. frame'[t] = frame[t]
      BY <1>0, <1>6 DEF CoroutineStep, Goto, AwaitStart, AwaitEntry, AwaitPrepare,
         InstallContinuation, ContinuationTaken, ClearAwaitLink, StoreRunning, Resolve, ClaimNormal,
         Sample, AwaitCaught, AwaitUnwinds, DrainUnwinds, TakeResult, LeafSleep,
         Complete, LeafUnwinds, CoroutineEnds
    <2> QED BY <2>1
  <1> QED BY <1>1, <1>2, <1>3, <1>4, <1>5, <1>6 DEF Next, Step

\* From the points of toka_task_resolve_await, the step that follows.
LEMMA ResolvingStep ==
    ASSUME NEW t \in Tasks, CoroutineStep(t)
    PROVE  /\ frame[t].pc \in {"post", "resume"} => Resolve(t)
           /\ frame[t].pc = "claim" => ClaimNormal(t)
           /\ Resolve(t) => frame[t].pc \in {"post", "resume"}
  BY DEF CoroutineStep, Runs, AwaitStart, AwaitEntry, AwaitPrepare,
     InstallContinuation, ContinuationTaken, ClearAwaitLink, StoreRunning, Resolve, ClaimNormal,
     Sample, AwaitCaught, AwaitUnwinds, DrainUnwinds, TakeResult, LeafSleep,
     Complete, LeafUnwinds, CoroutineEnds

\* Between the last look at cancel_requested and the claim of a normal end: the
\* word is a normal end or a cancellation, and as long as it is the former, a
\* request that has come in between has not made its claim yet.
Asked(t) ==
    frame[t].pc = "claim" =>
        /\ tcb[t].resolution \in {"ChildNormal", "CancelClaimed"}
        /\ tcb[t].resolution = "ChildNormal" => tcb[t].cancel_requested = 0 \/ BeingAsked(t)

AskedInv == AwaitIInv /\ CallTypes /\ \A t \in Tasks : Asked(t)

\* A request between the flag and the claim stays there until it claims.
LEMMA BeingAskedStays ==
    ASSUME CallTypes, [Next]_vars, NEW t \in Tasks, BeingAsked(t),
           \A x \in Callers : ~(ClaimAwait(x) /\ Top(x).task = t)
    PROVE  BeingAsked(t)'
  <1>1. PICK x \in Callers : call[x] # <<>> /\ Top(x).task = t /\ Top(x).phase = "claim"
    BY DEF BeingAsked
  <1>2. ~CancelStep(x)
    BY <1>1 DEF CancelStep, StoreCancelFlags, SnapshotChild, CancelArbiter,
       ColdCancel, ColdPublish, ColdCancelReturns, LoadGeneration, ClaimSuspended, Calls
  <1>3. ASSUME NEW s \in Tasks, RequestCancel(x, s) PROVE FALSE
    BY <1>1, <1>3 DEF RequestCancel
  <1>4. call'[x] = call[x]
    BY <1>2, <1>3, OwnCalls
  <1> QED BY <1>1, <1>4 DEF BeingAsked, Top

\* While t is about to claim a normal end, nobody but a canceller of t writes its
\* word or its request.
LEMMA AskedWrites ==
    ASSUME AwaitIInv, CallTypes, [Next]_vars, NEW t \in Tasks,
           frame[t].pc = "claim", frame'[t].pc = "claim", tcb[t].resolution # "Armed",
           \A x \in Callers : (ClaimAwait(x) \/ StoreCancelFlags(x)) => Top(x).task # t
    PROVE  /\ tcb'[t].resolution = tcb[t].resolution
           /\ tcb'[t].cancel_requested = tcb[t].cancel_requested
  <1>0. tcb \in [Tasks -> TCBs] /\ frame \in [Tasks -> Frames]
    BY DEF AwaitIInv
  <1>1. CASE UNCHANGED vars
    BY <1>1 DEF vars
  <1>2. ASSUME NEW e \in ready, PopReady(e)
        PROVE  tcb'[t].resolution = tcb[t].resolution
               /\ tcb'[t].cancel_requested = tcb[t].cancel_requested
    <2>1. tcb' = tcb \/ tcb' = [tcb EXCEPT ![e.task].state = "Running"]
      BY <1>2 DEF PopReady
    <2> QED BY <1>0, <2>1 DEF TCBs
  <1>3. ASSUME NEW s \in Tasks, CoroutineStep(s)
        PROVE  tcb'[t].resolution = tcb[t].resolution
               /\ tcb'[t].cancel_requested = tcb[t].cancel_requested
    <2>1. s # t
      <3> SUFFICES ASSUME s = t PROVE FALSE
        OBVIOUS
      <3>1. ClaimNormal(t)
        BY <1>3, ResolvingStep
      <3>2. PICK p \in {"ready", "post"} : Goto(t, p)
        BY <3>1 DEF ClaimNormal
      <3> QED BY <1>0, <3>2 DEF Goto, Frames
    <2>2. CASE AwaitStart(s)
      <3>1. tcb' = tcb \/ tcb' = [tcb EXCEPT ![Child(s)].state = "Queued", ![Child(s)].gen = 1]
        BY <2>2 DEF AwaitStart
      <3> QED BY <1>0, <3>1 DEF TCBs
    <2>3. CASE AwaitPrepare(s)
      <3>1. tcb' = [tcb EXCEPT ![s].gen = @ + 1, ![s].state = "Suspended",
                               ![s].resolution = "Armed", ![s].active_child = Child(s),
                               ![Child(s)].parent_tcb = s]
        BY <2>3 DEF AwaitPrepare
      <3> QED BY <1>0, <2>1, <3>1 DEF TCBs
    <2>4. CASE ClearAwaitLink(s)
      BY <1>0, <2>1, <2>4 DEF ClearAwaitLink, Unlinked, TCBs
    <2>5. CASE ~AwaitStart(s) /\ ~AwaitPrepare(s) /\ ~ClearAwaitLink(s)
      <3>1. tcb'[t] = tcb[t]
        BY <1>0, <1>3, <2>1, <2>5 DEF CoroutineStep, AwaitEntry, InstallContinuation,
           ContinuationTaken, StoreRunning, Resolve, ClaimNormal, Sample, AwaitCaught,
           AwaitUnwinds, DrainUnwinds, TakeResult, LeafSleep, Complete, LeafUnwinds, CoroutineEnds
      <3> QED BY <3>1
    <2> QED BY <2>2, <2>3, <2>4, <2>5
  <1>4. ASSUME NEW s \in Tasks, PublishStep(s)
        PROVE  tcb'[t].resolution = tcb[t].resolution
               /\ tcb'[t].cancel_requested = tcb[t].cancel_requested
    <2>1. CASE NoteChildTerminal(s)
      <3>1. PICK a : a = pub[s].awaiter
        OBVIOUS
      <3>2. tcb' = [tcb EXCEPT ![a].resolution = NotedWord(@, promise[s].result)]
        BY <2>1, <3>1 DEF NoteChildTerminal
      <3>3. CASE a = t
        BY <1>0, <3>2, <3>3 DEF NotedWord, TCBs
      <3>4. CASE a # t
        BY <1>0, <3>2, <3>4
      <3> QED BY <3>3, <3>4
    <2>2. CASE ~NoteChildTerminal(s)
      <3>1. PICK end :
            \/ tcb' = tcb
            \/ tcb' = [tcb EXCEPT ![s].active_child = None, ![s].state = end]
            \/ tcb' = Unlinked(s, pub[s].awaiter)
            \/ tcb' = [tcb EXCEPT ![pub[s].awaiter].state = "Queued"]
        BY <1>4, <2>2 DEF PublishStep, PublishState, ExchangeContinuation, PublisherUnlinks,
           LoadAwaiterGeneration, ScheduleAwaiter, Enqueued
      <3> QED BY <1>0, <3>1 DEF Unlinked, TCBs
    <2> QED BY <2>1, <2>2
  <1>5. ASSUME NEW s \in Tasks, SourceWakes(s)
        PROVE  tcb'[t].resolution = tcb[t].resolution
               /\ tcb'[t].cancel_requested = tcb[t].cancel_requested
    <2>1. tcb' = [tcb EXCEPT ![s].state = "Queued"]
      BY <1>5 DEF SourceWakes, Enqueued
    <2> QED BY <1>0, <2>1 DEF TCBs
  <1>6. ASSUME NEW x \in Callers, CancelStep(x)
        PROVE  tcb'[t].resolution = tcb[t].resolution
               /\ tcb'[t].cancel_requested = tcb[t].cancel_requested
    <2>u. PICK u : u = Top(x).task
      OBVIOUS
    <2>1. CASE ClaimAwait(x) \/ StoreCancelFlags(x)
      <3>1. u # t
        BY <2>1, <2>u
      <3>2. \/ tcb' = tcb
            \/ tcb' = [tcb EXCEPT ![u].resolution = "CancelClaimed"]
            \/ tcb' = [tcb EXCEPT ![u].cancel_requested = 1, ![u].cancel_handled = 0]
        BY <2>1, <2>u DEF ClaimAwait, StoreCancelFlags
      <3> QED BY <1>0, <3>1, <3>2
    <2>2. CASE ~ClaimAwait(x) /\ ~StoreCancelFlags(x)
      <3>1. \/ tcb' = tcb
            \/ tcb' = [tcb EXCEPT ![u].state = "Queued"]
            \/ tcb' = [tcb EXCEPT ![u].state = "ColdFinalizing"]
        BY <1>6, <2>2, <2>u DEF CancelStep, SnapshotChild, CancelArbiter, ColdCancel, ColdPublish,
           ColdCancelReturns, LoadGeneration, ClaimSuspended, Enqueued
      <3> QED BY <1>0, <3>1 DEF TCBs
    <2> QED BY <2>1, <2>2
  <1>7. ASSUME NEW x \in Callers, NEW s \in Tasks, RequestCancel(x, s) PROVE tcb' = tcb
    BY <1>7 DEF RequestCancel
  <1> QED BY <1>1, <1>2, <1>3, <1>4, <1>5, <1>6, <1>7 DEF Next, Step

\* Every step, of any thread.
LEMMA AskedStep ==
    ASSUME AskedInv, [Next]_vars
    PROVE  AskedInv'
  <1>0. /\ AwaitIInv /\ CallTypes /\ AwaitIInv' /\ CallTypes'
        /\ tcb \in [Tasks -> TCBs] /\ frame \in [Tasks -> Frames]
    BY AwaitStep, CallTypesStep DEF AskedInv, AwaitIInv
  <1>1. ASSUME NEW t \in Tasks, frame'[t].pc = "claim" PROVE Asked(t)'
    <2>0. Asked(t)
      BY DEF AskedInv
    <2>1. CASE frame[t].pc # "claim"
      <3>1. frame[t].pc \in Points /\ (Resumed(frame[t].pc) = "claim" => frame[t].pc = "claim")
        BY <1>0 DEF Frames, Resumed
      <3>2. CoroutineStep(t)
        BY <1>0, <1>1, <2>1, <3>1, OnlyOwnMove
      <3>3. Resolve(t)
        BY <1>0, <1>1, <2>1, <3>2 DEF CoroutineStep, Goto, Frames, AwaitStart, AwaitEntry,
           AwaitPrepare, InstallContinuation, ContinuationTaken, ClearAwaitLink, StoreRunning,
           ClaimNormal, Sample, AwaitCaught, AwaitUnwinds, DrainUnwinds, TakeResult, LeafSleep,
           Complete, LeafUnwinds, CoroutineEnds
      <3>4. Resolved(t) = "claim"
        BY <1>0, <1>1, <3>3 DEF Resolve, Goto, Frames
      <3>5. Resolution(t) = "ChildNormal" /\ tcb[t].cancel_requested = 0
        BY <1>0, <3>4, ResolutionWord
      <3>6. tcb'[t].resolution = "ChildNormal" /\ tcb'[t].cancel_requested = 0
        BY <1>0, <3>3, <3>5 DEF Resolve, TCBs
      <3> QED BY <3>6 DEF Asked
    <2>2. CASE frame[t].pc = "claim"
      <3>0. tcb[t].resolution \in {"ChildNormal", "CancelClaimed"}
        BY <2>0, <2>2 DEF Asked
      <3>1. ASSUME NEW x \in Callers, ClaimAwait(x), Top(x).task = t PROVE Asked(t)'
        <4>1. tcb' = IF tcb[t].resolution \in Cancellable
                       THEN [tcb EXCEPT ![t].resolution = "CancelClaimed"] ELSE tcb
          BY <3>1 DEF ClaimAwait
        <4>2. tcb'[t].resolution = "CancelClaimed"
          BY <1>0, <3>0, <4>1 DEF TCBs, Cancellable
        <4> QED BY <4>2 DEF Asked
      <3>2. ASSUME NEW x \in Callers, StoreCancelFlags(x), Top(x).task = t PROVE Asked(t)'
        <4>1. call[x] # <<>> /\ CallGoto(x, "claim") /\ "claim" \in CallPhases
          BY <3>2 DEF StoreCancelFlags, Calls, CallPhases
        <4>2. call'[x] # <<>> /\ Top(x)'.task = t /\ Top(x)'.phase = "claim"
          BY <1>0, <3>2, <4>1, TopGoes
        <4>3. tcb' = [tcb EXCEPT ![t].cancel_requested = 1, ![t].cancel_handled = 0]
          BY <3>2 DEF StoreCancelFlags
        <4>4. tcb'[t].resolution = tcb[t].resolution
          BY <1>0, <4>3 DEF TCBs
        <4> QED BY <3>0, <4>2, <4>4 DEF Asked, BeingAsked
      <3>3. CASE \A x \in Callers : (ClaimAwait(x) \/ StoreCancelFlags(x)) => Top(x).task # t
        <4>1. /\ tcb'[t].resolution = tcb[t].resolution
              /\ tcb'[t].cancel_requested = tcb[t].cancel_requested
          BY <1>0, <1>1, <2>2, <3>0, <3>3, AskedWrites
        <4>2. BeingAsked(t) => BeingAsked(t)'
          BY <1>0, <3>3, BeingAskedStays
        <4> QED BY <2>0, <2>2, <4>1, <4>2 DEF Asked
      <3> QED BY <3>1, <3>2, <3>3
    <2> QED BY <2>1, <2>2
  <1>2. ASSUME NEW t \in Tasks, frame'[t].pc # "claim" PROVE Asked(t)'
    BY <1>2 DEF Asked
  <1> QED BY <1>0, <1>1, <1>2 DEF AskedInv

\* A task goes on with the value of its child only if nobody has asked it to
\* cancel, or the one who did has stored the flag and not claimed the await yet:
\* for every plan of awaits and every set of cancelling threads.
THEOREM CancelBeatsResultHolds == Spec => CancelBeatsResult
  <1> DEFINE Beats == \A t \in Tasks : TakesValue(t) => tcb[t].cancel_requested = 0 \/ BeingAsked(t)
  <1>1. AskedInv /\ [Next]_vars => [Beats]_vars
    <2> SUFFICES ASSUME AskedInv, [Next]_vars, NEW t \in Tasks, TakesValue(t)
                 PROVE  tcb[t].cancel_requested = 0 \/ BeingAsked(t)
      OBVIOUS
    <2>0. /\ AwaitIInv /\ Asked(t) /\ frame \in [Tasks -> Frames] /\ tcb \in [Tasks -> TCBs]
          /\ frame[t].pc \in {"post", "resume", "claim"} /\ frame'[t].pc = "ready"
          /\ Kind(t) # "barrier"
      BY DEF AskedInv, AwaitIInv, TakesValue
    <2>1. CoroutineStep(t)
      <3>1. Resumed(frame[t].pc) # "ready"
        BY <2>0 DEF Resumed
      <3> QED BY <2>0, <3>1, OnlyOwnMove
    <2>2. frame[t].pc = "claim"
      <3> SUFFICES ASSUME frame[t].pc \in {"post", "resume"} PROVE FALSE
        BY <2>0
      <3>1. Resolve(t)
        BY <2>1, ResolvingStep
      <3>2. Resolved(t) = "ready"
        BY <2>0, <3>1 DEF Resolve, Goto, Frames
      <3>3. tcb[t].resolution = "NormalClaimed"
        BY <2>0, <3>2, ResolutionWord
      <3> QED BY <2>0, <3>3 DEF AwaitIInv, NotClaimed, Unresolved
    <2>3. ClaimNormal(t)
      BY <2>1, <2>2, ResolvingStep
    <2>4. tcb[t].resolution = "ChildNormal"
      <3>1. Goto(t, "post") => frame'[t].pc = "post"
        BY <2>0 DEF Goto, Frames
      <3> QED BY <2>0, <2>3, <3>1 DEF ClaimNormal
    <2> QED BY <2>0, <2>2, <2>4 DEF Asked
  <1>2. Init => AskedInv
    <2>1. ASSUME Init PROVE CallTypes /\ \A t \in Tasks : frame[t].pc = "body"
      BY <2>1 DEF Init, CallTypes
    <2> QED BY <2>1, AwaitInit DEF AskedInv, Asked
  <1>3. AskedInv /\ [Next]_vars => AskedInv'
    BY AskedStep
  <1> QED BY <1>1, <1>2, <1>3, PTL DEF Spec, CancelBeatsResult
=============================================================================
