------------------------------- MODULE Await -------------------------------
(***************************************************************************)
(* Direct await: what `task.await`, `task.await?` and the drain barrier    *)
(* `join_scoped(scope).await` do, from the code the compiler emits         *)
(* (CodeGen::genAwaitExpr) down to the runtime's await protocol            *)
(* (toka_task_await_prepare, toka_task_resolve_await, the continuation     *)
(* word, toka_task_request_cancel and its walk down the awaited children). *)
(*                                                                         *)
(* Tasks form a tree: Plan[t] lists the awaits of t in program order, each *)
(* with the child awaited and its kind ("plain", "catch" for `.await?`,    *)
(* "barrier").  A task with no await is a leaf; it may sleep once on a     *)
(* source of its own (the wait protocol itself is module TaskWait).        *)
(* One executor runs the coroutines, one at a time.  A caller of           *)
(* request_cancel is either a native thread, which interleaves with        *)
(* everything, or a coroutine of the executor, which nothing interrupts.   *)
(***************************************************************************)
EXTENDS Naturals, Sequences

CONSTANTS Tasks,       \* task control blocks
          Plan,        \* Plan[t]: the awaits of t, [child, kind]
          Roots,       \* tasks that were spawned, not awaited
          Drains,      \* leaves that run TaskScope.join_async
          Callers,     \* callers of request_cancel
          Threads,     \* the callers that are native threads
          MaxCancels,  \* bound on the calls of request_cancel
          None

ASSUME AwaitAssumption ==
    /\ Roots \subseteq Tasks
    /\ Drains \subseteq Tasks
    /\ Threads \subseteq Callers
    /\ MaxCancels \in Nat
    /\ None # "Done" /\ {None, "Done"} \cap (Tasks \cup Callers) = {}
    /\ Tasks \cap Callers = {}
    /\ \A t \in Tasks : Plan[t] \in
         Seq([child : Tasks \ Roots, kind : {"plain", "catch", "barrier"}])

VARIABLES tcb,      \* the fields of TokaTCB this protocol uses
          promise,  \* promise header: result state and continuation word
          frame,    \* coroutine: program point and number of the next await
          pub,      \* toka_task_publish_terminal of a task, step by step
          call,     \* call stack of request_cancel, one per caller
          ready,    \* ready queue: tickets [task, gen]
          cpu,      \* coroutine or caller the executor is running, or None
          cancels   \* calls of request_cancel so far

vars == <<tcb, promise, frame, pub, call, ready, cpu, cancels>>

Terminal == {"Completed", "CompletedCanceled"}
States == {"Created", "Queued", "Running", "Suspended", "ColdFinalizing"}
            \cup Terminal
Resolutions == {"Idle", "Armed", "ChildNormal", "ChildCanceled",
                "CancelClaimed", "NormalClaimed"}
Points == {"body", "entry", "prepare", "install", "unlink", "running", "post",
           "suspended", "resume", "claim", "sample", "canceled", "ready",
           "waiting", "publish", "done", "trap"}
PubPhases == {"none", "state", "exchange", "note", "unlink", "load",
              "schedule", "end"}
CallPhases == {"flags", "claim", "snapshot", "arbiter", "cold", "finalize", "publish",
               "load", "ticket"}

TypeOK ==
    /\ tcb \in [Tasks -> [state : States, gen : Nat, resolution : Resolutions,
                          active_child : Tasks \cup {None},
                          parent_tcb : Tasks \cup {None},
                          cancel_requested : {0, 1}, cancel_handled : {0, 1}]]
    /\ promise \in [Tasks -> [result : {"Pending", "ReadyLive", "Canceled"},
                              continuation : Tasks \cup {None, "Done"}]]
    /\ frame \in [Tasks -> [pc : Points, next : Nat]]
    /\ pub \in [Tasks -> [phase : PubPhases, by : Tasks \cup Callers \cup {None},
                          awaiter : Tasks \cup {None}, gen : Nat]]
    /\ \A x \in Callers : call[x] \in
         Seq([task : Tasks, phase : CallPhases, waits : {0, 1}, gen : Nat])
    /\ ready \in SUBSET [task : Tasks, gen : Nat]
    /\ cpu \in Tasks \cup Callers \cup {None}
    /\ cancels \in 0..MaxCancels

Init ==
    /\ tcb = [t \in Tasks |->
                [state |-> IF t \in Roots THEN "Queued" ELSE "Created",
                 gen |-> IF t \in Roots THEN 1 ELSE 0,
                 resolution |-> "Idle", active_child |-> None,
                 parent_tcb |-> None,
                 cancel_requested |-> 0, cancel_handled |-> 0]]
    /\ promise = [t \in Tasks |-> [result |-> "Pending", continuation |-> None]]
    /\ frame = [t \in Tasks |-> [pc |-> "body", next |-> 1]]
    /\ pub = [t \in Tasks |-> [phase |-> "none", by |-> None,
                               awaiter |-> None, gen |-> 0]]
    /\ call = [x \in Callers |-> <<>>]
    /\ ready = {[task |-> t, gen |-> 1] : t \in Roots}
    /\ cpu = None
    /\ cancels = 0

-----------------------------------------------------------------------------
(* Helpers shared by the runtime functions.                                *)

\* The tasks reached from t along parent_tcb, t included: those in every set
\* that holds t and the parent of each of its members.
Closed(S) == \A s \in S : tcb[s].parent_tcb \in S \cup {None}
Lineage(t) == {s \in Tasks : \A S \in SUBSET Tasks : t \in S /\ Closed(S) => s \in S}

\* toka_task_is_current_canceled
IsCanceled(t) ==
    /\ tcb[t].cancel_handled = 0
    /\ \E s \in Lineage(t) : tcb[s].cancel_requested = 1

\* A task claimed for the queue together with its ticket
\* (toka_task_claim_queue_ticket and toka_task_publish_queue_ticket).
CanClaim(t, g) == tcb[t].state = "Suspended" /\ tcb[t].gen = g
Enqueued(t) == [tcb EXCEPT ![t].state = "Queued"]
WithTicket(t, g) == ready \cup {[task |-> t, gen |-> g]}

\* Mutant: only the child's side of the link is cleared.
UnlinkedMutant(c, p) ==
    [tcb EXCEPT ![c].parent_tcb = IF @ = p THEN None ELSE @]

\* toka_task_clear_await_link(child, parent), as a new value of tcb
Unlinked(c, p) ==
    [tcb EXCEPT ![c].parent_tcb = IF @ = p THEN None ELSE @,
                ![p].active_child = IF @ = c THEN None ELSE @]

-----------------------------------------------------------------------------
(* The executor and the coroutines.                                        *)

Runs(t, point) == cpu = t /\ frame[t].pc = point
Goto(t, point) == frame' = [frame EXCEPT ![t].pc = point]

Child(t) == Plan[t][frame[t].next].child
Kind(t) == Plan[t][frame[t].next].kind
Awaits(t) == frame[t].next <= Len(Plan[t])
IsLeaf(t) == Plan[t] = <<>>

\* toka_task_pop_ready and the resumption of the coroutine.  An entry whose
\* generation or state is not the task's any more is dropped.
Claimable(e) ==
    /\ tcb[e.task].state = "Queued"
    /\ tcb[e.task].gen = e.gen

Resumed(point) == CASE point = "suspended" -> "resume"
                    [] point = "waiting" -> "body"
                    [] OTHER -> point

PopReady(e) ==
    /\ cpu = None
    /\ ready' = ready \ {e}
    /\ IF Claimable(e)
         THEN /\ tcb' = [tcb EXCEPT ![e.task].state = "Running"]
              /\ cpu' = e.task
              /\ frame' = [frame EXCEPT ![e.task].pc = Resumed(@)]
         ELSE UNCHANGED <<tcb, cpu, frame>>
    /\ UNCHANGED <<promise, pub, call, cancels>>

\* `.await` first starts the child (toka_task_start: only a cold task).
AwaitStart(t) ==
    /\ Runs(t, "body")
    /\ Awaits(t)
    /\ IF tcb[Child(t)].state = "Created"
         THEN /\ tcb' = [tcb EXCEPT ![Child(t)].state = "Queued",
                                    ![Child(t)].gen = 1]
              /\ ready' = WithTicket(Child(t), 1)
         ELSE UNCHANGED <<tcb, ready>>
    /\ Goto(t, "entry")
    /\ UNCHANGED <<promise, pub, call, cpu, cancels>>

\* entry.cancel and the switch on the child's result state
EntryCancels(t) ==
    \/ promise[Child(t)].result = "Canceled"
    \/ Kind(t) # "barrier" /\ IsCanceled(t)

AwaitEntry(t) ==
    /\ Runs(t, "entry")
    /\ Goto(t, IF EntryCancels(t) THEN "canceled"
               ELSE IF promise[Child(t)].result = "ReadyLive" THEN "ready"
               ELSE "prepare")
    /\ UNCHANGED <<tcb, promise, pub, call, ready, cpu, cancels>>

\* toka_task_await_prepare: the section under the mutex.
AwaitPrepare(t) ==
    /\ Runs(t, "prepare")
    /\ tcb' = [tcb EXCEPT ![t].gen = @ + 1,
                          ![t].state = "Suspended",
                          ![t].resolution = "Armed",
                          ![t].active_child = Child(t),
                          ![Child(t)].parent_tcb = t]
    /\ Goto(t, "install")
    /\ UNCHANGED <<promise, pub, call, ready, cpu, cancels>>

\* Mutant: the continuation is stored without the compare.
InstallContinuationMutant(t) ==
    /\ Runs(t, "install")
    /\ promise' = [promise EXCEPT ![Child(t)].continuation = t]
    /\ Goto(t, "suspended")
    /\ cpu' = None
    /\ UNCHANGED <<tcb, pub, call, ready, cancels>>

\* The compare-and-swap of the child's continuation word.  Success: the
\* coroutine suspends and the executor is free.
InstallContinuation(t) ==
    /\ Runs(t, "install")
    /\ promise[Child(t)].continuation = None
    /\ promise' = [promise EXCEPT ![Child(t)].continuation = t]
    /\ Goto(t, "suspended")
    /\ cpu' = None
    /\ UNCHANGED <<tcb, pub, call, ready, cancels>>

\* Failure: the child has ended.  The link is cleared and the parent stored
\* back to Running, whatever its state is by then.
ContinuationTaken(t) ==
    /\ Runs(t, "install")
    /\ promise[Child(t)].continuation # None
    /\ Goto(t, "unlink")
    /\ UNCHANGED <<tcb, promise, pub, call, ready, cpu, cancels>>

ClearAwaitLink(t) ==
    /\ Runs(t, "unlink")
    /\ tcb' = Unlinked(Child(t), t)
    /\ Goto(t, "running")
    /\ UNCHANGED <<promise, pub, call, ready, cpu, cancels>>

StoreRunning(t) ==
    /\ Runs(t, "running")
    /\ tcb' = [tcb EXCEPT ![t].state = "Running"]
    /\ Goto(t, "post")
    /\ UNCHANGED <<promise, pub, call, ready, cpu, cancels>>

\* What the loads of the child's state and result say in toka_task_resolve_await.
ChildOutcome(c) ==
    CASE tcb[c].state = "CompletedCanceled" \/ promise[c].result = "Canceled"
           -> "ChildCanceled"
      [] tcb[c].state = "Completed" /\ promise[c].result = "ReadyLive"
           -> "ChildNormal"
      [] OTHER -> "Armed"

\* Mutant: a normal end is claimed without looking at cancel_requested again.
ResolvedWordMutant(t) ==
    IF tcb[t].resolution # "Armed" THEN tcb[t].resolution
    ELSE IF tcb[t].cancel_requested = 1 THEN "CancelClaimed"
    ELSE ChildOutcome(Child(t))

\* toka_task_resolve_await up to the last load of cancel_requested: the word it
\* leaves.  An armed word is settled, and a normal end becomes a cancellation
\* if one is asked for.  A word that changes under the function is loaded
\* again, and a cancellation it has seen does not go away, so these loads and
\* compare-and-swaps are one step.
ResolvedWord(t) ==
    LET word == IF tcb[t].resolution = "Armed" THEN ChildOutcome(Child(t))
                                               ELSE tcb[t].resolution
    IN  IF tcb[t].resolution \in {"Armed", "ChildNormal"} /\ tcb[t].cancel_requested = 1
          THEN "CancelClaimed" ELSE word

\* toka_task_resolve_await_barrier: any end of the child is the normal outcome,
\* and a cancellation claim does not cut the drain short.
ResolvedBarrier(t) ==
    LET word == tcb[t].resolution
        c == Child(t)
    IN  IF \/ word \in {"ChildNormal", "ChildCanceled"}
           \/ word # "CancelClaimed" /\ (tcb[c].state \in Terminal
                                           \/ promise[c].result # "Pending")
          THEN "NormalClaimed"
          ELSE word

Resolution(t) == IF Kind(t) = "barrier" THEN ResolvedBarrier(t)
                 ELSE ResolvedWord(t)

\* Where the await goes on: with the value (1 in the code), with the
\* cancellation (-1), to the compare-and-swap of a normal end that has yet to
\* be claimed, or, pending (0), with a look at the result state.
Resolved(t) ==
    LET word == Resolution(t)
    IN  IF word = "NormalClaimed" \/ (Kind(t) = "barrier" /\ word = "CancelClaimed")
          THEN "ready"
        ELSE IF Kind(t) # "barrier" /\ word \in {"CancelClaimed", "ChildCanceled"}
          THEN "canceled"
        ELSE IF Kind(t) # "barrier" /\ word = "ChildNormal" THEN "claim"
        ELSE "sample"

Resolve(t) ==
    /\ Runs(t, "post") \/ Runs(t, "resume")
    /\ tcb' = [tcb EXCEPT ![t].resolution = Resolution(t)]
    /\ Goto(t, Resolved(t))
    /\ UNCHANGED <<promise, pub, call, ready, cpu, cancels>>

\* The compare-and-swap of the word from ChildNormal to NormalClaimed, after
\* cancel_requested was found clear; when it fails the loop starts again.
ClaimNormal(t) ==
    /\ Runs(t, "claim")
    /\ IF tcb[t].resolution = "ChildNormal"
         THEN /\ tcb' = [tcb EXCEPT ![t].resolution = "NormalClaimed"]
              /\ Goto(t, "ready")
         ELSE /\ Goto(t, "post")
              /\ UNCHANGED tcb
    /\ UNCHANGED <<promise, pub, call, ready, cpu, cancels>>

\* A pending resolution falls back on the child's result state and, unless
\* this is a drain barrier, on the parent's own cancellation.
Sample(t) ==
    /\ Runs(t, "sample")
    /\ Goto(t, IF \/ promise[Child(t)].result = "Canceled"
                  \/ Kind(t) # "barrier" /\ IsCanceled(t)
                 THEN "canceled" ELSE "ready")
    /\ UNCHANGED <<tcb, promise, pub, call, ready, cpu, cancels>>

\* toka_task_mark_current_cancellation_handled
Handled(t) ==
    IF tcb[t].cancel_requested = 1
      THEN [tcb[t] EXCEPT !.cancel_requested = 0, !.cancel_handled = 1]
    ELSE IF \E s \in Lineage(t) : tcb[s].cancel_requested = 1
      THEN [tcb[t] EXCEPT !.cancel_handled = 1]
    ELSE tcb[t]

\* genCoroutineCancelReturn and the end of an async function: the result
\* state's compare-and-swap is the first step of the publication.
BeginPublish(t, by, result) ==
    /\ promise' = [promise EXCEPT ![t].result = result]
    /\ pub' = [pub EXCEPT ![t].phase = "state", ![t].by = by]

\* await.canceled: the resolution is finished; `.await?` goes on with None
\* and marks the cancellation handled, the others unwind.
AwaitCaught(t) ==
    /\ Runs(t, "canceled")
    /\ Kind(t) = "catch"
    /\ tcb' = [tcb EXCEPT ![t] = [Handled(t) EXCEPT !.resolution = "Idle"]]
    /\ frame' = [frame EXCEPT ![t].pc = "body", ![t].next = @ + 1]
    /\ UNCHANGED <<promise, pub, call, ready, cpu, cancels>>

AwaitUnwinds(t) ==
    /\ Runs(t, "canceled")
    /\ Kind(t) # "catch"
    /\ tcb' = [tcb EXCEPT ![t].resolution = "Idle"]
    /\ BeginPublish(t, t, "Canceled")
    /\ Goto(t, "publish")
    /\ UNCHANGED <<call, ready, cpu, cancels>>

\* await.ready: after a drain barrier a cancelled parent unwinds.
DrainUnwinds(t) ==
    /\ Runs(t, "ready")
    /\ Kind(t) = "barrier"
    /\ IsCanceled(t)
    /\ BeginPublish(t, t, "Canceled")
    /\ Goto(t, "publish")
    /\ UNCHANGED <<tcb, call, ready, cpu, cancels>>

\* Otherwise the result is taken (__toka_task_take_result_access); a child
\* that did not complete with a live result makes the program trap.
HasResult(c) == tcb[c].state = "Completed" /\ promise[c].result = "ReadyLive"

TakeResult(t) ==
    /\ Runs(t, "ready")
    /\ ~(Kind(t) = "barrier" /\ IsCanceled(t))
    /\ IF HasResult(Child(t))
         THEN /\ tcb' = [tcb EXCEPT ![t].resolution = "Idle"]
              /\ frame' = [frame EXCEPT ![t].pc = "body", ![t].next = @ + 1]
         ELSE /\ Goto(t, "trap")
              /\ UNCHANGED tcb
    /\ UNCHANGED <<promise, pub, call, ready, cpu, cancels>>

\* A leaf sleeps on a source.  sleep_async returns at once when the task is
\* cancelled; join_async sleeps with sleep_uninterruptible_async.
LeafSleep(t) ==
    /\ Runs(t, "body")
    /\ IsLeaf(t)
    /\ frame[t].next = 1
    /\ t \in Drains \/ ~IsCanceled(t)
    /\ tcb' = [tcb EXCEPT ![t].state = "Suspended", ![t].gen = @ + 1]
    /\ frame' = [frame EXCEPT ![t].pc = "waiting", ![t].next = 2]
    /\ cpu' = None
    /\ UNCHANGED <<promise, pub, call, ready, cancels>>

SourceWakes(t) ==
    /\ frame[t].pc = "waiting"
    /\ tcb[t].state = "Suspended"
    /\ tcb' = Enqueued(t)
    /\ ready' = WithTicket(t, tcb[t].gen)
    /\ UNCHANGED <<promise, frame, pub, call, cpu, cancels>>

\* A task whose awaits are done completes.
Complete(t) ==
    /\ Runs(t, "body")
    /\ ~Awaits(t)
    /\ BeginPublish(t, t, "ReadyLive")
    /\ Goto(t, "publish")
    /\ UNCHANGED <<tcb, call, ready, cpu, cancels>>

\* A leaf that sees the cancellation unwinds; join_async, whose awaits are
\* all `.await?`, never does.
LeafUnwinds(t) ==
    /\ Runs(t, "body")
    /\ IsLeaf(t)
    /\ t \notin Drains
    /\ IsCanceled(t)
    /\ BeginPublish(t, t, "Canceled")
    /\ Goto(t, "publish")
    /\ UNCHANGED <<tcb, call, ready, cpu, cancels>>

-----------------------------------------------------------------------------
(* toka_task_publish_terminal of t, after the result state is published.   *)
(* It runs in t's own coroutine, or in the caller that cancelled t cold.   *)

IsExecuting(a) == a \in Threads \/ cpu = a
Publishing(t, phase) == pub[t].phase = phase /\ IsExecuting(pub[t].by)
PubGoto(t, phase) == pub' = [pub EXCEPT ![t].phase = phase]

\* The terminal state, under the mutex; waits and subscriptions follow.
PublishState(t) ==
    /\ Publishing(t, "state")
    /\ tcb' = [tcb EXCEPT ![t].active_child = None,
                          ![t].state = IF promise[t].result = "Canceled"
                                         THEN "CompletedCanceled"
                                         ELSE "Completed"]
    /\ PubGoto(t, "exchange")
    /\ UNCHANGED <<promise, frame, call, ready, cpu, cancels>>

ExchangeContinuation(t) ==
    /\ Publishing(t, "exchange")
    /\ promise' = [promise EXCEPT ![t].continuation = "Done"]
    /\ pub' = [pub EXCEPT ![t].phase = IF promise[t].continuation = None
                                         THEN "end" ELSE "note",
                          ![t].awaiter = promise[t].continuation]
    /\ UNCHANGED <<tcb, frame, call, ready, cpu, cancels>>

\* Mutant: a cancelled child is noted as a normal end.
NotedWordMutant(word, result) == IF word # "Armed" THEN word ELSE "ChildNormal"

\* toka_task_note_await_child_terminal: only an armed word is written.
NotedWord(word, result) ==
    IF word # "Armed" THEN word
    ELSE IF result = "Canceled" THEN "ChildCanceled" ELSE "ChildNormal"

NoteChildTerminal(t) ==
    /\ Publishing(t, "note")
    /\ tcb' = [tcb EXCEPT ![pub[t].awaiter].resolution =
                             NotedWord(@, promise[t].result)]
    /\ PubGoto(t, "unlink")
    /\ UNCHANGED <<promise, frame, call, ready, cpu, cancels>>

PublisherUnlinks(t) ==
    /\ Publishing(t, "unlink")
    /\ tcb' = Unlinked(t, pub[t].awaiter)
    /\ PubGoto(t, "load")
    /\ UNCHANGED <<promise, frame, call, ready, cpu, cancels>>

\* The awaiter's generation is loaded now, not remembered from the await.
LoadAwaiterGeneration(t) ==
    /\ Publishing(t, "load")
    /\ pub' = [pub EXCEPT ![t].phase = "schedule",
                          ![t].gen = tcb[pub[t].awaiter].gen]
    /\ UNCHANGED <<tcb, promise, frame, call, ready, cpu, cancels>>

\* toka_task_try_schedule_token_internal
ScheduleAwaiter(t) ==
    /\ Publishing(t, "schedule")
    /\ IF CanClaim(pub[t].awaiter, pub[t].gen)
         THEN /\ tcb' = Enqueued(pub[t].awaiter)
              /\ ready' = WithTicket(pub[t].awaiter, pub[t].gen)
         ELSE UNCHANGED <<tcb, ready>>
    /\ PubGoto(t, "end")
    /\ UNCHANGED <<promise, frame, call, cpu, cancels>>

\* The coroutine reaches its final suspension.
CoroutineEnds(t) ==
    /\ Runs(t, "publish")
    /\ pub[t].phase = "end"
    /\ Goto(t, "done")
    /\ cpu' = None
    /\ UNCHANGED <<tcb, promise, pub, call, ready, cancels>>

-----------------------------------------------------------------------------
(* toka_task_request_cancel.  The call stack is the recursion down the     *)
(* awaited children; the frame on top executes.                            *)

Top(x) == call[x][Len(call[x])]
Calls(x, phase) == call[x] # <<>> /\ Top(x).phase = phase /\ IsExecuting(x)
CallGoto(x, phase) == call' = [call EXCEPT ![x][Len(call[x])].phase = phase]
NewCall(t) == [task |-> t, phase |-> "flags", waits |-> 0, gen |-> 0]

\* The call on top returns; an executor's caller gives the executor back
\* with the last one.
Return(x) ==
    /\ call' = [call EXCEPT ![x] = SubSeq(@, 1, Len(@) - 1)]
    /\ cpu' = IF cpu = x /\ Len(call[x]) = 1 THEN None ELSE cpu

\* The child of a drain barrier is the temporary of a direct call
\* (join_scoped, cancel_and_join, join_async): nobody else holds a handle.
HasHandle(t) ==
    \A s \in Tasks : \A i \in DOMAIN Plan[s] :
        Plan[s][i].child = t => Plan[s][i].kind # "barrier"

RequestCancel(x, t) ==
    /\ HasHandle(t)
    /\ call[x] = <<>>
    /\ cancels < MaxCancels
    /\ cancels' = cancels + 1
    /\ call' = [call EXCEPT ![x] = <<NewCall(t)>>]
    /\ x \in Threads \/ cpu = None
    /\ cpu' = IF x \in Threads THEN cpu ELSE x
    /\ UNCHANGED <<tcb, promise, frame, pub, ready>>

StoreCancelFlags(x) ==
    /\ Calls(x, "flags")
    /\ tcb' = [tcb EXCEPT ![Top(x).task].cancel_requested = 1,
                          ![Top(x).task].cancel_handled = 0]
    /\ CallGoto(x, "claim")
    /\ UNCHANGED <<promise, frame, pub, ready, cpu, cancels>>

\* toka_task_claim_await_cancellation
Cancellable == {"Armed", "ChildNormal", "ChildCanceled"}

ClaimAwait(x) ==
    /\ Calls(x, "claim")
    /\ LET word == tcb[Top(x).task].resolution IN
         /\ tcb' = IF word \in Cancellable
                     THEN [tcb EXCEPT ![Top(x).task].resolution = "CancelClaimed"]
                     ELSE tcb
         /\ call' = [call EXCEPT ![x][Len(call[x])].phase = "snapshot",
                                 ![x][Len(call[x])].waits =
                       IF word \in Cancellable \cup {"CancelClaimed"} THEN 1 ELSE 0]
    /\ UNCHANGED <<promise, frame, pub, ready, cpu, cancels>>

\* Mutant: the awaited child is not cancelled.
SnapshotChildMutant(x) ==
    /\ Calls(x, "snapshot")
    /\ call' = [call EXCEPT ![x][Len(call[x])].phase = "arbiter"]
    /\ UNCHANGED <<tcb, promise, frame, pub, ready, cpu, cancels>>

\* The awaited child, read under the mutex, is cancelled before the task's
\* own suspension is looked at.
SnapshotChild(x) ==
    /\ Calls(x, "snapshot")
    /\ LET c == tcb[Top(x).task].active_child
           rest == [call EXCEPT ![x][Len(call[x])].phase = "arbiter"] IN
         call' = IF c = None THEN rest
                 ELSE [rest EXCEPT ![x] = Append([@ EXCEPT ![Len(@)].waits = 1],
                                                 NewCall(c))]
    /\ UNCHANGED <<tcb, promise, frame, pub, ready, cpu, cancels>>

\* The arbiter, by the state of the task.
CancelArbiter(x) ==
    LET t == Top(x).task IN
    /\ Calls(x, "arbiter")
    /\ UNCHANGED <<promise, frame, pub, cancels>>
    /\ \/ /\ tcb[t].state = "Created"
          /\ CallGoto(x, "cold")
          /\ UNCHANGED <<tcb, ready, cpu>>
       \/ /\ tcb[t].state = "Suspended"
          /\ frame[t].pc = "waiting"
          /\ tcb' = Enqueued(t)
          /\ ready' = WithTicket(t, tcb[t].gen)
          /\ Return(x)
       \/ /\ tcb[t].state = "Suspended"
          /\ frame[t].pc # "waiting"
          /\ Top(x).waits = 0
          /\ CallGoto(x, "load")
          /\ UNCHANGED <<tcb, ready, cpu>>
       \/ /\ \/ tcb[t].state \notin {"Created", "Suspended"}
             \/ /\ tcb[t].state = "Suspended"
                /\ frame[t].pc # "waiting"
                /\ Top(x).waits = 1
          /\ Return(x)
          /\ UNCHANGED <<tcb, ready>>

\* toka_task_finalize_cold_cancel: the claim fails when the task was started
\* in between; the winner runs the frame's cleanup and then publishes the
\* cancelled end of the task.
ColdCancel(x) ==
    LET t == Top(x).task IN
    /\ Calls(x, "cold")
    /\ IF tcb[t].state = "Created"
         THEN /\ tcb' = [tcb EXCEPT ![t].state = "ColdFinalizing"]
              /\ CallGoto(x, "finalize")
              /\ UNCHANGED cpu
         ELSE /\ Return(x)
              /\ UNCHANGED tcb
    /\ UNCHANGED <<promise, frame, pub, ready, cancels>>

ColdPublish(x) ==
    /\ Calls(x, "finalize")
    /\ BeginPublish(Top(x).task, x, "Canceled")
    /\ CallGoto(x, "publish")
    /\ UNCHANGED <<tcb, frame, ready, cpu, cancels>>

ColdCancelReturns(x) ==
    /\ Calls(x, "publish")
    /\ pub[Top(x).task].phase = "end"
    /\ Return(x)
    /\ UNCHANGED <<tcb, promise, frame, pub, ready, cancels>>

\* A suspension that belongs to no wait and no await: the generation is read
\* and the ticket claimed after the mutex is released.
LoadGeneration(x) ==
    /\ Calls(x, "load")
    /\ call' = [call EXCEPT ![x][Len(call[x])].phase = "ticket",
                            ![x][Len(call[x])].gen = tcb[Top(x).task].gen]
    /\ UNCHANGED <<tcb, promise, frame, pub, ready, cpu, cancels>>

ClaimSuspended(x) ==
    LET t == Top(x).task IN
    /\ Calls(x, "ticket")
    /\ IF CanClaim(t, Top(x).gen)
         THEN /\ tcb' = Enqueued(t)
              /\ ready' = WithTicket(t, Top(x).gen)
         ELSE UNCHANGED <<tcb, ready>>
    /\ Return(x)
    /\ UNCHANGED <<promise, frame, pub, cancels>>

-----------------------------------------------------------------------------
CoroutineStep(t) ==
    \/ AwaitStart(t) \/ AwaitEntry(t) \/ AwaitPrepare(t)
    \/ InstallContinuation(t) \/ ContinuationTaken(t)
    \/ ClearAwaitLink(t) \/ StoreRunning(t)
    \/ Resolve(t) \/ ClaimNormal(t) \/ Sample(t)
    \/ AwaitCaught(t) \/ AwaitUnwinds(t) \/ DrainUnwinds(t) \/ TakeResult(t)
    \/ LeafSleep(t) \/ Complete(t) \/ LeafUnwinds(t) \/ CoroutineEnds(t)

PublishStep(t) ==
    \/ PublishState(t) \/ ExchangeContinuation(t) \/ NoteChildTerminal(t)
    \/ PublisherUnlinks(t) \/ LoadAwaiterGeneration(t) \/ ScheduleAwaiter(t)

CancelStep(x) ==
    \/ StoreCancelFlags(x) \/ ClaimAwait(x) \/ SnapshotChild(x)
    \/ CancelArbiter(x) \/ ColdCancel(x) \/ ColdPublish(x)
    \/ ColdCancelReturns(x)
    \/ LoadGeneration(x) \/ ClaimSuspended(x)

Idle == cpu = None /\ \A x \in Callers : call[x] = <<>>

Step ==
    \/ \E e \in ready : PopReady(e)
    \/ \E t \in Tasks : CoroutineStep(t) \/ PublishStep(t) \/ SourceWakes(t)
    \/ \E x \in Callers : CancelStep(x)

Next ==
    \/ Step
    \/ \E x \in Callers, t \in Tasks : RequestCancel(x, t)

\* The executor, the threads and the sources keep going; nobody has to call
\* request_cancel.
Spec == Init /\ [][Next]_vars /\ WF_vars(Step)

-----------------------------------------------------------------------------
(* Properties.                                                             *)

\* The code after an await that took the normal branch finds a live result:
\* the trap of await.result.access.failed is never executed.
NoTrap == \A t \in Tasks : frame[t].pc # "trap"

\* A suspended await is resumed by the end of its child and by nothing else:
\* when the parent runs again the child is terminal, its continuation word is
\* spent and the link between the two is gone in both directions.
ResumedByChildOnly ==
    \A t \in Tasks : frame[t].pc = "resume" =>
        /\ tcb[Child(t)].state \in Terminal
        /\ promise[Child(t)].continuation = "Done"
        /\ tcb[t].active_child = None
        /\ tcb[Child(t)].parent_tcb = None

\* When no request_cancel is under way, no task sleeps on a source while it,
\* or a task that waits for it however far up, is cancelled: the walk down the
\* awaited children reaches the one that sleeps.
CancelReachesSleeper ==
    Idle => \A t \in Tasks :
        (/\ t \notin Drains
         /\ frame[t].pc = "waiting"
         /\ IsCanceled(t))
        => tcb[t].state # "Suspended"

\* The await of t goes on with the child's value.
TakesValue(t) ==
    /\ frame[t].pc \in {"post", "resume", "claim"}
    /\ frame'[t].pc = "ready"
    /\ Kind(t) # "barrier"

\* Somebody has stored cancel_requested of t and is about to claim its await.
BeingAsked(t) ==
    \E x \in Callers : call[x] # <<>> /\ Top(x).task = t /\ Top(x).phase = "claim"

\* A cancellation that has claimed the await, or come too early to claim it,
\* beats the child's value, however requests, the end of the child and the
\* resumption interleave: a task that goes on with the value has not been
\* asked to cancel, but for a request_cancel that is still between the store of
\* the flag and the claim (the drain barrier is exempt).
CancelBeatsResult ==
    [][\A t \in Tasks : TakesValue(t) => tcb[t].cancel_requested = 0 \/ BeingAsked(t)]_vars

\* docs/async_runtime_p5_spec.md asks for more: a "joint claim against child
\* terminal kind and parent cancellation, not a sampled cancel-state load".
\* With native threads it does not hold: a flag stored after the last load and
\* before the compare-and-swap loses against the value.
JointClaim ==
    [][\A t \in Tasks : TakesValue(t) => tcb[t].cancel_requested = 0]_vars

\* Every await that suspends its task is resumed: no order of the child's end,
\* the continuation's installation and cancellations loses the wake-up.
AwaitReturns ==
    \A t \in Tasks :
        frame[t].pc = "suspended" ~> frame[t].pc # "suspended"
=============================================================================
