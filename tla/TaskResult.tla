----------------------------- MODULE TaskResult -----------------------------
(***************************************************************************)
(* The end of one task of the Toka async runtime (lib/sys/toka_rt.c): who  *)
(* publishes its terminal state, who consumes its result, and who releases *)
(* the last reference to its control block (TCB) and coroutine frame.      *)
(*                                                                         *)
(* Actors.  Handle is the thread that owns the TaskHandle: it may start    *)
(* and cancel the task and take its result until it detaches or drops the  *)
(* handle.  Worker is the executor thread that runs the task.  Helpers are *)
(* other threads that know the TCB's address and may start or cancel it;   *)
(* the registry lookup of toka_task_try_retain protects them.  Publishers  *)
(* are helpers that also call the public completion entry points.          *)
(*                                                                         *)
(* Grain.  A step is one atomic operation or one critical section.  Loads  *)
(* of flags that only ever go one way are part of the step that acts on    *)
(* them, and so is a retain next to an operation of its own holder.        *)
(* call[a] is the entry point that actor a is in, pc[a] where it is.       *)
(***************************************************************************)
EXTENDS Integers, FiniteSets

CONSTANTS Handle, Worker, Helpers, Publishers

ASSUME ActorsAssumption ==
    /\ Handle # Worker
    /\ Handle \notin Helpers /\ Worker \notin Helpers
    /\ Publishers \subseteq Helpers
    /\ IsFiniteSet(Helpers)

Actors == {Handle, Worker} \cup Helpers

VARIABLES
    state,      \* TokaTCB.state; suspensions are part of "running"
    result,     \* TokaPromiseHeader.result_state
    owner,      \* TokaTCB.result_owner
    disp,       \* TokaTCB.result_disposition
    detached,   \* TokaTCB.detached
    counted,    \* TokaTCB.detached_counted
    active,     \* the task's share in g_active_detached_task_count
    released,   \* TokaTCB.owner_released
    cleaned,    \* TokaTCB.cold_cleanup_finished
    refs,       \* TokaTCB.ref_count
    pins,       \* TokaTCB.frame_access_state
    freed,      \* 1 once the frame and the TCB are freed
    queued,     \* ready-queue entries of the task
    handle,     \* "held" until the handle is detached or dropped
    guard,      \* result accesses granted and not yet released
    ending,     \* how the running coroutine ends
    call, pc,
    takes,      \* history: results handed to the consumer
    drops,      \* history: runs of result_drop_fn
    fatal       \* has the runtime called abort()?
result_vars == <<result, disp, takes, drops>>
owner_vars == <<owner, detached, released, handle>>
count_vars == <<counted, active>>
memory_vars == <<refs, freed, fatal>>
vars == <<state, result_vars, owner_vars, count_vars, memory_vars, cleaned,
          pins, queued, guard, ending, call, pc>>

Terminal == {"completed", "canceled"}

Init ==
    /\ state = "created" /\ result = "pending"
    /\ owner = "consumer" /\ disp = "unclaimed"
    /\ detached = 0 /\ counted = 0 /\ active = 0 /\ released = 0
    /\ cleaned = 0 /\ refs = 1 /\ pins = 0 /\ freed = 0 /\ queued = 0
    /\ handle = "held" /\ guard = 0 /\ ending = "ready"
    /\ call = [a \in Actors |-> "none"] /\ pc = [a \in Actors |-> "idle"]
    /\ takes = 0 /\ drops = 0 /\ fatal = 0

-----------------------------------------------------------------------------
(* Control.                                                                *)

At(a, p) == pc[a] = p
Goto(a, p) == pc' = [pc EXCEPT ![a] = p]
Enter(a, c, p) == /\ At(a, "idle")
                  /\ call' = [call EXCEPT ![a] = c]
                  /\ Goto(a, p)

\* Where a shared routine returns to.
AfterStart(a) == IF call[a] = "detach" THEN "detCount" ELSE "idle"
AfterCancel(a) == IF call[a] = "drop" THEN "dropCount" ELSE "idle"
AfterPublish(a) == CASE call[a] = "run" -> "clear"
                     [] call[a] \in {"ready", "canceled"} -> "pubDone"
                     [] OTHER -> "coldDone"
AfterOwner(a) == IF call[a] = "detach" THEN "detDone" ELSE "pubExit"

-----------------------------------------------------------------------------
(* References and frame pins.                                              *)

Retain == refs' = refs + 1 /\ UNCHANGED <<freed, fatal>>

\* toka_task_release: the last reference retires the frame, which must have
\* no pin left, and frees frame and TCB.
LastReferenceMutant == refs <= 2
LastReference == refs = 1
ReleaseWith(p) ==
    /\ refs' = refs - 1
    /\ freed' = IF LastReference THEN 1 ELSE freed
    /\ fatal' = IF refs = 0 \/ (LastReference /\ p # 0) THEN 1 ELSE fatal
Release == ReleaseWith(pins)

Unchanged == UNCHANGED <<result_vars, owner_vars, count_vars, cleaned, guard,
                         ending>>

-----------------------------------------------------------------------------
(* toka_task_start.                                                        *)

ClaimStart(a) ==
    /\ At(a, "claim")
    /\ IF state = "created" THEN state' = "queued" /\ Goto(a, "push")
                            ELSE UNCHANGED state /\ Goto(a, "startDone")
    /\ UNCHANGED <<memory_vars, pins, queued, call>> /\ Unchanged

\* The queue entry has a reference of its own; a task that ended meanwhile is
\* not queued any more.
PushReady(a) ==
    /\ At(a, "push")
    /\ IF state = "queued" THEN queued' = queued + 1 /\ Retain
                           ELSE UNCHANGED <<queued, memory_vars>>
    /\ Goto(a, "startDone")
    /\ UNCHANGED <<state, pins, call>> /\ Unchanged

StartDone(a) ==
    /\ At(a, "startDone")
    /\ Release
    /\ Goto(a, AfterStart(a))
    /\ UNCHANGED <<state, pins, queued, call>> /\ Unchanged

-----------------------------------------------------------------------------
(* The worker.                                                             *)

\* The queue's reference becomes the worker's; the frame is pinned.
PopReady ==
    /\ queued > 0 /\ state = "queued"
    /\ Enter(Worker, "run", "running")
    /\ queued' = queued - 1
    /\ state' = "running" /\ pins' = pins + 1
    /\ UNCHANGED memory_vars /\ Unchanged

\* The entry of a task that is no longer queued is thrown away.
PopStale ==
    /\ At(Worker, "idle")
    /\ queued > 0 /\ state # "queued"
    /\ queued' = queued - 1
    /\ Release
    /\ UNCHANGED <<state, pins, call, pc>> /\ Unchanged

\* The coroutine ends in toka_task_complete or toka_task_complete_canceled.
EndCoroutine ==
    /\ At(Worker, "running")
    /\ ending' \in {"ready", "canceled"}
    /\ Goto(Worker, "pubEnter")
    /\ UNCHANGED <<state, result_vars, owner_vars, count_vars, memory_vars,
                   cleaned, pins, queued, guard, call>>

\* toka_task_clear_current unpins the frame, then the reference is released.
ClearCurrent ==
    /\ At(Worker, "clear")
    /\ pins' = pins - 1
    /\ ReleaseWith(pins - 1)
    /\ Goto(Worker, "idle")
    /\ UNCHANGED <<state, queued, call>> /\ Unchanged

-----------------------------------------------------------------------------
(* toka_task_publish_terminal.                                             *)

\* What the publisher publishes: the end of the coroutine, what an outside
\* caller asked for, or the cancellation of a task that never ran.
Ending(a) == CASE call[a] = "run" -> ending
               [] call[a] = "ready" -> "ready"
               [] OTHER -> "canceled"

PublishEnter(a) ==
    /\ At(a, "pubEnter")
    /\ IF state = "finalizing" /\ (Ending(a) # "canceled" \/ cleaned = 0)
         THEN Goto(a, AfterPublish(a)) /\ UNCHANGED <<memory_vars, pins>>
         ELSE Retain /\ pins' = pins + 1 /\ Goto(a, "pubCas")
    /\ UNCHANGED <<state, queued, call>> /\ Unchanged

\* The one linearization point of the end of a task.
CanPublishMutant == result # "canceled"
CanPublish == result = "pending"
PublishResult(a) ==
    /\ At(a, "pubCas")
    /\ IF CanPublish THEN result' = Ending(a) /\ Goto(a, "pubState")
                     ELSE UNCHANGED result /\ Goto(a, "pubExit")
    /\ UNCHANGED <<state, disp, takes, drops, owner_vars, count_vars,
                   memory_vars, cleaned, pins, queued, guard, ending, call>>

PublishState(a) ==
    /\ At(a, "pubState")
    /\ state' = IF Ending(a) = "ready" THEN "completed" ELSE "canceled"
    /\ Goto(a, "pubCount")
    /\ UNCHANGED <<memory_vars, pins, queued, call>> /\ Unchanged

\* What the exchange of the counted flag takes off the counter.
Uncount == counted
UncountDetached(a) ==
    /\ At(a, "pubCount")
    /\ counted' = 0
    /\ active' = active - Uncount
    /\ Goto(a, "drain")
    /\ UNCHANGED <<state, result_vars, owner_vars, memory_vars, cleaned, pins,
                   queued, guard, ending, call>>

PublishExit(a) ==
    /\ At(a, "pubExit")
    /\ pins' = pins - 1
    /\ ReleaseWith(pins - 1)
    /\ Goto(a, AfterPublish(a))
    /\ UNCHANGED <<state, queued, call>> /\ Unchanged

PublishDone(a) ==
    /\ At(a, "pubDone")
    /\ Release
    /\ Goto(a, "idle")
    /\ UNCHANGED <<state, pins, queued, call>> /\ Unchanged

-----------------------------------------------------------------------------
(* toka_task_try_drain_detached_result, then toka_task_try_release_owner.  *)

MayDisposeMutant == owner = "detached" /\ result = "ready"
MayDispose == owner = "detached" /\ state = "completed" /\ result = "ready"

\* The check and the claim are two steps: the claim decides.
Drain(a) ==
    /\ At(a, "drain")
    /\ Goto(a, IF MayDispose THEN "dropClaim" ELSE "relOwner")
    /\ UNCHANGED <<state, memory_vars, pins, queued, call>> /\ Unchanged

ClaimableMutant == disp # "dropped"
Claimable == disp = "unclaimed"
ClaimDrop(a) ==
    /\ At(a, "dropClaim")
    /\ IF Claimable
         THEN /\ disp' = "dropping" /\ drops' = drops + 1
              /\ Retain /\ pins' = pins + 1
              /\ Goto(a, "markTaken")
         ELSE /\ UNCHANGED <<disp, drops, memory_vars, pins>>
              /\ Goto(a, "relOwner")
    /\ UNCHANGED <<state, result, takes, owner_vars, count_vars, cleaned,
                   queued, guard, ending, call>>

MarkTaken(a) ==
    /\ At(a, "markTaken")
    /\ result' = "taken"
    /\ Goto(a, "markDropped")
    /\ UNCHANGED <<state, disp, takes, drops, owner_vars, count_vars,
                   memory_vars, cleaned, pins, queued, guard, ending, call>>

MarkDropped(a) ==
    /\ At(a, "markDropped")
    /\ disp' = "dropped"
    /\ pins' = pins - 1
    /\ ReleaseWith(pins - 1)
    /\ Goto(a, "relOwner")
    /\ UNCHANGED <<state, result, takes, drops, owner_vars, count_vars,
                   cleaned, queued, guard, ending, call>>

OwnerDue == detached = 1 /\ state \in Terminal /\ released = 0
ReleaseOwner(a) ==
    /\ At(a, "relOwner")
    /\ IF OwnerDue
         THEN released' = 1 /\ Goto(a, "ownerRef")
         ELSE UNCHANGED released /\ Goto(a, AfterOwner(a))
    /\ UNCHANGED <<state, result_vars, owner, detached, handle, count_vars,
                   memory_vars, cleaned, pins, queued, guard, ending, call>>

ReleaseOwnerRef(a) ==
    /\ At(a, "ownerRef")
    /\ Release
    /\ Goto(a, AfterOwner(a))
    /\ UNCHANGED <<state, pins, queued, call>> /\ Unchanged

-----------------------------------------------------------------------------
(* toka_task_request_cancel, as far as a task that never ran is concerned; *)
(* of any other task it only wakes the coroutine (module TaskWait).        *)

CancelLook(a) ==
    /\ At(a, "cancelLook")
    /\ Goto(a, IF state = "created" THEN "finalize" ELSE "cancelDone")
    /\ UNCHANGED <<state, memory_vars, pins, queued, call>> /\ Unchanged

Finalize(a) ==
    /\ At(a, "finalize")
    /\ IF state = "created"
         THEN state' = "finalizing" /\ Retain /\ pins' = pins + 1
                                    /\ Goto(a, "cleanup")
         ELSE UNCHANGED <<state, memory_vars, pins>> /\ Goto(a, "cancelDone")
    /\ UNCHANGED <<queued, call>> /\ Unchanged

Cleanup(a) ==
    /\ At(a, "cleanup")
    /\ cleaned' = 1
    /\ Goto(a, "pubEnter")
    /\ UNCHANGED <<state, result_vars, owner_vars, count_vars, memory_vars,
                   pins, queued, guard, ending, call>>

FinalizeDone(a) ==
    /\ At(a, "coldDone")
    /\ pins' = pins - 1
    /\ ReleaseWith(pins - 1)
    /\ Goto(a, "cancelDone")
    /\ UNCHANGED <<state, queued, call>> /\ Unchanged

CancelDone(a) ==
    /\ At(a, "cancelDone")
    /\ Release
    /\ Goto(a, AfterCancel(a))
    /\ UNCHANGED <<state, pins, queued, call>> /\ Unchanged

-----------------------------------------------------------------------------
(* The consumer: __toka_task_take_result_access and the end of the access. *)

TakeLook ==
    /\ At(Handle, "takeLook")
    /\ IF state = "completed" /\ owner = "consumer" /\ result = "ready"
         THEN pins' = pins + 1 /\ UNCHANGED memory_vars
                               /\ Goto(Handle, "takeClaim")
         ELSE Release /\ UNCHANGED pins /\ Goto(Handle, "idle")
    /\ UNCHANGED <<state, queued, call>> /\ Unchanged

TakeClaim ==
    /\ At(Handle, "takeClaim")
    /\ IF Claimable
         THEN /\ disp' = "claimed" /\ takes' = takes + 1
              /\ UNCHANGED <<memory_vars, pins>>
              /\ Goto(Handle, "takeCommit")
         ELSE /\ UNCHANGED <<disp, takes>>
              /\ pins' = pins - 1 /\ ReleaseWith(pins - 1)
              /\ Goto(Handle, "idle")
    /\ UNCHANGED <<state, result, drops, owner_vars, count_vars, cleaned,
                   queued, guard, ending, call>>

TakeCommit ==
    /\ At(Handle, "takeCommit")
    /\ result' = "taken"
    /\ guard' = guard + 1
    /\ Goto(Handle, "idle")
    /\ UNCHANGED <<state, disp, takes, drops, owner_vars, count_vars,
                   memory_vars, cleaned, pins, queued, ending, call>>

\* __toka_task_release_result_access; the handle may be gone by then.
ReleaseAccess ==
    /\ At(Handle, "idle") /\ guard > 0
    /\ guard' = guard - 1
    /\ pins' = pins - 1
    /\ ReleaseWith(pins - 1)
    /\ UNCHANGED <<state, result_vars, owner_vars, count_vars, cleaned, queued,
                   ending, call, pc>>

-----------------------------------------------------------------------------
(* toka_task_detach_owned and toka_task_drop_handle.                       *)

DetachOwner ==
    /\ At(Handle, "detCas")
    /\ IF owner = "consumer" THEN owner' = "detached" /\ Goto(Handle, "detFlag")
                             ELSE UNCHANGED owner /\ Goto(Handle, "detDone")
    /\ UNCHANGED <<state, result_vars, detached, released, handle, count_vars,
                   memory_vars, cleaned, pins, queued, guard, ending, call>>

DetachFlag ==
    /\ At(Handle, "detFlag")
    /\ detached' = 1
    /\ Goto(Handle, "detStart")
    /\ UNCHANGED <<state, result_vars, owner, released, handle, count_vars,
                   memory_vars, cleaned, pins, queued, guard, ending, call>>

\* A cold task is started under the runtime's ownership.
DetachStart ==
    /\ At(Handle, "detStart")
    /\ IF state = "created" THEN Retain /\ Goto(Handle, "claim")
                            ELSE UNCHANGED memory_vars /\ Goto(Handle, "detCount")
    /\ UNCHANGED <<state, pins, queued, call>> /\ Unchanged

CountDetached(exempt) ==
    IF state \notin exempt /\ counted = 0
      THEN counted' = 1 /\ active' = active + 1
      ELSE UNCHANGED count_vars

DetachExemptMutant == {"created"}
DetachExempt == Terminal \cup {"created"}
DetachCount ==
    /\ At(Handle, "detCount")
    /\ CountDetached(DetachExempt)
    /\ Goto(Handle, "drain")
    /\ UNCHANGED <<state, result_vars, owner_vars, memory_vars, cleaned, pins,
                   queued, guard, ending, call>>

DetachDone ==
    /\ At(Handle, "detDone")
    /\ Release
    /\ Goto(Handle, "idle")
    /\ UNCHANGED <<state, pins, queued, call>> /\ Unchanged

DropLook ==
    /\ At(Handle, "dropLook")
    /\ Goto(Handle, IF state = "created" THEN "coldCas" ELSE "detCas")
    /\ call' = [call EXCEPT ![Handle] = IF state = "created" THEN @
                                                             ELSE "detach"]
    /\ UNCHANGED <<state, memory_vars, pins, queued>> /\ Unchanged

ColdOwner ==
    /\ At(Handle, "coldCas")
    /\ IF owner = "consumer"
         THEN owner' = "detached" /\ Goto(Handle, "coldFlag")
              /\ UNCHANGED call
         ELSE UNCHANGED owner /\ Goto(Handle, "detCas")
              /\ call' = [call EXCEPT ![Handle] = "detach"]
    /\ UNCHANGED <<state, result_vars, detached, released, handle, count_vars,
                   memory_vars, cleaned, pins, queued, guard, ending>>

ColdFlag ==
    /\ At(Handle, "coldFlag")
    /\ detached' = 1
    /\ Retain
    /\ Goto(Handle, "cancelLook")
    /\ UNCHANGED <<state, result_vars, owner, released, handle, count_vars,
                   cleaned, pins, queued, guard, ending, call>>

DropCount ==
    /\ At(Handle, "dropCount")
    /\ CountDetached(Terminal)
    /\ Goto(Handle, "detDone")
    /\ UNCHANGED <<state, result_vars, owner_vars, memory_vars, cleaned, pins,
                   queued, guard, ending, call>>

-----------------------------------------------------------------------------
(* The calls.  Each begins with a retain; the registry refuses it to a     *)
(* caller whose task is gone.                                              *)

MayCall(a) == (a = Handle /\ handle = "held") \/ (a \in Helpers /\ freed = 0)

Calls(a, c, p) ==
    /\ MayCall(a)
    /\ Enter(a, c, p)
    /\ Retain
    /\ UNCHANGED <<state, pins, queued>> /\ Unchanged

CallStart(a) == Calls(a, "start", "claim")
CallCancel(a) == Calls(a, "cancel", "cancelLook")
CallTake == Calls(Handle, "take", "takeLook")

\* toka_task_complete, toka_task_complete_canceled and the compatibility entry
\* toka_task_publish_result_state, called with the promise of a task whose
\* handle is held.  The caller keeps the promise alive with a reference of its
\* own, which it gives up in PublishDone.
CallPublish(a) ==
    /\ handle = "held"
    /\ \E c \in {"ready", "canceled"} : Calls(a, c, "pubEnter")

GiveUp(c, p) ==
    /\ handle = "held" /\ handle' = "gone"
    /\ Enter(Handle, c, p)
    /\ Retain
    /\ UNCHANGED <<state, result_vars, owner, detached, released, count_vars,
                   cleaned, pins, queued, guard, ending>>
CallDetach == GiveUp("detach", "detCas")
CallDrop == GiveUp("drop", "dropLook")

-----------------------------------------------------------------------------
Shared(a) ==
    \/ ClaimStart(a) \/ PushReady(a) \/ StartDone(a)
    \/ PublishEnter(a) \/ PublishResult(a) \/ PublishState(a)
    \/ UncountDetached(a) \/ PublishExit(a) \/ PublishDone(a)
    \/ Drain(a) \/ ClaimDrop(a) \/ MarkTaken(a) \/ MarkDropped(a)
    \/ ReleaseOwner(a) \/ ReleaseOwnerRef(a)
    \/ CancelLook(a) \/ Finalize(a) \/ Cleanup(a) \/ FinalizeDone(a)
    \/ CancelDone(a)

HandleStep ==
    \/ TakeLook \/ TakeClaim \/ TakeCommit
    \/ DetachOwner \/ DetachFlag \/ DetachStart \/ DetachCount \/ DetachDone
    \/ DropLook \/ ColdOwner \/ ColdFlag \/ DropCount

WorkerStep == PopReady \/ PopStale \/ ClearCurrent

Call == \/ \E a \in Actors : CallStart(a) \/ CallCancel(a)
        \/ \E a \in Publishers : CallPublish(a)
        \/ CallTake \/ CallDetach \/ CallDrop

\* The runtime's own steps; starting a call and ending the coroutine are the
\* program's choice.
Runtime == HandleStep \/ WorkerStep \/ ReleaseAccess \/ \E a \in Actors : Shared(a)

Next == fatal = 0 /\ (Runtime \/ EndCoroutine \/ Call)

Spec == Init /\ [][Next]_vars

\* Every thread inside the runtime, the worker and a granted access go on.
FairSpec ==
    /\ Spec
    /\ \A a \in Actors : WF_vars(fatal = 0 /\ Shared(a))
    /\ WF_vars(fatal = 0 /\ HandleStep)
    /\ WF_vars(fatal = 0 /\ WorkerStep)
    /\ WF_vars(fatal = 0 /\ ReleaseAccess)

-----------------------------------------------------------------------------
(* Properties.                                                             *)

PCs == {"idle", "claim", "push", "startDone", "running", "clear", "pubEnter",
        "pubCas", "pubState", "pubCount", "pubExit", "pubDone", "drain", "dropClaim",
        "markTaken", "markDropped", "relOwner", "ownerRef", "cancelLook",
        "finalize", "cleanup", "coldDone", "cancelDone", "takeLook",
        "takeClaim", "takeCommit", "detCas", "detFlag", "detStart", "detCount",
        "detDone", "dropLook", "coldCas", "coldFlag", "dropCount"}
CallNames == {"none", "start", "cancel", "take", "detach", "drop", "run",
              "ready", "canceled"}

\* Every variable has its type; the detached counter stays in step with the
\* task's counted flag and so never goes below zero.
TypeOK ==
    /\ state \in {"created", "finalizing", "queued", "running"} \cup Terminal
    /\ result \in {"pending", "ready", "canceled", "taken"}
    /\ owner \in {"consumer", "detached"}
    /\ disp \in {"unclaimed", "dropping", "dropped", "claimed"}
    /\ {detached, counted, released, cleaned, freed, fatal} \subseteq {0, 1}
    /\ active = counted
    /\ {refs, pins, queued, guard, takes, drops} \subseteq Int
    /\ handle \in {"held", "gone"}
    /\ ending \in {"ready", "canceled"}
    /\ call \in [Actors -> CallNames]
    /\ pc \in [Actors -> PCs]

\* A result is consumed at most once: it is handed to the consumer or dropped by
\* the runtime, never both and never twice, although publisher, detacher and
\* consumer reach for it at the same time.
ConsumedOnce == takes + drops <= 1

\* The public result byte turns ready before the task is Completed; nobody may
\* touch the payload in between, and a canceled task has no payload at all.
PayloadNeedsCompletion == takes + drops > 0 => state = "completed"

\* Where the terminal state and the result state are both set they agree: a late
\* cancellation does not relabel a normal result.
TerminalAgrees ==
    /\ state = "completed" => result \in {"ready", "taken"}
    /\ state = "canceled" => result = "canceled"

\* Once freed, nobody is inside the TCB or holds a way into it.
FreedMeansUnused ==
    freed = 1 => /\ queued = 0 /\ guard = 0 /\ handle = "gone"
                 /\ \A a \in Actors : pc[a] = "idle"

\* No reference underflow and no retirement of a pinned frame: the runtime never
\* aborts.
NoAbort == fatal = 0

Quiet == queued = 0 /\ guard = 0 /\ \A a \in Actors : pc[a] = "idle"

\* When a task whose handle was given up has ended and nobody is inside the
\* runtime, its memory is freed and its result was consumed.
NothingLeaked ==
    Quiet /\ handle = "gone" /\ state \in Terminal =>
        /\ freed = 1
        /\ state = "completed" => takes + drops = 1

\* __toka_spawn_blocking leaves the executor loop when no detached task is
\* counted: an ended task must not stay counted, a detached one must be counted
\* while it lives.
DetachedCount ==
    (\A a \in Actors : pc[a] \in {"idle", "running"})
      => (active = 1 <=> (detached = 1 /\ state \notin Terminal))

FinalStep ==
    /\ state \in Terminal => state' = state
    /\ result # "pending" => result' \in {result, "taken"}
    /\ result \in {"canceled", "taken"} => result' = result
    /\ disp \in {"dropped", "claimed"} => disp' = disp

\* A terminal state, a published result and a settled disposition are final: a
\* published result may only turn into a taken one, a canceled one into nothing.
Final == [][FinalStep]_vars

\* A task that ended and whose handle was given up is eventually freed.
EventuallyFreed == handle = "gone" /\ state \in Terminal ~> freed = 1

-----------------------------------------------------------------------------
(* The inductive invariant behind ConsumedOnce, PayloadNeedsCompletion,    *)
(* TerminalAgrees and Final.                                               *)

\* Only the worker is ever inside a running coroutine.
RunIsWorkers == \A a \in Actors : call[a] = "run" => a = Worker

\* The winner of the result byte is alone until it has set the state.
OnePublisher ==
    \A a \in Actors : pc[a] = "pubState" =>
        /\ state \notin Terminal
        /\ result = Ending(a)
        /\ \A b \in Actors : pc[b] = "pubState" => b = a

PendingIsOpen == result = "pending" => state \notin Terminal

\* Whoever is about to claim has seen the task Completed.
ClaimantsSawEnd ==
    \A a \in Actors : pc[a] \in {"dropClaim", "takeClaim"} => state = "completed"

Dropping == {"markTaken", "markDropped"}

\* The private disposition word names the one actor that is consuming.
OneConsumer ==
    /\ \A a \in Actors : pc[a] \in Dropping =>
           /\ disp = "dropping"
           /\ \A b \in Actors : pc[b] \in Dropping => b = a
    /\ \A a \in Actors : pc[a] = "takeCommit" => disp = "claimed"
    /\ disp # "unclaimed" => state = "completed"

\* The history counters follow the disposition word.
Accounts ==
    /\ takes = (IF disp = "claimed" THEN 1 ELSE 0)
    /\ drops = (IF disp \in {"dropping", "dropped"} THEN 1 ELSE 0)

\* The inductive invariant: the winner of the result byte and the winner of the
\* disposition word are each alone, and the history follows them.
IInv ==
    /\ TypeOK
    /\ RunIsWorkers
    /\ OnePublisher
    /\ PendingIsOpen
    /\ ClaimantsSawEnd
    /\ OneConsumer
    /\ Accounts
    /\ TerminalAgrees
=============================================================================
