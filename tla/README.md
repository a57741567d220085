# A verification model of Toka

Toka is a compiled systems language.  Its repository holds a compiler (lexer,
parser, semantic analysis, LLVM code generation), a runtime in C
(`lib/sys/`) and a standard library in Toka (`lib/core`, `lib/std`, `lib/stdx`).
This project models the concurrent core of runtime and library, the code in
which a mistake is a lost wake-up, a value destroyed twice or never, or memory
freed under a thread that still uses it, and which tests reach only by luck; and
the borrow checker of the compiler, on which the memory safety of every program
rests and whose mistakes are programs accepted that should not be.

## Inventory

| component | state it keeps | operations | what makes it correct |
|---|---|---|---|
| native thread handoff (`lib/sys/toka_thread_handoff_v1.c`) | control block: native state, result state, reference count, environment packet, result lease | prepare, start, join, detach, drop of the handle, trampoline | packet and result consumed exactly once, block freed exactly once and by the last of two holders, a failed call leaves the handle usable |
| task scheduler (`lib/sys/toka_rt.c`) | task state, schedule generation, queue ticket, ready queue | start, prepare / commit / abort a suspension, schedule, pop, complete | one suspension enters the ready queue once, and a queued task is claimable |
| wait registry and wait sets (`toka_rt.c`) | slots with generations, sets of two sources with winner and reference count, the task's link to its wait | allocate, wake, help a winner, cancel a group, release, reap | one winner per race, no wake-up lost, no stale wake-up, exact reference counts |
| cancellation (`toka_rt.c`) | requested / handled flags | request, cold cancellation, mark handled | a cancelled suspended task runs again |
| completion, results and TCB lifetime (`toka_rt.c`) | terminal state, result byte, result owner, private disposition, reference count, frame pins, detached counter | publish, take, detach, drop, release | result consumed at most once and only after completion, nothing leaked, no use after free |
| channels (`lib/std/channel.tk`, `ring.tk`) | two-stack queue, closed flag, endpoint counts, two condition variables | clone, send, recv, try_recv, drop | one bounded FIFO queue, no lost wake-up |
| direct await (`toka_rt.c`, `CodeGen_Expr.cpp`) | the child's continuation word, the parent's await resolution, links between the two | prepare, resolve, child's terminal observation, cancellation, the drain barrier | the parent resumes exactly once with the winner's answer |
| completion subscriptions (`toka_rt.c`) | subscriber array of a task, state of each subscription | subscribe, publish, unsubscribe, teardown with the parent's wait | each subscription ends once, by publisher or unsubscriber |
| structured scopes (`toka_rt.c`) | open / closing / closed, children, parent's weak list | create, enrol, cancel all, finish, release | no child outlives its scope or escapes its cancellation |
| task identity registry (`toka_rt.c`) | task ids and instance generations | allocate, look up, retire | an old token never names a new task |
| executor and timers (`lib/std/task.tk`) | timer heap, host loop | run turn, blocking spawn, poll | every expired timer fires once, the loop ends when it should |
| locks, Once, WaitGroup (`lib/std/sync.tk`) | native mutexes and condition variables, counters | lock, wait, add, done | once is once, wait returns at zero |
| borrow checker (`src/Sema/PAL_Checker.cpp`, driven by `Sema*.cpp`) | ledger of loans per scope, carriers of borrows, transient markers, moved flags | record, commit, clear, release, verify, merge of branches, cleanup of a scope | every reference really held is on record, no accepted operation meets a loan it excludes |
| rest of the compiler, tools, collections, files and network | trees, text, containers, descriptors | | not modelled, see below |

How they interact.  A program's tasks run on one executor thread
(`lib/std/task.tk`), which pops ready tasks, resumes their coroutines and
between two tasks fires timers and reactor events.  A task suspends by
allocating registrations in the wait registry, preparing a suspension, and
committing it; a source later calls `try_wake`, which elects a winner, moves the
task to `Queued` and publishes its queue ticket.  Cancellation does the same from
the other side.  Every one of these entry points may also be called by another
thread of the process.  At its end a task publishes its result, hands it to a
consumer or drops it, and gives back the references that queue, worker,
publisher, subscribers and owner hold.  A task that awaits another one suspends
without a registration: the child's publisher resumes it, and a cancellation
walks from a task to the child it awaits, to the children it races and to those
enrolled in its scopes.  Native threads and channels are independent of the
executor.  The borrow checker runs at compile time and shares nothing with the
rest but the rules for what `TaskScope` may borrow.

What is hard.  The runtime protects most of its state with one mutex but changes
the task state and the schedule generation with bare atomics, so that a decision
made under the mutex may be out of date when it is carried out.  Several parties
(sources, helpers, cancellers, publishers, detachers) try to decide the same
thing and the losers must do nothing.  Ownership is handed between threads by
reference counts and one-way flags.  `PROJECT.json` lists these hazards at
the lines where they bite, including those of the components that are still to
be modelled.

## Modules

| module | models | proofs | TLC |
|---|---|---|---|
| `ThreadHandoff` | native thread handoff | `ThreadHandoffProofs` | `MCThreadHandoff` |
| `TaskWait` | scheduler, ready queue, wait registry, cancellation | `TaskWaitProofs` | `MCTaskWait` |
| `TaskResult` | terminal publication, results, TCB lifetime | `TaskResultProofs` | `MCTaskResult` |
| `Channel` | channels over the two-stack queue | `ChannelProofs` | `MCChannel` |
| `BoundedFifo` | abstract: what a channel promises | (implemented by `Channel`) | |
| `Await` | direct awaits, their resolution and the cancellation of await chains | `AwaitProofs` | `MCAwait` |
| `TaskScope` | structured scopes and the cancellation of their children | `TaskScopeProofs` | `MCTaskScope` |
| `Executor` | executor loops, timer heap, sleeps, readiness | `ExecutorProofs` | `MCExecutor` |
| `PAL` | the borrow checker's ledger | `PALProofs` | `MCPAL` |

**ThreadHandoff.**  Two actors share one control block: the owner of the
move-only handle and the worker's trampoline.  A step is one section under the
control's mutex, the code between two such sections, or one native call.
`owner` and `worker` are their program counters, `op` the handle operation the
owner is in; the other variables are fields of the block and histories of how
often packet and result were used.  Allocations and native calls may fail, at
most `MaxFailures` times.  A failed `require` ends the process and is kept in
`fatal`.

**TaskWait.**  A step is one critical section of `g_rt_mutex` or one access to an
atomic outside it.  `todo[a]` is the stack of operations actor `a` still has to
execute, so that a function that releases the mutex and goes on later is several
actions with anything in between.  Where the code reads an atomic inside a
critical section and acts on it later in the same section, and another thread
may change that atomic without the mutex, the section is two steps with `lock`
held.  Tasks behave as the library's `delay` and `race2` do (`lib/std/async.tk`)
and as the compiler's plain suspension does.  The actors are the executor `Exec`
and other `Threads`.

**TaskResult.**  One task, seen by the thread that owns its handle, by the worker,
by helpers that know the TCB's address and may start or cancel it, and by
publishers that call the public completion entry points.  A step is one atomic
operation or one critical section; suspensions are part of `running`, because
they do not touch what this module is about.

**Channel.**  Everything in a channel happens under its mutex, so a step is one
critical section: from `lock`, or the return of `wait_cond`, to `unlock` or the
next `wait_cond`.  `notEmpty` and `notFull` are the threads asleep on each
condition variable; a thread that was removed from them takes the mutex again
later, after any number of newcomers.  `SpuriousWake` is the condition variable's
own freedom.  The queue is the pair of stacks of `RingCore`, with the refill that
moves the older half of one onto the other.  `Fifo` instantiates `BoundedFifo`
with the queue `Reverse(front) \o back`.

**Await.**  A step is one atomic access or one critical section.  `frame[t]` is
the program point of t's coroutine in the code the compiler emits for an await
(`CodeGen_Expr.cpp`, 9203 to 9536), `tcb` and `promise` the words of the runtime,
`pub[t]` the publication of t's end, `call[x]` the stack of a canceller's
recursive walk down the awaited children.  The resolution of an await loads the
cancellation flag in one step (`Resolve`) and swaps the word in another
(`ClaimNormal`), as the code does.  `Plan` gives each task the awaits it
performs: `plain` (`.await`), `catch` (`.await?`, which handles a cancellation)
or `barrier` (the drain of a scope, which a cancellation does not cut short).
On the executor's thread a canceller runs to its end while no coroutine does
(`cpu`); a canceller in `Threads` interleaves with everything.

**TaskScope.**  The actors are the parent task, which owns the scopes and calls
their methods in any order, and cancellers of the parent on other threads.  A
step is one critical section, or one of the calls the code makes after it on a
child of the list it copied: `kids` are the copied and retained children an actor
still has to deal with.  A child is reduced to started, running, ended, with its
result and the owner of that result.  `Servers` are children that end only when
cancelled, so that a cancellation that misses one is a drain that never returns.
`Racers` are on the parent's cancellation list, so that a walk of the parent's
cancellation also meets them while the owner drops their handle: the look at the
state, the claim of the result, the mark and the request of that drop are steps
of their own (`DropHandle`, `DropClaims`, `DropMarks`, `DropCancels`).

**Executor.**  The blocking loop and the host-driven turn, as program points of
`exec`; the driver is chosen at the start.  The heap is a sequence with the
code's `sift_up` and `sift_down`.  A wait is a slot with a generation; when it is
over the slot is reused at once while the timer entry stays in the heap.  A wait
for readiness may be refused by the reactor, which spends a generation of its slot
(`WaitRefused`), and a task may take back what the reactor still has for a wait of
its own that is over (`Unregister`).
Time passes between any two steps except between reading the clock for a
timeout and entering the poll with it.

**PAL.**  A behaviour is the analysis of one accepted program, in the order in
which Sema visits it: acceptance is the guard of an action.  `pal` holds the
checker's ledger, carriers and transient markers and the moved flags; `flow` the
open blocks, with the snapshots Sema takes at a branch.  Next to the analysis
runs one execution of the same program, which takes one arm of each branch:
`loans` are the references it really holds, `clash` the accepted operations that
hit a loan that excludes them, with `drop` (a variable moved nowhere) told apart
from `flagged` (one moved in an arm the execution did not take, which its drop
flag still destroys).  The checker never sees `loans`, so the
properties compare two independent accounts.  `Reborrows = 0` restricts the
programs to those that do not borrow again, in the same scope, a path that has an
entry there; with `1` the finding below appears.  A `for` over references lends its
collection for the body, exclusively if the alias is writable; where the collection
already has an entry the checker records nothing.  `AliasedFors = 0` leaves out the
writable loops of that kind, which the checker accepts and should not (see
`PALAliasedFor.cfg`).  A `for` that copies the elements of an array records no loan
(`src/Sema/Sema_Expr.cpp:4590`) and is to the ledger an `if` without `else`.  An
execution runs a body once or not at all.  A `return` is judged against every scope
it leaves (`Leaving`).

## What the runs check

Runs that pass:

| run | instance | shows |
|---|---|---|
| `thread_handoff` | owner, worker, 3 failures | no require fails, no use after free, packet and result consumed once and not leaked, join returns |
| `taskwait_group` | 1 task, 2 threads, 2 suspensions on two sources, 3 calls | the registry never aborts, an epoch is queued once, set references are exact, a race has one winner and its reader sees it |
| `taskwait_single` | 1 task, 1 thread, single-source and plain suspensions, calls by token | the ticket of a queued task is not lost |
| `taskwait_executor` | 2 tasks, no other thread, 2 suspensions each | no wake-up is lost, a registration that can win belongs to the current suspension, a cancelled suspended task runs again |
| `taskresult_helpers` | owner, worker, 2 helpers that also publish | the result is consumed at most once and after completion, ends are final, no use after free, the detached counter is right |
| `channel_bounded` | 3 senders, 3 places, 2 sends each | no lost wake-up on either side, one bounded FIFO, blocked sends return when they can |
| `await_executor` | 5 tasks: a root that awaits a parent that drains and awaits with `.await?`; 2 cancellations from the executor's thread | no await takes a result that is not there, a parent resumes only after its child's end and with the links cleared, a cancellation always reaches the task asleep at the end of the chain |
| `await_threads` | a chain of 3 tasks, 2 native threads, 2 cancellations | a task goes on with the value of an await only if it is not cancelled, or the cancellation that asks for it is still between its flag and its claim; every await returns |
| `task_scope` | 2 children (one ends only when cancelled), 1 scope, 1 canceller | the protocol never aborts, counts are exact, results are disposed of, no child escapes a cancellation, close and shutdown return, orphans that were started end and are freed |
| `executor` | 2 tasks, both loops, 2 entries left over by earlier sleeps | no sleeper is woken early by a stale entry or event, no poll runs past a deadline, every sleep ends |
| `pal` | an array of two elements, a reference, a value with a destructor, 4 operations, 3 scopes, loops of one round | loans really held are on record, no accepted operation breaks one, nothing that no arm of a branch moved dangles |

One run finds a disagreement between the code and what the repository says of it:

* `pal_lost_loan`: `recordBorrow` shares the entry of a path that has one in the
  scope, and marks it transient again.  The end of the statement erases it, also
  when an earlier statement committed it for a reference that lives on.  After
  `auto &r = &x` a call `f(&x)` makes the ledger forget that x is lent.
  Two relatives go the same way: the `releaseBorrow` at the end of a `for`
  erases a loan that the body committed to an outer reference, and an `if`
  without `else` whose condition borrows x merges that marker over a loan
  committed in its arm.

Further configurations are kept beside the runs.  These show what the code does
against a comment, a document or a test:

* `TaskWaitLostGroupWake.cfg` (`SuspendedIsRegistered`): the commit of a winner
  (`toka_rt.c:5292`) reads `Preparing` and then swaps it, ignoring a failure;
  `commit_suspend` needs no mutex and can fall in between.  The wait is consumed
  and its task sleeps for good, where `docs/async_runtime_p5_spec.md:314` has the
  source "committed through the pending-wake ticket".
* `TaskWaitLostSingleWake.cfg` (`SuspendedIsRegistered`):
  `suspend_and_register` (`toka_rt.c:3009`) raises the generation and takes it
  back; a wake-up that compares in between is dropped as stale.
* `TaskWaitDoubleEntry.cfg` (`EpochQueuedOnce`): group cancellation
  (`toka_rt.c:5764`) prepares a fresh ticket for a task that is already queued,
  and a helper inserts a second entry; `docs/async_runtime_tcb_rfc.md:44` says
  "AT MOST ONCE".
* `TaskWaitStaleCancel.cfg` (`RegistrationIsCurrent`): two cancellations of one
  wait.  The executor's has taken the registration away and not yet claimed the
  task; the other thread's finds a suspended task that waits for nothing,
  releases the mutex and reads the generation (`toka_rt.c:6077`) only when the
  task has run and suspended anew.  It claims that later suspension, whose
  registration stays active while the task runs on.
  `docs/async_runtime_tcb_rfc.md:584` has a cancellation look again: "If a
  different active-set token is observed, the algorithm restarts".
* `TaskResultColdDropLeak.cfg` (`NothingLeaked`): dropping the handle of a task
  that looked cold (`toka_rt.c:3886`) leaks it when the task ended meanwhile.
  `TaskResultOwner.cfg` shows that without a helper thread everything is freed.
* `ChannelSendAfterClose.cfg` (`ClosedRejectsSend`): a sender woken by `recv`
  does not look at `closed` again (`channel.tk:103`) and sends into a channel
  whose receiver is gone.
* `AwaitDrainTrap.cfg` (`NoTrap`): a task that caught its ancestor's cancellation
  with `.await?` and then drains a scope with `join_scoped`.  The helper task of
  the drain still sees the ancestor's cancellation and ends Canceled;
  `resolve_await_barrier` calls that a normal end; the task itself no longer
  counts as cancelled, asks for the helper's result, gets none and executes
  `llvm.trap` (`CodeGen_Expr.cpp:9480`).  `docs/scoped_tasks_v1_guide.md:55`
  promises an "uninterruptible drain barrier".
* `AwaitCancelWindow.cfg` (`JointClaim`): the resolution of an await loads
  `cancel_requested` (`toka_rt.c:3699`, 3716) and then swaps the word (3703, 3742).
  A native thread that stores the flag in between (5949) and claims later (5959)
  finds `NormalClaimed`, and the cancelled task goes on with the value.
  `docs/async_runtime_p5_spec.md:490` asks for a "joint claim against child terminal
  kind and parent cancellation, not a sampled cancel-state load".  What the code does
  keep is `CancelBeatsResult`: such a canceller is still inside its call, so that a
  cancellation that has got past its claim before the task's is never ignored.
* `TaskScopeColdDropLeak.cfg` (`OrphansFreed`): the cold drop of
  `TaskResultColdDropLeak.cfg` seen from a scope.  A walk of the parent's
  cancellation ends a child that was never started between the look at its state
  (`toka_rt.c:3886`) and the mark (3890) of the owner's drop; nobody releases the
  owner's reference.  `OrphansEnd` of the run therefore speaks of children that were
  started or that no walk of the parent meets cold.
* `PALAliasedFor.cfg` (`NoAliasedWrite`): `for alias x#` over a collection that a
  reference already holds.  The gate at `src/Sema/Sema_Expr.cpp:4595` skips
  `recordBorrow`, and with it the conflict, for a collection that has an entry, so
  that the body writes to what is lent.
  `docs/semantic_core/for_alias_binding_rfc.md:59` says "any requested write/rebind
  establishes an exclusive loan for the loop lifetime".
* `PALSecondRound.cfg` (`RoundsAgree`): a body is analysed once, from the ledger
  before the loop.  A loan that the body leaves behind is not in that ledger, so a
  second round starts from a state against which no statement of the body was
  judged.
* `PALConditionalMove.cfg` (`NoFlaggedDrop`): a variable moved in one arm counts
  as moved after the join (`src/Sema/Sema_Expr.cpp:3669`), so `checkCleanupScope`
  does not look at it (`if (!info->Moved)`); where the other arm ran, its drop
  flag still destroys it (`src/CodeGen/CodeGen_Stmt.cpp:684`), also under a value
  of an outer scope that was given a view of it in that arm.  The comment at
  `src/Sema/Sema.cpp:3671` says "check each source before that source is retired".
  The shortest such program has five operations, one more than the run `pal`
  goes through; the search for an invariant of programs of every length met it.

`ThreadHandoffMore.cfg`, `TaskWaitMore.cfg`, `TaskWaitExecutorMore.cfg`,
`TaskResultMore.cfg`, `ChannelMore.cfg` and `ExecutorMore.cfg` check, in the same
instances, type invariants, the inductive invariants of the proofs and the
properties that the runs above leave to them (errors keep the thread handle, a
closed handle is freed, queued tasks run, recv returns, the blocking loop
returns once all its tasks are done).

Other disagreements met on the way.  `QueuedIsClaimable` fails for one thread
that may wake and cancel a task with single and two-source suspensions
(`MaxGen = 3`, `MaxCalls = 3`): a cancellation delayed after it released the mutex
claims a later suspension, and the ticket reset of a second cancellation makes
the worker drop the only entry.  `try_schedule` compares the generation once,
before its retry loop, so that a delayed caller can mark a pending wake on a
later suspension.  With a canceller on a native thread `ResumedByChildOnly` and
`CancelReachesSleeper` fail: the canceller looks for an awaited child before the
parent has linked one and then claims the parent's suspension, where
`docs/async_runtime_p5_spec.md:389` calls the child's end "the sole
parent-resumption edge".  `spawn_scoped` asserts that it is not refused, so that a
task whose parent is cancelled just before ends the process
(`lib/std/async.tk:260`).  `join_async` catches a cancellation that arrives in its
sleep, so its own `cancel_all` runs only for a cancellation it finds before it
sleeps; the children are reached through the parent's list of scopes.  And
`race2` does not give back the reference of the losing child when it is
cancelled in the sleep between its looks (`lib/std/async.tk:91`).

The configurations of tasks with a violation need a second thread calling into the
runtime, except `AwaitDrainTrap`, which happens on the executor's own.

### Bounds

`MaxFailures = 3` lets each of prepare, start and a handle operation fail in one
behaviour.  In TaskWait `MaxGen = 3` gives a start and two suspensions,
enough for a late call to meet the next one; `NumSlots = 4` and `MaxSets = 2`
give each of two races its own slots, `MaxSlotGen = 2` makes slots reach their
last generation and retire, which the code does at 2^32 - 1; `MaxCalls = 3`
allows two wakes and a cancellation, with two threads inside at once.  TaskResult
needs no bound beyond its actors; two helpers suffice for every pair of racing
entry points beside owner and worker.  In Channel three senders
fill three places and sleep while others overtake, and refills of one to three
elements happen with values left on either stack; a channel without a bound
and longer refills are covered by the theorem `Refinement`.  In Await five tasks give
every kind of await a task above and below it, and two cancellations let a second
one meet the handling of the first; with native threads, three tasks and one
await each keep every atomic access a step of its own.  One scope with two
children meets every order of enrolment, reaping, closing, dropping and one walk
of a canceller; scopes interact only through the parent's list.  In Executor
three ticks, sleeps of one or two and two leftover entries give heaps of four
entries in every order, so that both children of a node are compared, and let a
slot serve a second wait while the first one's entry is in the heap.  Four
operations in PAL are enough to lend, branch, lend again and use; two array
elements and a dynamic index give every relation between two paths, and three
scopes a branch inside a branch.  Symmetry is
used only over threads and array elements that the specification does not tell
apart, and in no run with a liveness property.

### Fairness

Assumed is only that a thread inside the runtime goes on: weak fairness of the
owner's and the worker's next step in ThreadHandoff, of each actor's pending
operation and of the executor's pop in TaskWait (the loop of
`__toka_spawn_blocking` pops until the queue is empty), of each actor inside an
entry point, of the worker and of a consumer giving back the result it was
granted access to (generated code always does) in TaskResult, and of a woken thread taking the
mutex in Channel.  In Await weak fairness of `Step` keeps coroutines, publishers and cancellers
inside their calls going, leaves being woken by their source; in TaskScope calls
under way go on (`Proceed`) and a started child ends if it can (`EndChild`, which
for a `Servers` child needs a cancellation); in Executor the loop keeps running
and the running task suspends or ends (`Loop`), and the clock advances: strongly
fair, because the loop disables it for the moment between computing a timeout
and polling, over and over.  No thread is ever obliged to call anything, no source to
fire, no sender to send.

## What is proved

`tlapm` checks every proof with its SMT and Zenon backends, and LS4 for the
temporal steps.

**ThreadHandoffProofs**, for every `MaxFailures`: `TypeCorrect`, `RequiresHold`,
`NoUseAfterFree`, `AtMostOnce`, `NoLeak`.  None of these is inductive: a field
of the block is legal at one program point and not at another.  `IInv` adds
where the two threads stand: `ReferencesInv` (the count is exactly the number of
responsibilities held), `NativeInv` (the native state follows the owner's
operation), `ResultInv` (result, lease and packet follow the worker and then
whoever closes the handle), `UsesInv` (the histories are determined by the rest).
The same invariant gives two action properties: `DiscardsInOrder`
(`DiscarderIsDecidedByOrder`: who discards an unjoined result) and
`FailedCallKeepsHandle` (`FailureKeepsHandle`: a failing join or detach can be
tried again).

**TaskResultProofs**, for any finite set of helpers and any publishers among them: `TypeCorrect`,
`AtMostOneConsumer`, `NoEarlyPayload`, `LabelsAgree`, `EndIsFinal` (an action
property).  Two words decide everything: the result byte elects the publisher
of the terminal state, the disposition word elects the consumer of the payload.
`IInv` says that each election has one winner while the winner is at work
(`OnePublisher`, `OneConsumer`), that nobody enters the second before the first
ended in Completed (`ClaimantsSawEnd`), and that the histories follow
(`Accounts`).

**ChannelProofs**, for any finite set of senders, any number of sends and any
capacity: `TypeCorrect`, `EndpointCounts`, `ReceiverIsWoken`, `SendersAreWoken`
and `Refinement`, the implementation of `BoundedFifo`.  The lemmas about the
queue (`PushAppends`, `PopTakesHead`, `RefillKeepsQueue`) say what the stack
operations do to `Reverse(front) \o back` for sequences of every length.  `IInv`
adds `BlockedHolds`: a thread blocked in a call keeps its endpoint, so the last
sender's drop finds nobody asleep on `notFull`, and has a value to send.
`SendersAreWoken` counts woken senders against free places: a `recv` adds one of
each, a push takes one place and at most one woken sender.  `NothingLostOrTwice`
(`EachValueOnce`) keeps the four places of a value apart (`OnceInv`): a value is
named by its sender and the number of the call, so a call of `send` brings a new
one, and every later step moves one value from one place to another.

The reference counts of TaskResult rest on a second invariant, `RefInv`: the
TCB's count is the owner's reference, the queue's, the start guard's and what
each actor holds at the program point it is at, the frame pins likewise, and the block is freed exactly when the count is zero.  From it follow
`RuntimeNeverAborts` (`NoAbort`), `NoUseAfterFree` (`FreedMeansUnused`) and, with
`IInv`, `DetachedCountExact`.  Sets of holders change by at most the actor that
moved, so that every step is arithmetic over one actor (`CardinalityOfMove`).

**TaskScopeProofs**, for any children, finitely many scopes and cancellers: `ScopeTypeCorrect`,
`ScopeNeverAborts`, `ScopeRefsExact`, `ScopeResultsDisposed`,
`ScopeCancelReaches`.  They hold with the drop of a handle in its separate steps;
the reference a cold drop leaks still counts as the owner's.  `ScopeIInv` counts the holders of each child, scope and
parent in the same way and says what an actor holds at each program point (`LocalInv`).
The rest is the protocol: the scope the owner is at is its own and `finish_close`
is reached with all children ended (`OwnerInv`), a result that the scope owes is
in the hands of a scope or of an actor that took the child out of one
(`TaskInv`), and as long as a cancellation stands, a scope with a child that was
not asked has a canceller that has not come to it yet (`WalkInv`, `ReachInv`).

**AwaitProofs**, for any tree or graph of awaits and any callers, threads or not:
`CancelBeatsResultHolds`, an action property.  `NormalClaimed`, the only word that
lets a task go on with the value, must not be left over when the task resolves:
`AwaitIInv` says that an await that is armed and not resolved never has it.  Between
the load of the flag and the swap a canceller may store the flag; `AskedInv` says
that it is then still before its claim.  The stronger `JointClaim` is false.

The other theorems of `AwaitProofs` are about programs whose cancellers all run on
the executor's thread (`OnExecutor`) and whose tasks are awaited by one task only
(`AwaitedOnce`: an await takes the child's only continuation word and its only
result, `src/CodeGen/CodeGen_Expr.cpp:9466`), with any number of tasks, awaits and
cancellations.  `ResumedByChildOnlyHolds` and
`CancelReachesSleeperHolds` rest on `ChainHolds`: `ChainInv` says where a coroutine
stands, by the state of its task (`Where`), how far the publication of its end has
come (`Ends`), that the child's continuation and the links of parent and child name
each other exactly until that publication clears them (`Link`, `Links`), and which
call of a walking canceller executes (`Cold`, `Caller`).  A child to be awaited has
not run (`Fresh`), and while a cancelled task sleeps, a canceller is on its way down
to it (`Reach`, `OnTheWay`).  The hypothesis on the cancellers is needed: with a
native thread both properties are false, see above.

`NoTrapHolds` says that no await asks for a result that is not there.  Its extra
hypothesis `DrainPlan` is that a task does not drain a scope after an `.await?`, and
that the helper task of a drain only drains, as `join_scoped` awaits `join_async`;
the first half is needed (`AwaitDrainTrap.cfg`).  The word of an await follows the
end of the child (`Word`), so that the normal branch finds a live result unless it
is a drain (`Outcome`).  A drain also takes it after a child that ended Canceled, and
then must find its own task cancelled: the cancellation came down through this task,
since nobody else has a handle of the helper (`Stack`, `BarrierFresh`, `Drained`),
and no `.await?` has handled it (`Caught`).  The plan of the run `await_executor`
satisfies all three hypotheses.

**ExecutorProofs**, for any finite set of tasks, any number of slots and timer
heaps of every size: `ExecutorTypeCorrect`, `SleepersNeverEarly` (`NeverEarly`) and
`PollsNeverOversleep` (`NeverOversleeps`).  `NeverOversleeps` needs the order of the
heap (`Heaped`), and that needs what `sift_up` and `sift_down` do: a swap keeps the
entries, and each sift moves the only place where the order may be broken until
it is gone.  The sifts are recursive functions; what they compute for a heap of
any size is shown through the least heap position at which the claim fails, a set
of naturals that turns out to be empty (`NoDescent`, `WellDefined`).
`ExecutorInv` adds why a stale entry wakes nobody: entries and events never carry a
generation that the slot has not reached (`AgesInv`), a slot in use belongs to one
task that sleeps and every sleeper has one, with its entry (`SlotsInv`, `SleepInv`),
an entry that still names a wait has the deadline of that wait (`NamesInv`), and the
ready queue holds tasks that are not asleep (`QueueInv`).

**TaskWaitProofs**, for any tasks, threads, slots, sets and generations, and every
mixture of suspensions and callers: `WaitSetRefsHolds` and `WaitNeverAborts`.
`RegistryInv` says that a set's count is the number of its outcome slots, plus
the actors about to help its winner, plus one for a winner not yet committed
(`RefsInv`); that slots and sets agree on whether the race is decided (`SlotInv`,
`SetInv`), which keeps a recycled slot out of an old set; and that the slots an
allocation needs are still there when it happens (`AllocInv`), because only the
executor takes any.

Two further groups of theorems have a hypothesis on the callers.  With `OneSource`
(no task waits for two sources) and any threads: `EpochQueuedOnceHolds`,
`QueuedIsClaimableHolds`.  `TicketInv` says that a queued task keeps the ticket of
its epoch, and that the ticket is published and its entry is in the queue, or
some actor still has the publication to execute (`Ticket`); an epoch that has not
ended yet is in no queue (`Pushes`).  The epoch of a task is its generation, less one
while `suspend_and_register` is about to take an increment back (`Epoch`,
`Undone`).  With two-source suspensions the first is false
(`TaskWaitDoubleEntry.cfg`).

With `Alone` (no thread but the executor's enters the runtime and every suspension is
prepared) and both kinds of waits: `RegistrationIsCurrentHolds`,
`SuspendedIsRegisteredHolds`, `RaceDecidedHolds`.  The operations that the executor
still has to execute are a stack, and in its middle all three are false: an event
has been consumed and the task it is for is not yet scheduled, a task is terminal
and its wait is not yet cancelled.  `AloneInv` says for the registrations that can
still win (`Live`) that their task links to them (`Linked`); that a task which is
not on its way to sleep has none, or the topmost operation takes it away (`Quiet`);
and that a suspended task has one, or the topmost operation schedules it or
commits its winner (`Asleep`).  The rest is what makes that inductive: what each
operation on the stack counts on (`Sound`), and those that only the topmost can be
(`TopInv`), that a task on its way to sleep has a call to return
from (`Returns`), that a token which a task holds names its own registration or
none (`Held`), and that a set and its members agree on suspension and winner
(`Group`, `Decided`, `Won`).  One lemma says what a step has to show of the
operations it pushes and of tasks and slots (`MoveInv`); the lemma of each action
cites it.  A thread that wakes or cancels makes the first two false
(`TaskWaitStaleCancel.cfg`, `TaskWaitLostGroupWake.cfg`,
`TaskWaitLostSingleWake.cfg`).

**PALProofs**, for programs of every length and depth over any set of paths,
references and values, with `Reborrows = 0` and `AliasedFors = 0` and for executions
that go through each loop body at most once: `PALTypeCorrect`,
`LoansAlwaysCovered`, `AcceptedIsAliasFree`, `AcceptedMovesAreSafe`,
`AcceptedScopesAreSafe`.  The difficulty is that the analysis is often not where
the execution is: while the other arm is analysed, the ledger says nothing of
the loans held.  `PALInv` therefore speaks of `Point(n)`, the checker state from
which the analysis will go on along the execution: the current one, the
snapshot before the branch or the one after its first arm.  Each loan is on
record there, by an entry that is `Firm`: no end of a statement, an arm or a loop
still to come erases it.  That needs the markers of transient borrows to be
accounted for (`Markers`) and every snapshot to keep the entries of the loops
around it (`Snapshot`, `FrameInv`), an exclusive one as exclusive (`Exclusive`).
Lemmas say what each operation of the
checker does to its maps; the proof of a step cites those and no definition of a
map.  The hypotheses are needed: without `Reborrows = 0` `LoansCovered` is
false (`pal_lost_loan`), without `AliasedFors = 0` `NoAliasedWrite`
(`PALAliasedFor.cfg`).

The `IInv` of ThreadHandoff and TaskResult are also invariants of the
configurations `ThreadHandoffMore.cfg` and `TaskResultMore.cfg`.

Assumptions are the named `ASSUME`s of the modules: bounds are naturals, actors
are distinct, the marks for nobody and no task are neither actor nor task, and where holders are counted the sets of actors are finite.  In
Await tasks and callers are distinct, in Executor the tasks are finitely many and
there is at least one slot.  In PAL names of different kinds are distinct, and every variable is a path with a
root.  TLC evaluates them in every run.

Only model-checked:

* all liveness properties, and with them everything that needs fairness or
  ENABLED;
* in TaskWait `RaceDecided` with other threads and `EpochQueuedOnce` with
  two-source waits: the run `taskwait_group` has both with wakers and cancellers,
  and the second is false once a thread also schedules;
* in Await the liveness property `AwaitReturns`, and the plans that the
  hypotheses above leave out;
* `NothingLeaked` of TaskResult, false in general (`TaskResultColdDropLeak.cfg`);
* PAL with `Reborrows = 1` or `AliasedFors = 1`.

## What is not modelled

Memory is sequentially consistent: the weaker orderings of individual atomics
are not modelled.  Left out of the modelled components: descriptor and ABI
validation and the Windows half of the thread handoff; the growth of arrays,
generations of 64 bits, wait sets of more than two sources; completion
subscriptions and the task identity registry; failing mutexes (the code asserts);
the ring's operations that channels do not use.  The mailbox
(`lib/std/task_mailbox.tk`) adds no state to a channel.

Between modules: a child of `TaskScope` and a wait of `Executor` are reductions of
what `TaskResult` and `TaskWait` have in full, and the three walks of a
cancellation (awaited child, racing children, scopes) are in two modules, not in
one.  The owner of `TaskScope` runs `close` and `shutdown` as its own calls.  In the
code `close().await` and `shutdown_async().await` are plain awaits of a task that does
so (only `join_async`, `join_scoped` and `cancel_and_join` are drain barriers,
`src/Sema/Sema_TaskResult.cpp:163`): a parent that is already cancelled unwinds at once
and detaches that task (`src/CodeGen/CodeGen_Expr.cpp:9266`, 9392), which goes on by
itself.  That path is not modelled.

In the borrow checker: `upgradeBorrow` (it looks at the innermost exact entry
only), receipts and the borrows of call arguments, partial moves, dereferences and
unknown provenance, `match`, `while` and `loop`, and every execution with a second
round of a loop (`PALSecondRound.cfg`).  In two places the checker of the model
accepts more than the code: the declaration of a value also commits the entries it
depends on (`depsToCommitAsBorrow`, `src/Sema/Sema_Stmt.cpp:3411`), and a call that
stores a borrow records the whole variable, not the path
(`src/Sema/Sema_Expr_Call.cpp:6727`).

The rest of the compiler, most of the repository's lines, is type checking,
generic instantiation, effect summaries and the emission of LLVM IR: sequential
functions of unbounded syntax trees without a protocol or an interleaving to
check, for which a TLA+ text would repeat the code.  What they emit enters the
models where it drives the runtime (awaits, suspensions, completions).  Files,
network and TLS are calls of the operating system; `PROJECT.json` gives the
reason for each part.

## Plan

1. Proofs that remain: `RaceDecided` and `EpochQueuedOnce` of `TaskWait` for
   two-source waits with foreign wakers.
2. `CompletionSub`: subscriptions of a task and their teardown with the parent's
   wait, composed with the wait sets of `TaskWait`.
3. One module for the whole walk of a cancellation, with `Await` and `TaskScope` as
   its parts.
4. `TaskRegistry` (identities at their numeric edge), `Sync` (Once, WaitGroup),
   atomic file replacement.
