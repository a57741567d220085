------------------------------ MODULE TaskWait ------------------------------
(***************************************************************************)
(* The scheduler and the wait registry of the Toka async runtime           *)
(* (lib/sys/toka_rt.c): how a task goes to sleep on one or two event       *)
(* sources and how exactly one of them, or a cancellation, puts it back on *)
(* the ready queue.                                                        *)
(*                                                                         *)
(* Actors.  Exec is the one thread that runs the executor loop             *)
(* (lib/std/task.tk): it pops a ready task, runs it until it suspends or   *)
(* ends, and fires expired timers and reactor events between tasks.        *)
(* Threads are other threads of the process; they call the entry points    *)
(* that need no running task (try_wake, request_cancel, try_schedule).     *)
(*                                                                         *)
(* Grain.  A step is one critical section of g_rt_mutex or one access to   *)
(* an atomic outside it.  todo[a] is what actor a still has to do: a stack *)
(* of operations, the topmost first.  Where the code reads an atomic in a  *)
(* critical section and acts on it later in the same section while another *)
(* thread may change it without the mutex, the section is two steps and    *)
(* lock names its owner in between.                                        *)
(***************************************************************************)
EXTENDS Integers, Sequences, FiniteSets, FiniteSetsExt

CONSTANTS
    Tasks,        \* the tasks, all created before the run starts
    Exec,         \* the executor thread
    Threads,      \* other threads
    Kinds,        \* how tasks wait: a subset of
                  \* {"single", "pair", "plain"}
    Calls,        \* what is called on a task from outside it: a subset of
                  \* {"wake", "cancel", "schedule"}
    MaxGen,       \* bound on the suspensions of one task, plus its start
    NumSlots,     \* bound on the wait registry
    MaxSlotGen,   \* the last generation of a slot (UINT32_MAX in the code)
    MaxSets,      \* bound on the wait sets created in a run
    MaxCalls      \* bound on the calls from outside

ASSUME ConstantsAssumption ==
    /\ IsFiniteSet(Tasks) /\ IsFiniteSet(Threads) /\ Exec \notin Threads
    /\ Kinds \subseteq {"single", "pair", "plain"}
    /\ Calls \subseteq {"wake", "cancel", "schedule"}
    /\ {MaxGen, NumSlots, MaxSlotGen, MaxSets, MaxCalls} \subseteq Nat
    /\ MaxSlotGen > 0

Actors == {Exec} \cup Threads
Slots == 1 .. NumSlots
Sets == 1 .. MaxSets
NoActor == "nobody"
NoTask == "no task"
NoSlot == 0
NoSet == 0

\* The marks are no actor and no task.
ASSUME MarksAssumption == NoActor \notin Actors /\ NoTask \notin Tasks

VARIABLES
    st,        \* st[t]: TokaTCB.state
    gen,       \* gen[t]: task_schedule_generation
    ticket,    \* ticket[t]: queue_ticket_generation and queue_ticket_published
    cancel,    \* cancel[t]: cancel_requested / cancel_handled
    wait,      \* wait[t]: active_wait_id, active_slot_gen, active_wait_set_id
    queue,     \* the ready queue
    slot,      \* slot[s]: TokaWaitRegistration
    set,       \* set[i]: TokaWaitSet
    lock,      \* who is inside a critical section that is split in two steps
    current,   \* the task whose coroutine Exec is running
    todo,      \* todo[a]: the operations actor a has still to execute
    held,      \* held[t]: the wait tokens in the local variables of t
    fatal,     \* has the runtime called abort()?
    pushed,    \* history: pushed[t][g] counts ready-queue insertions
    calls      \* how many calls came from outside
tcb == <<st, gen, ticket, cancel>>
registry == <<wait, slot, set, fatal>>
ready == <<queue, pushed>>
host == <<current, held, calls>>
vars == <<tcb, registry, ready, host, lock, todo>>

TaskStates == {"created", "finalizing", "queued", "running", "preparing",
               "pending", "suspended", "completed", "canceled"}
Terminal == {"completed", "canceled"}

NoWait == [slot |-> NoSlot, gen |-> 0, set |-> NoSet]
NoTicket == [gen |-> 0, pub |-> FALSE]
FreeSlot(g, dead) == [gen |-> g, inUse |-> FALSE, active |-> FALSE,
                      retired |-> dead, state |-> "waiting", set |-> NoSet,
                      task |-> NoTask, epoch |-> 0]
NewSet == [state |-> "none", winner |-> NoSlot, refs |-> 0,
           commitRef |-> FALSE, task |-> NoTask, epoch |-> 0]

Init ==
    /\ st = [t \in Tasks |-> "created"]
    /\ gen = [t \in Tasks |-> 0]
    /\ ticket = [t \in Tasks |-> NoTicket]
    /\ cancel = [t \in Tasks |-> "none"]
    /\ wait = [t \in Tasks |-> NoWait]
    /\ queue = <<>>
    /\ slot = [s \in Slots |-> FreeSlot(1, FALSE)]
    /\ set = [i \in Sets |-> NewSet]
    /\ lock = NoActor
    /\ current = NoTask
    /\ todo = [a \in Actors |-> <<>>]
    /\ held = [t \in Tasks |-> {}]
    /\ fatal = FALSE
    /\ pushed = [t \in Tasks |-> [g \in 1 .. MaxGen |-> 0]]
    /\ calls = 0

-----------------------------------------------------------------------------
(* Operations on the stack.                                                *)

Op(name, arg) == [op |-> name, arg |-> arg]

Doing(a, name) == todo[a] # <<>> /\ Head(todo[a]).op = name
Arg(a) == Head(todo[a]).arg

\* The topmost operation of a is replaced by the operations in ops.
Continue(a, ops) == todo' = [todo EXCEPT ![a] = ops \o Tail(@)]

\* The arbiter g_rt_mutex can be entered.
Free == lock = NoActor

-----------------------------------------------------------------------------
(* The queue ticket and the ready queue.                                   *)

PreparedTicket(g) == [gen |-> g, pub |-> FALSE]

CanPublish(t, g) == st[t] = "queued" /\ gen[t] = g /\ ticket[t].gen = g

NeedsInsertionMutant(t, g) == CanPublish(t, g)
NeedsInsertion(t, g) == CanPublish(t, g) /\ ~ticket[t].pub

Publish(a) ==
    /\ Doing(a, "publish") /\ Free
    /\ LET t == Arg(a)[1]
           g == Arg(a)[2]
       IN  IF NeedsInsertion(t, g)
             THEN /\ queue' = Append(queue, [task |-> t, gen |-> g])
                  /\ ticket' = [ticket EXCEPT ![t].pub = TRUE]
                  /\ pushed' = [pushed EXCEPT ![t][g] = @ + 1]
             ELSE UNCHANGED <<queue, ticket, pushed>>
    /\ Continue(a, <<>>)
    /\ UNCHANGED <<registry, host, st, gen, cancel, lock>>

\* toka_task_claim_queue_ticket: source -> queued with a fresh ticket.
ClaimMutant(t, source, g) ==
    /\ st' = IF gen[t] = g /\ st[t] = source THEN [st EXCEPT ![t] = "queued"]
                                             ELSE st
    /\ UNCHANGED ticket
Claim(t, source, g) ==
    IF gen[t] = g /\ st[t] = source
      THEN /\ ticket' = [ticket EXCEPT ![t] = PreparedTicket(g)]
           /\ st' = [st EXCEPT ![t] = "queued"]
      ELSE UNCHANGED <<ticket, st>>

Start(a) ==
    /\ Doing(a, "start") /\ Free
    /\ LET t == Arg(a)[1]
       IN  IF st[t] = "created"
             THEN /\ gen' = [gen EXCEPT ![t] = 1]
                  /\ ticket' = [ticket EXCEPT ![t] = PreparedTicket(1)]
                  /\ st' = [st EXCEPT ![t] = "queued"]
                  /\ Continue(a, <<Op("publish", <<t, 1>>)>>)
             ELSE UNCHANGED <<gen, ticket, st>> /\ Continue(a, <<>>)
    /\ UNCHANGED <<registry, ready, host, cancel, lock>>

\* The entry of the queue that a worker may claim.
Claimable(e) ==
    /\ gen[e.task] = e.gen
    /\ ticket[e.task] = [gen |-> e.gen, pub |-> TRUE]
    /\ st[e.task] = "queued"

\* One turn of the loop of toka_task_pop_ready.
PopReady ==
    /\ todo[Exec] = <<>> /\ current = NoTask /\ Free /\ queue # <<>>
    /\ LET e == Head(queue)
       IN  IF Claimable(e)
             THEN /\ st' = [st EXCEPT ![e.task] = "running"]
                  /\ ticket' = [ticket EXCEPT ![e.task] = NoTicket]
                  /\ current' = e.task
             ELSE UNCHANGED <<st, ticket, current>>
    /\ queue' = Tail(queue)
    /\ UNCHANGED <<registry, gen, cancel, lock, todo, held, pushed, calls>>

\* The coroutine returns to the executor loop.
ClearCurrent(a) ==
    /\ Doing(a, "clearCurrent")
    /\ current' = NoTask
    /\ Continue(a, <<>>)
    /\ UNCHANGED <<tcb, registry, ready, lock, held, calls>>

-----------------------------------------------------------------------------
(* Slots and wait sets.                                                    *)

Available == {s \in Slots : ~slot[s].inUse /\ ~slot[s].retired}

\* toka_wait_slot_advance_or_retire_locked on a slot that leaves in_use.
Recycled(r) == IF r.gen = MaxSlotGen THEN FreeSlot(r.gen, TRUE)
                                     ELSE FreeSlot(r.gen + 1, FALSE)

Names(s, g) == slot[s].inUse /\ slot[s].gen = g

ActiveMembers(i) == {s \in Slots : slot[s].active /\ slot[s].set = i}

\* The wait set record x after n references are dropped; at zero it is freed.
Dropped(x, n) == [x EXCEPT !.refs = @ - n,
                           !.state = IF x.refs = n THEN "freed" ELSE @]
Retained(x, n) == [x EXCEPT !.refs = @ + n]

\* Dropping n references of i would go below zero.
Underflow(i, n) == set[i].refs < n

ClearedLink(t, i) == IF wait[t].set = i THEN NoWait ELSE wait[t]

\* toka_tcb_can_install_wait_locked
CanInstall(t) == wait[t] = NoWait /\ st[t] \in {"preparing", "pending"}

\* The k lowest free slots: the code scans the registry from index 0.
Lowest(k) == CHOOSE S \in kSubset(k, Available) :
                 \A s \in S, r \in Available \ S : s < r

Installed(t, i, s) == [slot[s] EXCEPT !.inUse = TRUE, !.active = TRUE,
                          !.state = "waiting", !.set = i, !.task = t,
                          !.epoch = gen[t]]

\* After the installation the library arms the sources and commits; if a
\* source cannot be armed it releases its tokens and aborts the suspension.
ArmedOrRolledBack(a, t, toks) ==
    \/ Continue(a, <<Op("commit", <<t>>), Op("register", <<t>>),
                     Op("clearCurrent", <<t>>)>>)
    \/ Continue(a, [k \in 1 .. Len(toks) |-> Op("release", toks[k])]
                      \o <<Op("abort", <<t>>)>>)

AllocateSingle(a, t) ==
    LET s == Min(Lowest(1))
    IN  /\ slot' = [slot EXCEPT ![s] = Installed(t, NoSet, s)]
        /\ wait' = [wait EXCEPT ![t] = [slot |-> s, gen |-> slot[s].gen,
                                        set |-> NoSet]]
        /\ held' = [held EXCEPT ![t] = @ \cup {<<s, slot[s].gen>>}]
        /\ ArmedOrRolledBack(a, t, <<<<s, slot[s].gen>>>>)
        /\ UNCHANGED set

UnusedSets == {i \in Sets : set[i].state = "none"}

AllocatePair(a, t) ==
    \/ /\ UnusedSets # {}
       /\ LET S == Lowest(2)
              i == Min(UnusedSets)
              one == Min(S)
              two == Max(S)
              toks == <<<<one, slot[one].gen>>, <<two, slot[two].gen>>>>
          IN  /\ slot' = [s \in Slots |-> IF s \in S THEN Installed(t, i, s)
                                                     ELSE slot[s]]
              /\ set' = [set EXCEPT ![i] = [NewSet EXCEPT
                            !.state = "waiting", !.refs = 2, !.task = t,
                            !.epoch = gen[t]]]
              /\ wait' = [wait EXCEPT ![t] = [slot |-> one,
                                              gen |-> slot[one].gen, set |-> i]]
              /\ held' = [held EXCEPT ![t] = @ \cup {toks[1], toks[2]}]
              /\ ArmedOrRolledBack(a, t, toks)
    \/ \* toka_wait_set_create_locked found no identity or no memory
       /\ Continue(a, <<Op("abort", <<t>>)>>)
       /\ UNCHANGED <<slot, set, wait, held>>

Allocate(a) ==
    /\ Doing(a, "allocate") /\ Free
    /\ LET t == Arg(a)[1]
           kind == Arg(a)[2]
       IN  IF ~CanInstall(t)
             THEN /\ Continue(a, <<Op("abort", <<t>>)>>)
                  /\ UNCHANGED <<slot, set, wait, held>>
             ELSE \/ kind = "single" /\ AllocateSingle(a, t)
                  \/ kind = "pair" /\ AllocatePair(a, t)
    /\ UNCHANGED <<tcb, ready, lock, current, fatal, calls>>

-----------------------------------------------------------------------------
(* A source wins: selection, then the commit that any observer can help.   *)

\* The set a selected winner of which task t's progress link still names, if
\* any (toka_wait_registry_help_pending_for_tcb).
PendingSet(t) ==
    LET s == wait[t].slot
    IN  IF /\ s # NoSlot
           /\ Names(s, wait[t].gen)
           /\ slot[s].set # NoSet
           /\ wait[t].set = slot[s].set
           /\ set[slot[s].set].state = "wonPending"
          THEN slot[s].set ELSE NoSet

\* The effect of toka_wait_set_commit_winner_locked on the task of set i.  In
\* state "preparing" the value read is acted on in a second step: the mutex is
\* held, but toka_task_commit_suspend changes the state without it.
CommitWinner(a, i, rest) ==
    LET t == set[i].task
        g == set[i].epoch
    IN  IF set[i].state # "wonPending"
          THEN Continue(a, rest) /\ UNCHANGED <<wait, st, ticket, lock>>
          ELSE /\ wait' = [wait EXCEPT ![t] = ClearedLink(t, i)]
               /\ CASE st[t] = "preparing" ->
                         /\ lock' = a
                         /\ Continue(a, <<Op("pendWake", <<t>>)>> \o rest)
                         /\ UNCHANGED <<st, ticket>>
                    [] st[t] = "suspended" ->
                         /\ ticket' = [ticket EXCEPT ![t] = PreparedTicket(g)]
                         /\ st' = [st EXCEPT ![t] = "queued"]
                         /\ Continue(a, <<Op("publish", <<t, g>>)>> \o rest)
                         /\ UNCHANGED lock
                    [] st[t] = "queued" ->
                         /\ Continue(a, <<Op("publish", <<t, g>>)>> \o rest)
                         /\ UNCHANGED <<st, ticket, lock>>
                    [] OTHER ->
                         Continue(a, rest) /\ UNCHANGED <<st, ticket, lock>>

\* Set i once its winner, if it still has one to commit, is committed.
Committed(i) ==
    IF set[i].state = "wonPending"
      THEN Dropped([set[i] EXCEPT !.state = "inactive", !.commitRef = FALSE], 1)
      ELSE set[i]

\* The aborts of toka_wait_set_commit_winner_locked.
CommitAborts(i) ==
    /\ set[i].state = "wonPending"
    /\ ~set[i].commitRef \/ set[i].refs <= 1

\* toka_wait_set_help_commit_with_ref: the caller's reference is dropped too.
HelpCommit(a) ==
    /\ Doing(a, "helpCommit") /\ Free
    /\ LET i == Arg(a)[1]
       IN  /\ CommitWinner(a, i, <<>>)
           /\ set' = [set EXCEPT ![i] = Dropped(Committed(i), 1)]
           /\ fatal' = (fatal \/ CommitAborts(i) \/ Committed(i).refs < 1)
    /\ UNCHANGED <<ready, host, gen, cancel, slot>>

\* The second half of a section that had read the state "preparing".
PendWake(a) ==
    /\ Doing(a, "pendWake") /\ lock = a
    /\ LET t == Arg(a)[1]
       IN  st' = IF st[t] = "preparing" THEN [st EXCEPT ![t] = "pending"]
                                        ELSE st
    /\ lock' = NoActor
    /\ Continue(a, <<>>)
    /\ UNCHANGED <<registry, ready, host, gen, ticket, cancel>>

\* A loop of the scheduler turns: help a selected winner of t first, or go on.
HelpOrMutant(a, t, again, next) ==
    /\ Continue(a, IF PendingSet(t) # NoSet
                     THEN <<Op("helpCommit", <<PendingSet(t)>>)>> \o again
                     ELSE next)
    /\ UNCHANGED set
HelpOr(a, t, again, next) ==
    IF PendingSet(t) # NoSet
      THEN /\ set' = [set EXCEPT ![PendingSet(t)] = Retained(@, 1)]
           /\ Continue(a, <<Op("helpCommit", <<PendingSet(t)>>)>> \o again)
      ELSE Continue(a, next) /\ UNCHANGED set

\* Every member becomes inactive before anybody can see the task queued.
SelectedMutant(i, s) ==
    [r \in Slots |->
        IF r \in ActiveMembers(i)
          THEN [slot[r] EXCEPT !.active = FALSE,
                               !.state = IF r = s THEN "canceled" ELSE "won"]
          ELSE slot[r]]
Selected(i, s) ==
    [r \in Slots |->
        IF r \in ActiveMembers(i)
          THEN [slot[r] EXCEPT !.active = FALSE,
                               !.state = IF r = s THEN "won" ELSE "canceled"]
          ELSE slot[r]]

\* The set keeps a private reference for its commit; the caller takes one more
\* for the time it works without the mutex.
WonSetMutant(i, s) ==
    Retained([set[i] EXCEPT !.state = "wonPending", !.winner = s,
                            !.commitRef = TRUE], 1)
WonSet(i, s) ==
    Retained([set[i] EXCEPT !.state = "wonPending", !.winner = s,
                            !.commitRef = TRUE], 2)

\* Which source may still decide set i for its task.
Selectable(s, i) ==
    LET t == slot[s].task
    IN  /\ gen[t] = slot[s].epoch
        /\ set[i].epoch = slot[s].epoch
        /\ wait[t].set = i

\* toka_wait_registry_try_wake.  After an outcome "lost" the executor loop
\* releases the slot (release_expired_timers, poll_reactor): whenLost says so.
TryWake(a) ==
    /\ Doing(a, "wake") /\ Free
    /\ LET s == Arg(a)[1]
           g == Arg(a)[2]
           i == slot[s].set
           lost == IF Arg(a)[3] = "release" THEN <<Op("release", <<s, g>>)>>
                                            ELSE <<>>
       IN  \/ /\ ~Names(s, g)
              /\ Continue(a, <<>>)
              /\ UNCHANGED <<slot, set, wait, fatal>>
           \/ /\ Names(s, g) /\ ~slot[s].active
              /\ LET after == IF slot[s].state = "won" THEN <<>> ELSE lost
                 IN  IF set[i].state = "wonPending"
                       THEN /\ set' = [set EXCEPT ![i] = Retained(@, 1)]
                            /\ Continue(a, <<Op("helpCommit", <<i>>)>> \o after)
                       ELSE Continue(a, after) /\ UNCHANGED set
              /\ UNCHANGED <<slot, wait, fatal>>
           \/ /\ Names(s, g) /\ slot[s].active /\ i # NoSet
              /\ IF Selectable(s, i) /\ set[i].state = "waiting"
                   THEN /\ set' = [set EXCEPT ![i] = WonSet(i, s)]
                        /\ slot' = Selected(i, s)
                        /\ fatal' = (fatal \/ set[i].commitRef)
                        /\ Continue(a, <<Op("helpCommit", <<i>>)>>)
                   ELSE /\ Continue(a, IF Selectable(s, i) THEN lost ELSE <<>>)
                        /\ UNCHANGED <<slot, set, fatal>>
              /\ UNCHANGED wait
           \/ /\ Names(s, g) /\ slot[s].active /\ i = NoSet
              /\ slot' = [slot EXCEPT ![s] = Recycled(@)]
              /\ wait' = [wait EXCEPT ![slot[s].task].slot = NoSlot,
                                      ![slot[s].task].gen = 0]
              /\ Continue(a, <<Op("schedule", <<slot[s].task,
                                                slot[s].epoch>>)>>)
              /\ UNCHANGED <<set, fatal>>
    /\ UNCHANGED <<tcb, ready, host, lock>>

-----------------------------------------------------------------------------
(* A whole group is cancelled; a slot is released.                         *)

CanCancelGroup(i) ==
    /\ ActiveMembers(i) # {}
    /\ gen[set[i].task] = set[i].epoch
    /\ wait[set[i].task].set = i
    /\ set[i].state = "waiting"

\* toka_wait_set_cancel_group_and_wake_locked.  The ticket of the task is
\* prepared anew whatever the state of the task is.
CancelGroup(i) ==
    IF CanCancelGroup(i)
      THEN LET t == set[i].task
               n == Cardinality(ActiveMembers(i))
           IN  /\ slot' = [s \in Slots |-> IF s \in ActiveMembers(i)
                                             THEN Recycled(slot[s])
                                             ELSE slot[s]]
               /\ set' = [set EXCEPT ![i] = Dropped([@ EXCEPT
                                               !.state = "inactive"], n)]
               /\ fatal' = (fatal \/ set[i].refs # n)
               /\ wait' = [wait EXCEPT ![t] = ClearedLink(t, i)]
               /\ ticket' = [ticket EXCEPT ![t] = PreparedTicket(gen[t])]
               /\ st' = [st EXCEPT ![t] = IF @ = "suspended" THEN "queued"
                                                             ELSE @]
      ELSE UNCHANGED <<slot, set, fatal, wait, ticket, st>>

\* What the caller of CancelGroup does after the mutex is released.
AfterCancelGroupMutant(i) == <<>>
AfterCancelGroup(i) ==
    IF CanCancelGroup(i) /\ st[set[i].task] = "suspended"
      THEN <<Op("publish", <<set[i].task, gen[set[i].task]>>)>> ELSE <<>>

\* toka_wait_registry_release, by what the token names.
Release(a) ==
    /\ Doing(a, "release") /\ Free
    /\ LET s == Arg(a)[1]
           g == Arg(a)[2]
           i == slot[s].set
       IN  \/ /\ ~Names(s, g)
              /\ Continue(a, <<>>)
              /\ UNCHANGED <<st, ticket, wait, slot, set, lock, fatal>>
           \/ /\ Names(s, g) /\ i # NoSet /\ slot[s].active
              /\ CancelGroup(i)
              /\ Continue(a, AfterCancelGroup(i))
              /\ UNCHANGED lock
           \/ /\ Names(s, g) /\ i # NoSet /\ ~slot[s].active
              /\ CommitWinner(a, i, <<>>)
              /\ slot' = [slot EXCEPT ![s] = Recycled(@)]
              /\ set' = [set EXCEPT ![i] = Dropped(Committed(i), 1)]
              /\ fatal' = (fatal \/ CommitAborts(i)
                                 \/ Committed(i).state # "inactive"
                                 \/ Committed(i).refs < 1)
           \/ /\ Names(s, g) /\ i = NoSet
              /\ slot' = [slot EXCEPT ![s] = Recycled(@)]
              /\ wait' = [wait EXCEPT ![slot[s].task].slot = NoSlot,
                                      ![slot[s].task].gen = 0]
              /\ Continue(a, <<>>)
              /\ UNCHANGED <<st, ticket, set, lock, fatal>>
    /\ UNCHANGED <<ready, host, gen, cancel>>

\* toka_wait_registry_cancel_active: help a selected winner instead, if any.
CancelActive(a) ==
    /\ Doing(a, "cancelActive") /\ Free
    /\ HelpOr(a, Arg(a)[1], <<>>, <<Op("cancelWait", Arg(a))>>)
    /\ UNCHANGED <<tcb, ready, host, wait, slot, lock, fatal>>

CancelWait(a) ==
    /\ Doing(a, "cancelWait") /\ Free
    /\ LET w == wait[Arg(a)[1]]
           live == w.slot # NoSlot /\ Names(w.slot, w.gen)
                                   /\ slot[w.slot].active
       IN  IF live /\ slot[w.slot].set # NoSet
             THEN /\ CancelGroup(slot[w.slot].set)
                  /\ Continue(a, AfterCancelGroup(slot[w.slot].set))
             ELSE /\ Continue(a, IF live
                                   THEN <<Op("release", <<w.slot, w.gen>>)>>
                                   ELSE <<>>)
                  /\ UNCHANGED <<slot, set, fatal, wait, ticket, st>>
    /\ UNCHANGED <<ready, host, gen, cancel, lock>>

\* toka_wait_registry_is_winner, for its only effect: helping the winner.
IsWinner(a) ==
    /\ Doing(a, "isWinner") /\ Free
    /\ LET s == Arg(a)[1]
           i == slot[s].set
       IN  IF Names(s, Arg(a)[2]) /\ i # NoSet /\ set[i].state = "wonPending"
             THEN /\ set' = [set EXCEPT ![i] = Retained(@, 1)]
                  /\ Continue(a, <<Op("helpCommit", <<i>>)>>)
             ELSE Continue(a, <<>>) /\ UNCHANGED set
    /\ UNCHANGED <<tcb, ready, host, wait, slot, lock, fatal>>

-----------------------------------------------------------------------------
(* Suspension: commit, rollback, and the compiler's suspend_and_register.  *)

CommitSuspend(a) ==
    /\ Doing(a, "commit") /\ Free
    /\ HelpOr(a, Arg(a)[1], <<Op("commit", Arg(a))>>,
              <<Op("commitState", Arg(a))>>)
    /\ UNCHANGED <<tcb, ready, host, wait, slot, lock, fatal>>

\* The wait that was installed in vain is torn down before the publication.
AfterPendingClaimMutant(t) == <<Op("publish", <<t, gen[t]>>)>>
AfterPendingClaim(t) ==
    <<Op("cancelActive", <<t>>), Op("publish", <<t, gen[t]>>)>>

CommitState(a) ==
    /\ Doing(a, "commitState")
    /\ LET t == Arg(a)[1]
       IN  \/ /\ st[t] = "preparing"      \* without the mutex
              /\ st' = [st EXCEPT ![t] = "suspended"]
              /\ Continue(a, <<>>)
              /\ UNCHANGED ticket
           \/ /\ st[t] # "preparing" /\ Free
              /\ Claim(t, "pending", gen[t])
              /\ Continue(a, IF st[t] = "pending" THEN AfterPendingClaim(t)
                                                  ELSE <<>>)
    /\ UNCHANGED <<registry, ready, host, gen, cancel, lock>>

AbortSuspend(a) ==
    /\ Doing(a, "abort") /\ Free
    /\ HelpOr(a, Arg(a)[1], <<Op("abort", Arg(a))>>,
              <<Op("abortState", Arg(a))>>)
    /\ UNCHANGED <<tcb, ready, host, wait, slot, lock, fatal>>

AbortState(a) ==
    /\ Doing(a, "abortState")
    /\ LET t == Arg(a)[1]
       IN  Continue(a, IF st[t] \in {"preparing", "pending"}
                         THEN <<Op("cancelActive", <<t>>),
                                Op("abortCas", <<t, st[t]>>)>>
                         ELSE <<>>)
    /\ UNCHANGED <<tcb, registry, ready, host, lock>>

AbortCas(a) ==
    /\ Doing(a, "abortCas")
    /\ LET t == Arg(a)[1]
       IN  IF st[t] = Arg(a)[2]
             THEN st' = [st EXCEPT ![t] = "running"] /\ Continue(a, <<>>)
             ELSE Continue(a, <<Op("abort", <<t>>)>>) /\ UNCHANGED st
    /\ UNCHANGED <<registry, ready, host, gen, ticket, cancel, lock>>

\* toka_task_suspend_and_register, which __builtin_coro_suspend calls whatever
\* the state of the task is: the generation is advanced before the state is
\* examined and taken back when the task was not running.
SuspendAndRegister(a) ==
    /\ Doing(a, "register") /\ Free
    /\ LET t == Arg(a)[1]
       IN  /\ gen' = [gen EXCEPT ![t] = @ + 1]
           /\ IF st[t] = "running"
                THEN /\ st' = [st EXCEPT ![t] = "suspended"]
                     /\ Continue(a, <<>>)
                     /\ UNCHANGED lock
                ELSE /\ lock' = a
                     /\ Continue(a, <<Op("unregister", <<t>>)>>)
                     /\ UNCHANGED st
    /\ UNCHANGED <<registry, ready, host, ticket, cancel>>

TakeBackGeneration(a) ==
    /\ Doing(a, "unregister") /\ lock = a
    /\ gen' = [gen EXCEPT ![Arg(a)[1]] = @ - 1]
    /\ lock' = NoActor
    /\ Continue(a, <<>>)
    /\ UNCHANGED <<registry, ready, host, st, ticket, cancel>>

-----------------------------------------------------------------------------
(* Scheduling by token.  The generation is compared once, before the loop  *)
(* and without the mutex.                                                  *)

TrySchedule(a) ==
    /\ Doing(a, "schedule")
    /\ Continue(a, IF gen[Arg(a)[1]] = Arg(a)[2]
                     THEN <<Op("scheduleLoop", Arg(a))>> ELSE <<>>)
    /\ UNCHANGED <<tcb, registry, ready, host, lock>>

ScheduleLoop(a) ==
    /\ Doing(a, "scheduleLoop") /\ Free
    /\ HelpOr(a, Arg(a)[1], <<Op("scheduleLoop", Arg(a))>>,
              <<Op("scheduleState", Arg(a))>>)
    /\ UNCHANGED <<tcb, ready, host, wait, slot, lock, fatal>>

ScheduleState(a) ==
    /\ Doing(a, "scheduleState")
    /\ LET t == Arg(a)[1]
           g == Arg(a)[2]
       IN  \/ /\ st[t] = "preparing"      \* without the mutex
              /\ st' = [st EXCEPT ![t] = "pending"]
              /\ Continue(a, <<>>)
              /\ UNCHANGED ticket
           \/ /\ st[t] = "suspended" /\ Free
              /\ Claim(t, "suspended", g)
              /\ Continue(a, IF gen[t] = g THEN <<Op("publish", <<t, g>>)>>
                                           ELSE <<Op("scheduleLoop", <<t, g>>)>>)
           \/ /\ st[t] \notin {"preparing", "suspended"}
              /\ Continue(a, IF st[t] = "queued"
                               THEN <<Op("publish", <<t, g>>)>> ELSE <<>>)
              /\ UNCHANGED <<st, ticket>>
    /\ UNCHANGED <<registry, ready, host, gen, cancel, lock>>

-----------------------------------------------------------------------------
(* Cancellation of a task without children, scopes or a pending await.     *)

\* The flags are stored first, without the mutex.
RequestCancel(a) ==
    /\ Doing(a, "cancel")
    /\ cancel' = [cancel EXCEPT ![Arg(a)[1]] = "requested"]
    /\ Continue(a, <<Op("cancelArbiter", Arg(a))>>)
    /\ UNCHANGED <<registry, ready, host, st, gen, ticket, lock>>

\* What is left to do with a task that waits on no group.
CancelUngroupedMutant(t) ==
    CASE st[t] = "created"   -> <<Op("coldCancel", <<t>>)>>
      [] st[t] = "suspended" -> IF wait[t].slot # NoSlot
                                  THEN <<Op("release", <<wait[t].slot,
                                                         wait[t].gen>>)>>
                                  ELSE <<Op("cancelLoad", <<t>>)>>
      [] OTHER               -> <<>>
CancelUngrouped(t) ==
    CASE st[t] = "created"   -> <<Op("coldCancel", <<t>>)>>
      [] st[t] = "suspended" -> IF wait[t].slot # NoSlot
                                  THEN <<Op("wake", <<wait[t].slot, wait[t].gen,
                                                      "keep">>)>>
                                  ELSE <<Op("cancelLoad", <<t>>)>>
      [] OTHER               -> <<>>

\* The last critical section of toka_task_request_cancel.
CancelArbiter(a) ==
    /\ Doing(a, "cancelArbiter") /\ Free
    /\ LET t == Arg(a)[1]
           s == wait[t].slot
           grouped == st[t] # "created" /\ s # NoSlot /\ slot[s].active
                                       /\ slot[s].set # NoSet
       IN  /\ IF grouped THEN CancelGroup(slot[s].set)
                         ELSE UNCHANGED <<slot, set, fatal, wait, ticket, st>>
           /\ IF st[t] = "preparing"
                THEN lock' = a /\ Continue(a, <<Op("pendWake", <<t>>)>>)
                ELSE /\ Continue(a, IF grouped
                                      THEN AfterCancelGroup(slot[s].set)
                                      ELSE CancelUngrouped(t))
                     /\ UNCHANGED lock
    /\ UNCHANGED <<ready, host, gen, cancel>>

\* A suspended task with no registration: its generation is read after the
\* mutex was released, and only then claimed.
CancelLoad(a) ==
    /\ Doing(a, "cancelLoad")
    /\ LET t == Arg(a)[1]
       IN  Continue(a, <<Op("cancelClaim", <<t, gen[t]>>)>>)
    /\ UNCHANGED <<tcb, registry, ready, host, lock>>

CancelClaim(a) ==
    /\ Doing(a, "cancelClaim") /\ Free
    /\ LET t == Arg(a)[1]
           g == Arg(a)[2]
       IN  /\ Claim(t, "suspended", g)
           /\ Continue(a, IF gen[t] = g /\ st[t] = "suspended"
                            THEN <<Op("publish", <<t, g>>)>> ELSE <<>>)
    /\ UNCHANGED <<registry, ready, host, gen, cancel, lock>>

\* toka_task_finalize_cold_cancel: a task that never ran is finalized once.
ColdCancel(a) ==
    /\ Doing(a, "coldCancel")
    /\ LET t == Arg(a)[1]
       IN  IF st[t] = "created"
             THEN /\ st' = [st EXCEPT ![t] = "finalizing"]
                  /\ Continue(a, <<Op("terminal", <<t, "canceled">>)>>)
             ELSE Continue(a, <<>>) /\ UNCHANGED st
    /\ UNCHANGED <<registry, ready, host, gen, ticket, cancel, lock>>

\* toka_task_publish_terminal, as far as scheduling and waits go.
PublishTerminal(a) ==
    /\ Doing(a, "terminal") /\ Free
    /\ LET t == Arg(a)[1]
       IN  /\ st' = [st EXCEPT ![t] = Arg(a)[2]]
           /\ Continue(a, <<Op("cancelActive", <<t>>), Op("reap", <<t>>)>>)
           /\ held' = [held EXCEPT ![t] = {}]
    /\ UNCHANGED <<registry, ready, gen, ticket, cancel, lock, current,
                   calls>>

\* The outcome slots that a terminal task will never read.
Unread(t) == {s \in Slots : /\ slot[s].inUse /\ ~slot[s].active
                            /\ slot[s].task = t /\ slot[s].set # NoSet
                            /\ set[slot[s].set].state = "inactive"}

ReapTerminalOutcomes(a) ==
    /\ Doing(a, "reap") /\ Free
    /\ LET gone == Unread(Arg(a)[1])
           of(i) == {s \in gone : slot[s].set = i}
       IN  /\ slot' = [s \in Slots |-> IF s \in gone THEN Recycled(slot[s])
                                                   ELSE slot[s]]
           /\ set' = [i \in Sets |-> IF of(i) = {} THEN set[i]
                         ELSE Dropped(set[i], Cardinality(of(i)))]
           /\ fatal' = (fatal \/ \E i \in Sets :
                                   Underflow(i, Cardinality(of(i))))
    /\ Continue(a, <<>>)
    /\ UNCHANGED <<tcb, ready, host, wait, lock>>

-----------------------------------------------------------------------------
(* The code of the running task, between two calls of the runtime.         *)

\* The coroutine of t is at a point where it chooses its next call.
Runs(t) == current = t /\ todo[Exec] = <<>>

Call(a, ops) == todo' = [todo EXCEPT ![a] = ops]

SlotsFor(kind) == CASE kind = "single" -> 1 [] kind = "pair" -> 2

\* toka_task_prepare_suspend_token and its uninterruptible variant.
PrepareSuspend(t, kind, interruptible) ==
    /\ Runs(t) /\ st[t] = "running" /\ Free
    /\ gen[t] < MaxGen /\ Cardinality(Available) >= SlotsFor(kind)
    /\ gen' = [gen EXCEPT ![t] = @ + 1]
    /\ st' = [st EXCEPT ![t] = IF interruptible /\ cancel[t] = "requested"
                                 THEN "pending" ELSE "preparing"]
    /\ Call(Exec, <<Op("allocate", <<t, kind>>)>>)
    /\ UNCHANGED <<registry, ready, host, ticket, cancel, lock>>

\* __builtin_coro_suspend with no preparation.
PlainSuspend(t) ==
    /\ Runs(t) /\ gen[t] < MaxGen
    /\ Call(Exec, <<Op("register", <<t>>), Op("clearCurrent", <<t>>)>>)
    /\ UNCHANGED <<tcb, registry, ready, host, lock>>

\* The task asks who won and gives a token back.
ReadOutcome(t) ==
    /\ Runs(t)
    /\ \E tok \in held[t] :
           /\ held' = [held EXCEPT ![t] = @ \ {tok}]
           /\ Call(Exec, <<Op("isWinner", tok), Op("release", tok)>>)
    /\ UNCHANGED <<tcb, registry, ready, lock, current, calls>>

\* toka_task_mark_current_cancellation_handled
MarkHandled(t) ==
    /\ Runs(t) /\ cancel[t] = "requested" /\ Free
    /\ cancel' = [cancel EXCEPT ![t] = "handled"]
    /\ UNCHANGED <<registry, ready, host, st, gen, ticket, lock, todo>>

Complete(t) ==
    /\ Runs(t)
    /\ Call(Exec, <<Op("terminal", <<t, "completed">>),
                    Op("clearCurrent", <<t>>)>>)
    /\ UNCHANGED <<tcb, registry, ready, host, lock>>

-----------------------------------------------------------------------------
(* Calls from outside the task concerned.                                  *)

\* Every token the registry ever gave out; a source may keep one for ever.
Issued == {tok \in Slots \X (1 .. MaxSlotGen) :
              \/ tok[2] < slot[tok[1]].gen
              \/ tok[2] = slot[tok[1]].gen
                   /\ (slot[tok[1]].inUse \/ slot[tok[1]].retired)}

CallStart(a, t) ==
    /\ todo[a] = <<>> /\ st[t] = "created"
    /\ Call(a, <<Op("start", <<t>>)>>)
    /\ UNCHANGED <<tcb, registry, ready, host, lock>>

External(a, kind, ops) ==
    /\ todo[a] = <<>> /\ kind \in Calls /\ calls < MaxCalls
    /\ calls' = calls + 1
    /\ Call(a, ops)
    /\ UNCHANGED <<tcb, registry, ready, lock, current, held>>

\* A timer expires or a reactor event arrives (Exec, between two tasks), or a
\* thread signals.
CallWake(a, tok) ==
    /\ a = Exec => current = NoTask
    /\ External(a, "wake",
                <<Op("wake", <<tok[1], tok[2], IF a = Exec THEN "release"
                                                           ELSE "keep">>)>>)

CallCancel(a, t) == External(a, "cancel", <<Op("cancel", <<t>>)>>)

\* A caller of toka_task_try_schedule_token holds a generation it has read.
CallSchedule(a, t, g) ==
    /\ a # Exec
    /\ External(a, "schedule", <<Op("schedule", <<t, g>>)>>)

-----------------------------------------------------------------------------
Step(a) ==
    \/ Publish(a) \/ Start(a) \/ ClearCurrent(a) \/ Allocate(a)
    \/ HelpCommit(a) \/ PendWake(a) \/ TryWake(a) \/ Release(a)
    \/ CancelActive(a) \/ CancelWait(a) \/ IsWinner(a)
    \/ CommitSuspend(a) \/ CommitState(a)
    \/ AbortSuspend(a) \/ AbortState(a) \/ AbortCas(a)
    \/ SuspendAndRegister(a) \/ TakeBackGeneration(a)
    \/ TrySchedule(a) \/ ScheduleLoop(a) \/ ScheduleState(a)
    \/ RequestCancel(a) \/ CancelArbiter(a) \/ CancelLoad(a)
    \/ CancelClaim(a) \/ ColdCancel(a) \/ PublishTerminal(a)
    \/ ReapTerminalOutcomes(a)

User(t) ==
    \/ \E kind \in Kinds \ {"plain"} : PrepareSuspend(t, kind, TRUE)
    \/ "single" \in Kinds /\ PrepareSuspend(t, "single", FALSE)
    \/ "plain" \in Kinds /\ PlainSuspend(t)
    \/ ReadOutcome(t) \/ MarkHandled(t) \/ Complete(t)

Outside(a) ==
    \/ \E t \in Tasks : CallStart(a, t) \/ CallCancel(a, t)
    \/ \E tok \in Issued : CallWake(a, tok)
    \/ \E t \in Tasks : \E g \in 1 .. Min({gen[t], MaxGen}) : CallSchedule(a, t, g)

Next ==
    /\ ~fatal
    /\ \/ PopReady
       \/ \E a \in Actors : Step(a) \/ Outside(a)
       \/ \E t \in Tasks : User(t)

\* The executor loop keeps running its task, its queue and its sources.
ExecutorRuns ==
    ~fatal /\ (PopReady \/ Step(Exec) \/ \E t \in Tasks : User(t))

Spec == Init /\ [][Next]_vars
FairSpec == Spec /\ WF_vars(ExecutorRuns)
                 /\ \A a \in Threads : WF_vars(~fatal /\ Step(a))

-----------------------------------------------------------------------------
(* Properties.                                                             *)

\* Nobody is inside the runtime or a coroutine.
Idle == lock = NoActor /\ current = NoTask /\ \A a \in Actors : todo[a] = <<>>

\* Every variable has its type; in particular a slot generation never passes
\* the last one (the slot is retired instead) and no identity wraps around.
TypeOK ==
    /\ st \in [Tasks -> TaskStates]
    /\ gen \in [Tasks -> 0 .. MaxGen + 1]
    /\ ticket \in [Tasks -> [gen : 0 .. MaxGen, pub : BOOLEAN]]
    /\ cancel \in [Tasks -> {"none", "requested", "handled"}]
    /\ wait \in [Tasks -> [slot : 0 .. NumSlots, gen : 0 .. MaxSlotGen,
                           set : 0 .. MaxSets]]
    /\ queue \in Seq([task : Tasks, gen : 1 .. MaxGen])
    /\ slot \in [Slots -> [gen : 1 .. MaxSlotGen, inUse : BOOLEAN,
                           active : BOOLEAN, retired : BOOLEAN,
                           state : {"waiting", "won", "canceled"},
                           set : 0 .. MaxSets, task : Tasks \cup {NoTask},
                           epoch : 0 .. MaxGen]]
    /\ set \in [Sets -> [state : {"none", "waiting", "wonPending", "inactive",
                                  "freed"},
                         winner : 0 .. NumSlots, refs : Nat,
                         commitRef : BOOLEAN, task : Tasks \cup {NoTask},
                         epoch : 0 .. MaxGen]]
    /\ lock \in Actors \cup {NoActor}
    /\ current \in Tasks \cup {NoTask}
    /\ held \in [Tasks -> SUBSET (Slots \X (1 .. MaxSlotGen))]
    /\ fatal \in BOOLEAN
    /\ pushed \in [Tasks -> [1 .. MaxGen -> Nat]]
    /\ calls \in 0 .. MaxCalls

\* None of the consistency checks of the wait registry that end in abort() fails,
\* whatever the order in which sources, cancellations, helpers, releases and the
\* end of the task reach a wait set.
NoAbort == ~fatal

\* Exactly-once scheduling: one suspension epoch of a task enters the ready queue
\* at most once, however many wakers, helpers and cancellers race for it.
EpochQueuedOnce == \A t \in Tasks, g \in 1 .. MaxGen : pushed[t][g] <= 1

\* The actors on their way to help commit set i; that operation is always the
\* topmost of its stack.
Helpers(i) == {a \in Actors : Doing(a, "helpCommit") /\ Arg(a)[1] = i}

\* The reference count of a wait set is exact: one per outcome slot, one for an
\* uncommitted winner, one per helper on its way.  A set is therefore freed when
\* and only when nobody can reach it any more.
WaitSetRefs ==
    \A i \in Sets :
        /\ set[i].refs = Cardinality({s \in Slots : slot[s].set = i})
                         + Cardinality(Helpers(i))
                         + (IF set[i].commitRef THEN 1 ELSE 0)
        /\ set[i].state = "freed" => set[i].refs = 0

\* A registration that can still win belongs to the current epoch of its task and
\* is the one the task links to: no wake can be meant for a suspension that is
\* over.
RegistrationIsCurrent ==
    \A s \in Slots : slot[s].active /\ Free =>
        /\ gen[slot[s].task] = slot[s].epoch
        /\ wait[slot[s].task].set = slot[s].set
        /\ slot[s].set = NoSet => wait[slot[s].task].slot = s

\* When a task that nobody cancelled runs again after a race of two sources, the
\* set is committed and its outcome slots name exactly one winner: race2 takes
\* "the first did not win" for "the second won".
RaceDecided ==
    \A t \in Tasks, i \in Sets :
        (/\ Runs(t) /\ cancel[t] = "none"
         /\ set[i].task = t /\ set[i].epoch = gen[t]
         /\ \E s \in Slots : slot[s].set = i)
        => /\ set[i].state = "inactive" /\ set[i].winner # NoSlot
           /\ \A s \in Slots : slot[s].set = i =>
                 (slot[s].state = "won" <=> s = set[i].winner)

Waits(t) == wait[t].slot # NoSlot /\ slot[wait[t].slot].active

\* A task in the state Queued has an entry in the ready queue that the worker
\* will accept, once every call on it has returned: no ticket is lost.
QueuedIsClaimable ==
    Idle => \A t \in Tasks : st[t] = "queued" =>
               \E k \in 1 .. Len(queue) : queue[k].task = t /\ Claimable(queue[k])

\* A task that is suspended when every call on it has returned still has an
\* active registration: nobody has consumed the wake-up without delivering it.
SuspendedIsRegistered ==
    Idle => \A t \in Tasks : st[t] = "suspended" => Waits(t)

\* The executor loop resumes every task that was queued.
QueuedRuns == \A t \in Tasks : st[t] = "queued" ~> st[t] = "running"

\* A cancellation that reaches a suspended task makes it run again, whatever it
\* was waiting for.
CancelWakes ==
    \A t \in Tasks :
        (/\ st[t] = "suspended"
         /\ \E a \in Actors : Doing(a, "cancel") /\ Arg(a) = <<t>>)
        ~> st[t] = "running"
=============================================================================
