------------------------------ MODULE Executor ------------------------------
(***************************************************************************)
(* The executor of the standard library: the blocking loop                 *)
(* __toka_spawn_blocking and the host-driven turn pump_with_host, with the *)
(* timer heap, sleep_async, readiness events and the wait slots they use.  *)
(*                                                                         *)
(* Time is a clock of ticks that never runs while the program computes a   *)
(* timeout and enters a poll with it; it may run between any other steps.  *)
(* A wait is a single registration (module TaskWait has the wait protocol  *)
(* in full); its slot is reused, under the next generation, as soon as the *)
(* wait is over, while its timer entry stays in the heap until it expires. *)
(***************************************************************************)
EXTENDS Naturals, Sequences, FiniteSets

CONSTANTS Tasks,      \* the root and the tasks it detached
          Root,       \* the task __toka_spawn_blocking was called with
          Durations,  \* arguments of sleep_async, in ticks
          NumSlots,   \* bound on the slots of the wait registry
          PollCap,    \* the longest poll: 100 ms, or the host's maximum
          MaxTime,    \* bound on the clock
          MaxWaits,   \* bound on the waits of one task
          Leftovers,  \* entries of cancelled sleeps in the heap at the start
          None

ASSUME ExecutorAssumption ==
    /\ Root \in Tasks /\ IsFiniteSet(Tasks)
    /\ None \notin Tasks
    /\ Durations \subseteq Nat
    /\ {PollCap, MaxTime, MaxWaits, Leftovers} \subseteq Nat
    /\ NumSlots \in Nat \ {0}

VARIABLES now,     \* current_time_ms
          heap,    \* g_timer_queue.data: [id, gen, at]
          slot,    \* the wait registry: generation, and the task waiting
          events,  \* registrations the reactor will report: [id, gen]
          task,    \* state, end of the wait it is in, cancellation, waits
          ready,   \* the ready queue
          exec     \* the loop: driver, program point, task it runs, the time
                   \* it sampled, whether the turn found work, end of a poll

vars == <<now, heap, slot, events, task, ready, exec>>

Slots == 1..NumSlots
Entries == [id : Slots, gen : Nat, at : Nat]
Points == {"drain", "timers", "poll", "drain2", "host", "timers2", "drain3",
           "returned"}

TypeOK ==
    /\ now \in 0..MaxTime
    /\ heap \in Seq(Entries)
    /\ slot \in [Slots -> [gen : Nat, task : Tasks \cup {None}]]
    /\ events \subseteq [id : Slots, gen : Nat]
    /\ task \in [Tasks -> [state : {"Queued", "Running", "Suspended", "Done"},
                           due : 0..MaxTime, canceled : {0, 1},
                           waits : 0..MaxWaits]]
    /\ ready \in Seq(Tasks)
    /\ exec \in [driver : {"blocking", "pump"}, pc : Points,
                 cur : Tasks \cup {None}, seen : 0..MaxTime, work : {0, 1},
                 until : Nat]

-----------------------------------------------------------------------------
(* TimerHeap: a binary heap in a vector, the earliest entry at its top.    *)

Swapped(h, i, j) == [h EXCEPT ![i] = h[j], ![j] = h[i]]

\* A heap and the place of one of its entries
Places == {hc \in Seq(Entries) \X Nat : hc[2] \in DOMAIN hc[1]}

\* sift_up: an entry climbs while it is earlier than its parent
SiftUp[hc \in Places] ==
    LET parent == hc[2] \div 2
    IN  IF hc[2] > 1 /\ hc[1][hc[2]].at < hc[1][parent].at
          THEN SiftUp[<<Swapped(hc[1], hc[2], parent), parent>>]
          ELSE hc[1]

\* Mutant: the entry is compared with its left child only.
SmallestMutant(h, i) ==
    IF 2 * i <= Len(h) /\ h[2 * i].at < h[i].at THEN 2 * i ELSE i

\* The earliest of an entry and its children, the entry itself on a tie
Smallest(h, i) ==
    LET left == IF 2 * i <= Len(h) /\ h[2 * i].at < h[i].at THEN 2 * i ELSE i
    IN  IF 2 * i + 1 <= Len(h) /\ h[2 * i + 1].at < h[left].at
          THEN 2 * i + 1 ELSE left

\* sift_down: an entry sinks while a child is earlier
SiftDown[hc \in Places] ==
    LET smallest == Smallest(hc[1], hc[2])
    IN  IF smallest # hc[2]
          THEN SiftDown[<<Swapped(hc[1], hc[2], smallest), smallest>>]
          ELSE hc[1]

Push(h, e) == SiftUp[<<Append(h, e), Len(h) + 1>>]
Pop(h) == IF Len(h) = 1 THEN <<>>
          ELSE SiftDown[<<SubSeq([h EXCEPT ![1] = h[Len(h)]], 1, Len(h) - 1), 1>>]

-----------------------------------------------------------------------------
\* The heap that pushing the given deadlines in order leaves, for entries of
\* waits that are over
LeftHeap[ats \in Seq(Nat)] ==
    IF ats = <<>> THEN <<>>
    ELSE Push(LeftHeap[SubSeq(ats, 1, Len(ats) - 1)],
              [id |-> 1, gen |-> 0, at |-> ats[Len(ats)]])

\* The root is started; the tasks it detached are queued behind it.  The
\* process may have cancelled sleeps before: their entries are in the heap.
Init ==
    /\ now = 0
    /\ \E ats \in [1..Leftovers -> 1..MaxTime] : heap = LeftHeap[ats]
    /\ slot = [i \in Slots |-> [gen |-> 1, task |-> None]]
    /\ events = {}
    /\ task = [t \in Tasks |-> [state |-> "Queued", due |-> 0, canceled |-> 0,
                                waits |-> 0]]
    /\ ready \in {q \in [1..Cardinality(Tasks) -> Tasks] :
                    q[1] = Root /\ \A i, j \in DOMAIN q : q[i] = q[j] => i = j}
    /\ \E d \in {"blocking", "pump"} :
         exec = [driver |-> d, pc |-> "drain", cur |-> None, seen |-> 0,
                 work |-> 0, until |-> 0]

-----------------------------------------------------------------------------
(* The wait registry and the ready queue, for waits with one source.       *)

Free(i) == slot[i].task = None
SlotOf(t) == {i \in Slots : slot[i].task = t}
Lowest(ids) == CHOOSE i \in ids : \A j \in ids : i <= j

\* Mutant: the generation of the slot is not compared.
NamesMutant(e) == ~Free(e.id)

\* toka_wait_registry_try_wake takes effect only for the wait the token was
\* made for; anything else is stale.
Names(e) == ~Free(e.id) /\ slot[e.id].gen = e.gen

Retired(i) == [slot EXCEPT ![i] = [gen |-> @.gen + 1, task |-> None]]

\* A source fires: the wait is over and its task is queued.
WakeBy(e) ==
    /\ slot' = IF Names(e) THEN Retired(e.id) ELSE slot
    /\ task' = IF Names(e) THEN [task EXCEPT ![slot[e.id].task].state = "Queued"]
                           ELSE task
    /\ ready' = IF Names(e) THEN Append(ready, slot[e.id].task) ELSE ready

\* toka_task_request_cancel of a task that sleeps, or that runs or is queued
Canceled(t) ==
    /\ task[t].state # "Done"
    /\ IF task[t].state = "Suspended"
         THEN /\ slot' = Retired(CHOOSE i \in SlotOf(t) : TRUE)
              /\ task' = [task EXCEPT ![t].canceled = 1, ![t].state = "Queued"]
              /\ ready' = Append(ready, t)
         ELSE /\ task' = [task EXCEPT ![t].canceled = 1]
              /\ UNCHANGED <<slot, ready>>

-----------------------------------------------------------------------------
(* The coroutines.                                                         *)

Drains == {"drain", "drain2", "drain3"}
Running(t) == exec.cur = t

\* drain_ready_tasks: the next ready task is resumed
Resume ==
    /\ exec.pc \in Drains /\ exec.cur = None
    /\ ready # <<>>
    /\ exec' = [exec EXCEPT !.cur = Head(ready), !.work = 1]
    /\ ready' = Tail(ready)
    /\ task' = [task EXCEPT ![Head(ready)].state = "Running"]
    /\ UNCHANGED <<now, heap, slot, events>>

\* What a task does when it suspends: its wait is the lowest free slot.
Suspends(t, due) ==
    /\ Running(t)
    /\ task[t].canceled = 0
    /\ task[t].waits < MaxWaits
    /\ \E i \in Slots : Free(i)
    /\ slot' = [slot EXCEPT ![Lowest({i \in Slots : Free(i)})].task = t]
    /\ task' = [task EXCEPT ![t].state = "Suspended", ![t].due = due,
                            ![t].waits = @ + 1]
    /\ exec' = [exec EXCEPT !.cur = None]
    /\ UNCHANGED <<now, ready>>

NewToken == LET i == Lowest({j \in Slots : Free(j)}) IN [id |-> i, gen |-> slot[i].gen]

\* sleep_async
Sleep(t, ms) ==
    /\ now + ms <= MaxTime
    /\ Suspends(t, now + ms)
    /\ heap' = Push(heap, [id |-> NewToken.id, gen |-> NewToken.gen, at |-> now + ms])
    /\ UNCHANGED events

\* register_async_reactor_read_key (and the same for writing): the task waits
\* until the reactor reports that the peer is ready
WaitReady(t) ==
    /\ Suspends(t, 0)
    /\ UNCHANGED <<heap, events>>

\* The reactor refuses the registration: the slot that was taken for the wait
\* is released, the suspension is aborted, and the task goes on.
WaitRefused(t) ==
    /\ Running(t)
    /\ task[t].canceled = 0
    /\ task[t].waits < MaxWaits
    /\ \E i \in Slots : Free(i)
    /\ slot' = Retired(NewToken.id)
    /\ task' = [task EXCEPT ![t].waits = @ + 1]
    /\ UNCHANGED <<now, heap, events, ready, exec>>

\* unregister_async_reactor_read_key, by a task whose wait is over: what the
\* reactor would still report for it is taken back; the slot is another's.
Unregister(t, e) ==
    /\ Running(t)
    /\ e \in events /\ ~Names(e)
    /\ events' = events \ {e}
    /\ UNCHANGED <<now, heap, slot, task, ready, exec>>

\* The running task cancels another task.
Cancel(t, u) ==
    /\ Running(t) /\ u # t
    /\ task[u].canceled = 0
    /\ Canceled(u)
    /\ UNCHANGED <<now, heap, events, exec>>

\* The task ends: toka_task_publish_terminal.
Finish(t) ==
    /\ Running(t)
    /\ task' = [task EXCEPT ![t].state = "Done"]
    /\ exec' = [exec EXCEPT !.cur = None]
    /\ UNCHANGED <<now, heap, slot, events, ready>>

-----------------------------------------------------------------------------
(* The loops.                                                              *)

Goto(pc) == exec' = [exec EXCEPT !.pc = pc]

\* toka_task_active_detached_count: the detached tasks that have not ended
ActiveDetached == {t \in Tasks \ {Root} : task[t].state # "Done"}
RootDone == task[Root].state = "Done"

\* next_wait_timeout
NextWaitTimeout(max) ==
    LET remaining == IF heap[1].at > now THEN heap[1].at - now ELSE 0
    IN  IF heap # <<>> /\ remaining < max THEN remaining ELSE max

\* The ready queue is empty: the loop decides what comes next.  The blocking
\* loop returns when the root is done and no detached task is counted; for it
\* only expired timers are work that lets it go round without a poll.
Drained ==
    /\ exec.pc \in Drains /\ exec.cur = None
    /\ ready = <<>>
    /\ exec' = CASE exec.pc = "drain" ->
                      IF exec.driver = "blocking" /\ RootDone /\ ActiveDetached = {}
                        THEN [exec EXCEPT !.pc = "returned"]
                        ELSE [exec EXCEPT !.pc = "timers", !.seen = now,
                                !.work = IF exec.driver = "blocking" THEN 0 ELSE @]
                 [] exec.pc = "drain2" ->
                      [exec EXCEPT !.pc = "host",
                         !.until = now + (IF exec.work = 1 THEN 0
                                          ELSE NextWaitTimeout(PollCap))]
                 [] exec.pc = "drain3" ->
                      [exec EXCEPT !.pc = "drain", !.work = 0]
    /\ UNCHANGED <<now, heap, slot, events, task, ready>>

\* Mutant: an entry that expires at this very tick is left for later.
ExpiredMutant == heap # <<>> /\ exec.seen > heap[1].at

\* release_expired_timers: the entry at the top has expired
Expired == heap # <<>> /\ exec.seen >= heap[1].at

Timers == {"timers", "timers2"}

ReleaseTimer ==
    /\ exec.pc \in Timers
    /\ Expired
    /\ heap' = Pop(heap)
    /\ WakeBy(heap[1])
    /\ exec' = [exec EXCEPT !.work = IF Names(heap[1]) THEN 1 ELSE @]
    /\ UNCHANGED <<now, events>>

\* No entry at the top has expired (any more).
TimersDone ==
    /\ exec.pc \in Timers
    /\ ~Expired
    /\ exec' = CASE exec.pc = "timers" /\ exec.driver = "pump" ->
                      [exec EXCEPT !.pc = "drain2"]
                 [] exec.pc = "timers" /\ exec.driver = "blocking" ->
                      [exec EXCEPT !.pc = IF exec.work = 1 THEN "drain" ELSE "poll",
                                   !.work = 0,
                                   !.until = now + NextWaitTimeout(PollCap)]
                 [] exec.pc = "timers2" -> [exec EXCEPT !.pc = "poll", !.until = now]
    /\ UNCHANGED <<now, heap, slot, events, task, ready>>

\* host.poll_events returns, or fails and ends the turn
HostReturns ==
    /\ exec.pc = "host"
    /\ exec' = [exec EXCEPT !.pc = "timers2", !.seen = now]
    /\ UNCHANGED <<now, heap, slot, events, task, ready>>

HostFails ==
    /\ exec.pc = "host"
    /\ exec' = [exec EXCEPT !.pc = "drain", !.work = 0]
    /\ UNCHANGED <<now, heap, slot, events, task, ready>>

\* poll_reactor: the poll reports readiness, one event after the other
PollEvent(e) ==
    /\ exec.pc = "poll"
    /\ e \in events
    /\ events' = events \ {e}
    /\ WakeBy(e)
    /\ exec' = [exec EXCEPT !.until = now]
    /\ UNCHANGED <<now, heap>>

\* and returns, at its timeout or after the last event
PollReturns ==
    /\ exec.pc = "poll"
    /\ now >= exec.until
    /\ Goto(IF exec.driver = "pump" THEN "drain3" ELSE "drain")
    /\ UNCHANGED <<now, heap, slot, events, task, ready>>

-----------------------------------------------------------------------------
(* The environment.                                                        *)

Polling == exec.pc \in {"poll", "host"}

\* The clock.  A poll returns by its timeout.
Tick ==
    /\ now < MaxTime
    /\ exec.pc = "poll" => now < exec.until
    /\ exec.pc = "host" => now < exec.until
    /\ now' = now + 1
    /\ UNCHANGED <<heap, slot, events, task, ready, exec>>

\* A peer becomes ready; the wait may be over by the time a poll reports it.
BecomesReady(i) ==
    /\ \E t \in Tasks : slot[i].task = t /\ task[t].due = 0
    /\ events' = events \cup {[id |-> i, gen |-> slot[i].gen]}
    /\ UNCHANGED <<now, heap, slot, task, ready, exec>>

\* A native thread cancels a task while the executor polls.
CancelFromThread(t) ==
    /\ Polling
    /\ task[t].canceled = 0
    /\ Canceled(t)
    /\ UNCHANGED <<now, heap, events, exec>>

Loop ==
    \/ Resume \/ Drained \/ ReleaseTimer \/ TimersDone \/ HostReturns \/ HostFails
    \/ \E e \in events : PollEvent(e)
    \/ PollReturns
    \/ \E t \in Tasks : Finish(t)

Next ==
    \/ Loop \/ Tick
    \/ \E t \in Tasks :
         \/ WaitReady(t) \/ WaitRefused(t) \/ CancelFromThread(t)
         \/ \E e \in events : Unregister(t, e)
         \/ \E ms \in Durations : Sleep(t, ms)
         \/ \E u \in Tasks : Cancel(t, u)
    \/ \E i \in Slots : BecomesReady(i)

Spec == Init /\ [][Next]_vars

\* The loop is one thread that keeps running, and a task it runs suspends or
\* ends.  Time passes whatever the loop does, though not inside its steps.
FairSpec == Spec /\ WF_vars(Loop) /\ SF_vars(Tick)

-----------------------------------------------------------------------------
(* Properties.                                                             *)

\* A sleeper that is not cancelled is never woken before its deadline: not by
\* the entry an earlier, cancelled sleep left in the heap, and not by a late
\* readiness event, when its slot served that wait before
\* (release_expired_timers, toka_wait_registry_try_wake).
NeverEarly ==
    \A t \in Tasks : (task[t].state = "Queued" /\ task[t].canceled = 0)
                       => task[t].due <= now

\* The executor never polls past the deadline of a sleeper, whatever order
\* the timers were pushed and popped in (TimerHeap, next_wait_timeout).
NeverOversleeps ==
    Polling => \A t \in Tasks : (task[t].state = "Suspended" /\ task[t].due > 0)
                                  => (exec.until <= task[t].due \/ exec.until <= now)

\* Every sleep ends, in both loops (next_wait_timeout, release_expired_timers,
\* drain_ready_tasks).
SleepersWake ==
    \A t \in Tasks :
      (task[t].state = "Suspended" /\ task[t].due > 0) ~> task[t].state = "Running"

\* The blocking loop returns once the root and all detached tasks are done.
BlockingReturns ==
    (exec.driver = "blocking" /\ \A t \in Tasks : task[t].state = "Done")
      ~> exec.pc = "returned"

=============================================================================
