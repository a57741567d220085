----------------------------- MODULE TaskScope -----------------------------
(***************************************************************************)
(* Structured task scopes: the registry behind std/async TaskScope, the    *)
(* enrolment of children, their cancellation through the scope and through *)
(* the parent task, reaping, closing and the release of the registry, and  *)
(* the parent's list of cancellation children.                             *)
(*                                                                         *)
(* One parent task creates scopes and uses them from its coroutine (the    *)
(* actor Owner; a scope is a linear value, so one actor at a time calls    *)
(* its methods).  Cancellers are native threads inside                     *)
(* toka_task_request_cancel(parent).  Every actor interleaves at each      *)
(* section under g_rt_mutex.  What a cancellation does inside a child and  *)
(* how a result is claimed are modules TaskWait and TaskResult: here they  *)
(* are one step.  Allocation failures are left out.                        *)
(***************************************************************************)
EXTENDS Naturals, FiniteSets

CONSTANTS Tasks,       \* children
          Servers,     \* children that end only when they are cancelled
          Racers,      \* children the parent lists as cancellation children
          Scopes,      \* scope registries
          Owner,       \* the parent's coroutine
          Cancellers,  \* callers of request_cancel(parent)
          MaxCancels,  \* bound on those calls
          None

ASSUME ScopeAssumption ==
    /\ Servers \cup Racers \subseteq Tasks
    /\ MaxCancels \in Nat
    /\ Owner \notin Cancellers
    /\ None \notin Tasks \cup Scopes
    /\ IsFiniteSet(Scopes) /\ IsFiniteSet(Cancellers)

VARIABLES task,    \* children: the fields of TokaTCB this protocol uses
          scope,   \* struct TokaTaskScopeRegistry
          parent,  \* the parent's fields of TokaTCB
          act,     \* what each actor is doing: program point and local lists
          abort,   \* the abort or assertion that ended the process, or None
          cancels  \* calls of request_cancel(parent) so far

vars == <<task, scope, parent, act, abort, cancels>>

Actors == Cancellers \cup {Owner}
Terminal == {"Completed", "Canceled"}

PCs == {"idle", "snapshot", "sweep", "scopes", "cancel_all", "release", "orphan",
        "detach", "start", "join", "finish", "dispose", "ended",
        "drop", "drop_mark", "drop_cancel"}
Ops == {"none", "cancel_all", "join", "close", "shutdown", "drop"}

TypeOK ==
    /\ task \in [Tasks -> [state : {"Created", "Running"} \cup Terminal,
                           refs : Nat, cancel_requested : {0, 1},
                           owner : {"Consumer", "Scope", "Detached"},
                           detached : {0, 1}, owner_released : {0, 1},
                           handle : {0, 1}, started : {0, 1},
                           result : {"None", "Live", "Taken", "Dropped"}]]
    /\ scope \in [Scopes -> [state : {"Unused", "Open", "Closing", "Closed"},
                             refs : Nat, value : {0, 1},
                             children : SUBSET Tasks]]
    /\ parent \in [refs : Nat, cancel_requested : {0, 1},
                   cancel_scopes : SUBSET Scopes, cancel_children : SUBSET Tasks]
    /\ act \in [Actors -> [pc : PCs, op : Ops,
                           scope : Scopes \cup {None}, scopes : SUBSET Scopes,
                           task : Tasks \cup {None}, kids : SUBSET Tasks,
                           handled : {0, 1}]]
    /\ cancels \in 0..MaxCancels

\* The local state of an actor between two calls.
Resting == [pc |-> "idle", op |-> "none", scope |-> None,
            scopes |-> {}, task |-> None, kids |-> {}, handled |-> 0]

Init ==
    /\ task = [c \in Tasks |->
                 [state |-> "Created", refs |-> 1, cancel_requested |-> 0,
                  owner |-> "Consumer", detached |-> 0, owner_released |-> 0,
                  handle |-> 1, started |-> 0, result |-> "None"]]
    /\ scope = [s \in Scopes |-> [state |-> "Unused", refs |-> 0, value |-> 0,
                                  children |-> {}]]
    /\ parent = [refs |-> 1, cancel_requested |-> 0,
                 cancel_scopes |-> {}, cancel_children |-> {}]
    /\ act = [a \in Actors |-> Resting]
    /\ abort = None
    /\ cancels = 0

-----------------------------------------------------------------------------
(* Child records.                                                          *)

\* toka_tcb_require_retain_held and toka_task_release
Retained(t) == [t EXCEPT !.refs = @ + 1]
Released(t) == [t EXCEPT !.refs = @ - 1]

\* toka_task_dispose_result_for_owner
Disposed(t, owner) ==
    IF t.owner = owner /\ t.state = "Completed" /\ t.result = "Live"
      THEN [t EXCEPT !.result = "Dropped"] ELSE t

\* toka_task_try_drain_detached_result and toka_task_try_release_owner: the
\* one goes by the owner of the result, the other by the detached mark.
Drained(t) ==
    LET drained == Disposed(t, "Detached") IN
    IF t.detached = 1 /\ t.state \in Terminal /\ t.owner_released = 0
      THEN [Released(drained) EXCEPT !.owner_released = 1]
      ELSE drained

\* toka_task_request_cancel(child): a cold child ends, and its publisher drains
\* it as any other; a child that was started is told.
Asked(t) ==
    LET told == [t EXCEPT !.cancel_requested = 1] IN
    IF t.state = "Created" THEN Drained([told EXCEPT !.state = "Canceled"])
                           ELSE told

\* toka_task_detach_owned
DetachOwned(t, owner) ==
    IF t.owner = owner
      THEN Drained([t EXCEPT !.owner = "Detached", !.detached = 1])
      ELSE t

-----------------------------------------------------------------------------
(* Steps shared by the owner and the cancellers.                           *)

Alive == abort = None
At(a, pc) == Alive /\ act[a].pc = pc
My(a) == act[a]

\* An actor goes on; back at rest it forgets its local state.
Moved(local, pc) == IF pc = "idle" THEN Resting ELSE [local EXCEPT !.pc = pc]
Goto(a, pc) == act' = [act EXCEPT ![a] = Moved(@, pc)]

\* What follows the cancellation of a list of children.
AfterSweep(a) ==
    CASE a # Owner /\ My(a).scope = None -> "scopes"
      [] a # Owner /\ My(a).scope # None -> "release"
      [] a = Owner /\ My(a).op = "cancel_all" -> "idle"
      [] OTHER -> "join"

Sweep(a, kids) ==
    act' = [act EXCEPT ![a] = Moved([@ EXCEPT !.kids = kids],
                                    IF kids = {} THEN AfterSweep(a) ELSE "sweep")]

\* toka_task_scope_request_cancel_all: the children are retained under the
\* mutex and asked after it.
CancelAllSnapshot(a) ==
    /\ At(a, "cancel_all")
    /\ LET kids == scope[My(a).scope].children IN
         /\ task' = [c \in Tasks |-> IF c \in kids THEN Retained(task[c])
                                     ELSE task[c]]
         /\ Sweep(a, kids)
    /\ UNCHANGED <<scope, parent, abort, cancels>>

SweepChild(a, c) ==
    /\ At(a, "sweep")
    /\ c \in My(a).kids
    /\ task' = [task EXCEPT ![c] = Released(Asked(@))]
    /\ Sweep(a, My(a).kids \ {c})
    /\ UNCHANGED <<scope, parent, abort, cancels>>

AfterRelease(a) == IF a = Owner THEN "idle" ELSE "scopes"

\* toka_task_scope_release
ScopeRelease(a) ==
    LET s == My(a).scope IN
    /\ At(a, "release")
    /\ \/ /\ scope[s].refs = 0
          /\ abort' = "TaskScope registry reference underflow"
          /\ UNCHANGED <<scope, parent, act>>
       \/ /\ scope[s].refs > 1
          /\ scope' = [scope EXCEPT ![s].refs = @ - 1,
                                    ![s].value = IF a = Owner THEN 0 ELSE @]
          /\ Goto(a, AfterRelease(a))
          /\ UNCHANGED <<parent, abort>>
       \/ /\ scope[s].refs = 1
          /\ parent' = [parent EXCEPT !.cancel_scopes = @ \ {s}]
          /\ scope' = [scope EXCEPT ![s] = [state |-> "Closed", refs |-> 0,
                                            value |-> 0, children |-> {}]]
          /\ act' = [act EXCEPT ![a].kids = scope[s].children,
                                ![a].pc = "orphan"]
          /\ UNCHANGED abort
    /\ UNCHANGED <<task, cancels>>

\* Mutant: the children left over are detached without a cancellation.
OrphanCancelMutant(a, c) ==
    /\ At(a, "orphan")
    /\ c \in My(a).kids
    /\ act' = [act EXCEPT ![a].task = c, ![a].pc = "detach"]
    /\ UNCHANGED <<task, scope, parent, abort, cancels>>

\* The children left over are cancelled one by one ...
OrphanCancel(a, c) ==
    /\ At(a, "orphan")
    /\ c \in My(a).kids
    /\ task' = [task EXCEPT ![c] = Asked(@)]
    /\ act' = [act EXCEPT ![a].task = c, ![a].pc = "detach"]
    /\ UNCHANGED <<scope, parent, abort, cancels>>

\* Mutant: the reference of a child whose handle lives on is kept.
OrphanedMutant(t) == DetachOwned(t, "Scope")

\* ... and a child the scope owns is detached, another one released.
Orphaned(t) == IF t.owner = "Scope" THEN DetachOwned(t, "Scope") ELSE Released(t)

OrphanDetach(a) ==
    /\ At(a, "detach")
    /\ task' = [task EXCEPT ![My(a).task] = Orphaned(@)]
    /\ act' = [act EXCEPT ![a].kids = @ \ {My(a).task}, ![a].task = None,
                          ![a].pc = "orphan"]
    /\ UNCHANGED <<scope, parent, abort, cancels>>

\* toka_task_release(parent): the last reference also gives back the
\* references of the cancellation children that are still listed.
ReleaseParent ==
    LET listed == IF parent.refs = 1 THEN parent.cancel_children ELSE {} IN
    /\ parent' = [parent EXCEPT !.refs = @ - 1, !.cancel_children = @ \ listed]
    /\ task' = [c \in Tasks |-> IF c \in listed THEN Released(task[c])
                                ELSE task[c]]

\* The registry is freed and its reference to the parent given back.
ReleaseEnds(a) ==
    /\ At(a, "orphan")
    /\ My(a).kids = {}
    /\ ReleaseParent
    /\ Goto(a, AfterRelease(a))
    /\ UNCHANGED <<scope, abort, cancels>>

-----------------------------------------------------------------------------
(* The owner: methods of TaskScope and functions of std/async.             *)

Ready == At(Owner, "idle")
Mine(s) == scope[s].value = 1
Begin(pc, op, s) ==
    act' = [act EXCEPT ![Owner].pc = pc, ![Owner].op = op, ![Owner].scope = s]

\* toka_task_scope_create: the reference to the parent, the weak entry, and a
\* scope born closing under a cancelled parent.
NewScope(s) ==
    /\ Ready
    /\ scope[s].state = "Unused"
    /\ scope' = [scope EXCEPT ![s].state = IF parent.cancel_requested = 1
                                             THEN "Closing" ELSE "Open",
                              ![s].refs = 1, ![s].value = 1]
    /\ parent' = [parent EXCEPT !.refs = @ + 1, !.cancel_scopes = @ \cup {s}]
    /\ UNCHANGED <<task, act, abort, cancels>>

\* The first lines of both enrolments.
StateAtEnrollment(s) ==
    IF parent.cancel_requested = 1 THEN "Closing" ELSE scope[s].state

Cold(c) == task[c].state = "Created" /\ task[c].handle = 1

\* spawn_into: toka_task_scope_try_enroll takes the handle's reference and the
\* result; a refused task goes back to the caller untouched.
SpawnInto(s, c) ==
    LET open == StateAtEnrollment(s) = "Open" IN
    /\ Ready /\ Mine(s) /\ Cold(c)
    /\ scope' = [scope EXCEPT ![s].state = StateAtEnrollment(s),
                              ![s].children = IF open THEN @ \cup {c} ELSE @]
    /\ IF open
         THEN /\ task' = [task EXCEPT ![c].owner = "Scope", ![c].handle = 0]
              /\ act' = [act EXCEPT ![Owner].pc = "start", ![Owner].task = c]
         ELSE UNCHANGED <<task, act>>
    /\ UNCHANGED <<parent, abort, cancels>>

\* spawn_scoped: toka_task_scope_enroll_scoped takes a reference of its own; a
\* refused enrolment fails the function's assertion.
SpawnScoped(s, c) ==
    LET open == StateAtEnrollment(s) = "Open" IN
    /\ Ready /\ Mine(s) /\ Cold(c)
    /\ scope' = [scope EXCEPT ![s].state = StateAtEnrollment(s),
                              ![s].children = IF open THEN @ \cup {c} ELSE @]
    /\ IF open
         THEN /\ task' = [task EXCEPT ![c] = Retained(@)]
              /\ act' = [act EXCEPT ![Owner].pc = "start", ![Owner].task = c]
              /\ UNCHANGED abort
         ELSE /\ abort' = "TaskScope enrollment failed"
              /\ UNCHANGED <<task, act>>
    /\ UNCHANGED <<parent, cancels>>

\* toka_task_start, after the enrolment: the child may be cancelled by now.
Started(t) == IF t.state = "Created"
                THEN [t EXCEPT !.state = "Running", !.started = 1] ELSE t

StartChild ==
    /\ At(Owner, "start")
    /\ task' = [task EXCEPT ![My(Owner).task] = Started(@)]
    /\ Goto(Owner, "idle")
    /\ UNCHANGED <<scope, parent, abort, cancels>>

\* The handle of a child: awaiting it takes the result.
TakeResult(c) ==
    /\ Ready
    /\ task[c].handle = 1
    /\ task[c].state = "Completed"
    /\ task[c].result = "Live"
    /\ task' = [task EXCEPT ![c].result = "Taken"]
    /\ UNCHANGED <<scope, parent, act, abort, cancels>>

\* toka_task_drop_handle detaches a child that was started.  A cold one it
\* retains (the caller's list holds it) and then takes three steps in which
\* another thread may end the child first.
DropHandle(c) ==
    /\ Ready
    /\ task[c].handle = 1
    /\ LET given == [task[c] EXCEPT !.handle = 0] IN
         \/ /\ task[c].state # "Created"
            /\ task' = [task EXCEPT ![c] = DetachOwned(given, "Consumer")]
            /\ UNCHANGED act
         \/ /\ task[c].state = "Created"
            /\ task' = [task EXCEPT ![c] = Retained(given)]
            /\ act' = [act EXCEPT ![Owner].pc = "drop", ![Owner].kids = {c}]
    /\ UNCHANGED <<scope, parent, abort, cancels>>

\* The result's owner changes (the handle was the consumer's, so the exchange
\* succeeds) ...
DropClaims(c) ==
    /\ At(Owner, "drop")
    /\ c \in My(Owner).kids
    /\ task' = [task EXCEPT ![c].owner = "Detached"]
    /\ Goto(Owner, "drop_mark")
    /\ UNCHANGED <<scope, parent, abort, cancels>>

\* ... the child is marked detached ...
DropMarks(c) ==
    /\ At(Owner, "drop_mark")
    /\ c \in My(Owner).kids
    /\ task' = [task EXCEPT ![c].detached = 1]
    /\ Goto(Owner, "drop_cancel")
    /\ UNCHANGED <<scope, parent, abort, cancels>>

\* ... asked to end, and released.  Nothing here releases the owner of a child
\* that ended before the mark.
DropCancels(c) ==
    /\ At(Owner, "drop_cancel")
    /\ c \in My(Owner).kids
    /\ task' = [task EXCEPT ![c] = Released(Asked(@))]
    /\ Goto(Owner, "idle")
    /\ UNCHANGED <<scope, parent, abort, cancels>>

\* toka_task_register_cancel_child and toka_task_unregister_cancel_child
RegisterCancelChild(c) ==
    /\ Ready
    /\ c \in Racers \ parent.cancel_children
    /\ task[c].handle = 1
    /\ parent' = [parent EXCEPT !.cancel_children = @ \cup {c}]
    /\ task' = [task EXCEPT ![c] =
                  IF parent.cancel_requested = 1 THEN Asked(Retained(@))
                  ELSE Retained(@)]
    /\ UNCHANGED <<scope, act, abort, cancels>>

UnregisterCancelChild(c) ==
    /\ Ready
    /\ c \in parent.cancel_children
    /\ parent' = [parent EXCEPT !.cancel_children = @ \ {c}]
    /\ task' = [task EXCEPT ![c] = Released(@)]
    /\ UNCHANGED <<scope, act, abort, cancels>>

CancelAll(s) ==
    /\ Ready /\ Mine(s)
    /\ Begin("cancel_all", "cancel_all", s)
    /\ UNCHANGED <<task, scope, parent, abort, cancels>>

\* toka_task_scope_reap_finished: the ended children leave under the mutex
\* and are disposed of after it.
Ended(s) == {c \in scope[s].children : task[c].state \in Terminal}

ReapFinished(s) ==
    /\ Ready /\ Mine(s)
    /\ Ended(s) # {}
    /\ scope' = [scope EXCEPT ![s].children = @ \ Ended(s)]
    /\ act' = [act EXCEPT ![Owner].kids = Ended(s), ![Owner].pc = "dispose"]
    /\ UNCHANGED <<task, parent, abort, cancels>>

\* Mutant: the result of an ended child is not dropped.
DisposedChildMutant(t) == Released(t)

DisposedChild(t) == Released(Disposed(t, "Scope"))

\* close gives its scope up at its end.
AfterDispose(kids) ==
    CASE kids # {} -> "dispose"
      [] kids = {} /\ My(Owner).op = "close" -> "release"
      [] OTHER -> "idle"

Dispose(c) ==
    /\ At(Owner, "dispose")
    /\ c \in My(Owner).kids
    /\ task' = [task EXCEPT ![c] = DisposedChild(@)]
    /\ LET rest == My(Owner).kids \ {c} IN
         act' = [act EXCEPT ![Owner] = Moved([@ EXCEPT !.kids = rest],
                                             AfterDispose(rest))]
    /\ UNCHANGED <<scope, parent, abort, cancels>>

\* join_async, alone (join_scoped) or after cancel_all (cancel_and_join).
Join(s) ==
    /\ Ready /\ Mine(s)
    /\ Begin("join", "join", s)
    /\ UNCHANGED <<task, scope, parent, abort, cancels>>

CancelAndJoin(s) ==
    /\ Ready /\ Mine(s)
    /\ Begin("cancel_all", "join", s)
    /\ UNCHANGED <<task, scope, parent, abort, cancels>>

\* toka_task_scope_is_done
IsDone(s) == \A c \in scope[s].children : task[c].state \in Terminal

\* The loop of join_async: a cancelled joiner cancels the children once; a
\* cancellation that arrives in its sleep is caught by `.await?` and handled.
JoinCancels ==
    /\ At(Owner, "join")
    /\ ~IsDone(My(Owner).scope)
    /\ parent.cancel_requested = 1
    /\ My(Owner).handled = 0
    /\ \E pc \in {"cancel_all", "join"} :
         act' = [act EXCEPT ![Owner].handled = 1, ![Owner].pc = pc]
    /\ UNCHANGED <<task, scope, parent, abort, cancels>>

\* Mutant: a scope is not marked before its children are cancelled.
BegunCloseMutant(state) == state

\* close and the timed-out shutdown_async begin with toka_task_scope_begin_close.
BegunClose(state) == IF state = "Open" THEN "Closing" ELSE state

\* Mutant: close waits for the children without cancelling them.
CloseMutant(s) ==
    /\ Ready /\ Mine(s)
    /\ scope' = [scope EXCEPT ![s].state = BegunClose(@)]
    /\ IF scope'[s].state = "Closing"
         THEN Begin("join", "close", s)
         ELSE Begin("release", "close", s)
    /\ UNCHANGED <<task, parent, abort, cancels>>

Close(s) ==
    /\ Ready /\ Mine(s)
    /\ scope' = [scope EXCEPT ![s].state = BegunClose(@)]
    /\ IF scope'[s].state = "Closing"
         THEN Begin("cancel_all", "close", s)
         ELSE Begin("release", "close", s)
    /\ UNCHANGED <<task, parent, abort, cancels>>

Shutdown(s) ==
    /\ Ready /\ Mine(s)
    /\ ~IsDone(s)
    /\ scope' = [scope EXCEPT ![s].state = BegunClose(@)]
    /\ Begin("cancel_all", "shutdown", s)
    /\ UNCHANGED <<task, parent, abort, cancels>>

\* After the join: a plain join returns; a cancelled close or shutdown unwinds
\* without finish_close; close gives its scope up in either case.
JoinDone ==
    /\ At(Owner, "join")
    /\ IsDone(My(Owner).scope)
    /\ \/ /\ My(Owner).op = "join"
          /\ Goto(Owner, "idle")
       \/ /\ My(Owner).op \in {"close", "shutdown"}
          /\ parent.cancel_requested = 1
          /\ Goto(Owner, IF My(Owner).op = "close" THEN "release" ELSE "idle")
       \/ /\ My(Owner).op \in {"close", "shutdown"}
          /\ parent.cancel_requested = 0 \/ My(Owner).op = "shutdown"
          /\ Goto(Owner, "finish")
    /\ UNCHANGED <<task, scope, parent, abort, cancels>>

\* toka_task_scope_finish_close, whose failure is an assertion of its callers.
CanFinishClose(s) == scope[s].state = "Closing" /\ IsDone(s)

FinishClose ==
    LET s == My(Owner).scope
        kids == scope[s].children IN
    /\ At(Owner, "finish")
    /\ \/ /\ CanFinishClose(s)
          /\ scope' = [scope EXCEPT ![s].state = "Closed", ![s].children = {}]
          /\ act' = [act EXCEPT ![Owner] = Moved([@ EXCEPT !.kids = kids],
                                                 AfterDispose(kids))]
          /\ UNCHANGED abort
       \/ /\ ~CanFinishClose(s)
          /\ abort' = "TaskScope close completed with a live child"
          /\ UNCHANGED <<scope, act>>
    /\ UNCHANGED <<task, parent, cancels>>

\* The scope's variable goes away.
DropScope(s) ==
    /\ Ready /\ Mine(s)
    /\ Begin("release", "drop", s)
    /\ UNCHANGED <<task, scope, parent, abort, cancels>>

\* `.await?` in the parent: toka_task_mark_current_cancellation_handled
HandleCancellation ==
    /\ Ready
    /\ parent.cancel_requested = 1
    /\ parent' = [parent EXCEPT !.cancel_requested = 0]
    /\ UNCHANGED <<task, scope, act, abort, cancels>>

\* The parent ends once its variables are gone.
ParentEnds ==
    /\ Ready
    /\ \A s \in Scopes : scope[s].value = 0
    /\ \A c \in Tasks : task[c].handle = 0
    /\ ReleaseParent
    /\ Goto(Owner, "ended")
    /\ UNCHANGED <<scope, abort, cancels>>

-----------------------------------------------------------------------------
(* The children.                                                           *)

\* A child ends: with a result, or cancelled once it has been asked.  The
\* publisher of a detached child drains the result and releases the owner.
EndChild(c) ==
    /\ Alive
    /\ task[c].state = "Running"
    /\ \/ /\ c \notin Servers
          /\ task' = [task EXCEPT ![c] = Drained([@ EXCEPT !.state = "Completed",
                                                          !.result = "Live"])]
       \/ /\ task[c].cancel_requested = 1
          /\ task' = [task EXCEPT ![c] = Drained([@ EXCEPT !.state = "Canceled"])]
    /\ UNCHANGED <<scope, parent, act, abort, cancels>>

-----------------------------------------------------------------------------
(* toka_task_request_cancel(parent) from another thread.                   *)

RequestCancel(x) ==
    /\ At(x, "idle")
    /\ parent.refs > 0
    /\ cancels < MaxCancels
    /\ cancels' = cancels + 1
    /\ parent' = [parent EXCEPT !.refs = @ + 1, !.cancel_requested = 1]
    /\ Goto(x, "snapshot")
    /\ UNCHANGED <<task, scope, abort>>

\* Mutant: the scopes are listed without a reference.
ScopeRetainedMutant(r) == r

\* toka_task_scope_retain_locked
ScopeRetained(r) == [r EXCEPT !.refs = @ + 1]

\* Cancellation children and scopes are retained in one section; a listed
\* scope without a reference would abort.
SnapshotLists(x) ==
    /\ At(x, "snapshot")
    /\ IF \E s \in parent.cancel_scopes : scope[s].refs = 0
         THEN /\ abort' = "invalid TaskScope cancellation reference"
              /\ UNCHANGED <<task, scope, act>>
         ELSE /\ task' = [c \in Tasks |->
                            IF c \in parent.cancel_children
                              THEN Retained(task[c]) ELSE task[c]]
              /\ scope' = [s \in Scopes |->
                             IF s \in parent.cancel_scopes
                               THEN ScopeRetained(scope[s]) ELSE scope[s]]
              /\ LET kids == parent.cancel_children IN
                   act' = [act EXCEPT ![x] =
                     Moved([@ EXCEPT !.kids = kids,
                                     !.scopes = parent.cancel_scopes],
                           IF kids = {} THEN "scopes" ELSE "sweep")]
              /\ UNCHANGED abort
    /\ UNCHANGED <<parent, cancels>>

CloseScope(x, s) ==
    /\ At(x, "scopes")
    /\ s \in My(x).scopes
    /\ scope' = [scope EXCEPT ![s].state = BegunClose(@)]
    /\ act' = [act EXCEPT ![x].scopes = @ \ {s}, ![x].scope = s,
                          ![x].pc = "cancel_all"]
    /\ UNCHANGED <<task, parent, abort, cancels>>

\* The rest of request_cancel is about the parent's own suspension.
WalkEnds(x) ==
    /\ At(x, "scopes")
    /\ My(x).scopes = {}
    /\ ReleaseParent
    /\ Goto(x, "idle")
    /\ UNCHANGED <<scope, abort, cancels>>

-----------------------------------------------------------------------------
Use ==
    \/ \E s \in Scopes :
         \/ NewScope(s) \/ CancelAll(s) \/ ReapFinished(s) \/ Join(s)
         \/ CancelAndJoin(s) \/ Close(s) \/ Shutdown(s) \/ DropScope(s)
         \/ \E c \in Tasks : SpawnInto(s, c) \/ SpawnScoped(s, c)
    \/ \E c \in Tasks : \/ TakeResult(c) \/ DropHandle(c)
                        \/ RegisterCancelChild(c) \/ UnregisterCancelChild(c)
    \/ HandleCancellation

\* A call under way goes on.
Proceed ==
    \/ \E a \in Actors :
         \/ CancelAllSnapshot(a) \/ ScopeRelease(a) \/ OrphanDetach(a)
         \/ ReleaseEnds(a)
         \/ \E c \in Tasks : SweepChild(a, c) \/ OrphanCancel(a, c)
    \/ \E c \in Tasks : \/ Dispose(c)
                        \/ DropClaims(c) \/ DropMarks(c) \/ DropCancels(c)
    \/ StartChild \/ JoinDone \/ JoinCancels \/ FinishClose
    \/ \E x \in Cancellers :
         \/ SnapshotLists(x) \/ WalkEnds(x)
         \/ \E s \in Scopes : CloseScope(x, s)

Next ==
    \/ Use
    \/ Proceed
    \/ \E c \in Tasks : EndChild(c)
    \/ ParentEnds
    \/ \E x \in Cancellers : RequestCancel(x)

\* Calls under way go on, children keep running, and a task's variables are
\* dropped in the end; nobody has to use a scope or to cancel.
Spec ==
    /\ Init /\ [][Next]_vars
    /\ WF_vars(Proceed)
    /\ \A c \in Tasks : WF_vars(EndChild(c))

-----------------------------------------------------------------------------
(* Properties.                                                             *)

\* No call of the scope protocol aborts the process: no reference count runs
\* below zero, the parent's weak list never names a freed scope, and close and
\* shutdown never find a live child after their join.  (spawn_scoped's own
\* assertion is not about the protocol: it refuses a closing scope.)
NoAbort == abort \in {None, "TaskScope enrollment failed"}

\* Who refers to a child: its owner until that is released, each list it is
\* in, each snapshot that retained it.
Holders(c) ==
    (IF task[c].owner # "Scope" /\ task[c].owner_released = 0 THEN 1 ELSE 0)
    + (IF c \in parent.cancel_children THEN 1 ELSE 0)
    + Cardinality({s \in Scopes : c \in scope[s].children})
    + Cardinality({a \in Actors : c \in act[a].kids})

ScopeHolders(s) ==
    scope[s].value
    + Cardinality({x \in Cancellers :
                     s \in act[x].scopes \/ (act[x].scope = s
                       /\ act[x].pc \in {"cancel_all", "sweep", "release"})})

\* The parent is referred to by itself until it ends, by every registry until
\* that is freed, and by every call of request_cancel.
ParentHolders ==
    (IF act[Owner].pc # "ended" THEN 1 ELSE 0)
    + Cardinality(parent.cancel_scopes)
    + Cardinality({a \in Actors : act[a].pc \in {"orphan", "detach"}})
    + Cardinality({x \in Cancellers : act[x].pc # "idle"})

\* Reference counts are exact whatever interleaves: a child is referred to by
\* its owner, its scope and the snapshots only, a scope by its value and the
\* walks, the parent by itself, its registries and the walks, and the weak list
\* names exactly the scopes that are alive.
RefsExact ==
    /\ \A c \in Tasks : task[c].refs = Holders(c)
    /\ \A s \in Scopes : /\ scope[s].refs = ScopeHolders(s)
                         /\ s \in parent.cancel_scopes <=> scope[s].refs > 0
    /\ parent.refs = ParentHolders

\* A child that is given up has had its result consumed: by the scope when it
\* reaps, closes or is destroyed, or by the holder of the handle.
ResultsDisposed ==
    \A c \in Tasks : task[c].refs = 0 => task[c].result # "Live"

\* The children of s have ended or have been asked to.
AllAsked(s) == \A c \in scope[s].children :
                  task[c].cancel_requested = 1 \/ task[c].state \in Terminal

\* No child slips through the walk of a cancellation: once the walk is done
\* with a scope, and as long as the parent has not caught the cancellation, a
\* child enrolled meanwhile was refused or has been asked to end.
CancelReachesChildren ==
    /\ \A x \in Cancellers :
         act[x].pc = "release" => AllAsked(act[x].scope)
    /\ (/\ parent.cancel_requested = 1
        /\ \A x \in Cancellers : act[x].pc = "idle")
       => \A s \in parent.cancel_scopes : AllAsked(s)

\* close and shutdown return whatever the children, the cancellers and the
\* order of their steps: the drain of a closing scope ends.
CloseReturns ==
    (act[Owner].op \in {"close", "shutdown"}) ~> (act[Owner].op = "none")

\* No child is left running, and none that was started is leaked: once the
\* parent is gone a detached child, one whose scope was dropped under it
\* included, ends and is freed.  A cold child on the parent's cancellation list
\* is the exception: see OrphansFreed.
OrphansEnd ==
    \A c \in Tasks :
      (/\ task[c].owner = "Detached"
       /\ parent.refs = 0
       /\ task[c].started = 1 \/ c \notin Racers)
      ~> (task[c].refs = 0)

\* The same of every detached child.  The code does not keep it: a walk of the
\* parent's cancellation that ends a cold child between the look at its state
\* and the mark in toka_task_drop_handle finds no mark, and the drop releases
\* its own reference only, so the owner's stays (TaskScopeColdDropLeak.cfg).
OrphansFreed ==
    \A c \in Tasks :
      (task[c].owner = "Detached" /\ parent.refs = 0) ~> (task[c].refs = 0)
=============================================================================
