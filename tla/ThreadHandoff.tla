--------------------------- MODULE ThreadHandoff ---------------------------
(***************************************************************************)
(* The native thread handoff protocol, lib/sys/toka_thread_handoff_v1.c    *)
(* (POSIX half).                                                           *)
(*                                                                         *)
(* One control block is shared by two responsibilities: H, held by the     *)
(* move-only JoinHandle (the "owner"), and W, held by the worker's         *)
(* trampoline.  The owner prepares an environment packet, starts the       *)
(* worker, and closes the handle with join, detach or an implicit drop.    *)
(*                                                                         *)
(* Grain of atomicity: one step is one section under control->mutex, or    *)
(* the code between two such sections, or one native call (pthread_create, *)
(* pthread_join, pthread_detach, run_once, drop_live).  A failed require   *)
(* ends the process (_Exit); it is kept as a value of fatal.  Native calls *)
(* and allocations may fail, at most MaxFailures times in one behaviour.   *)
(*                                                                         *)
(* Abstracted: descriptor and ABI validation (validate_env, match_result), *)
(* alignment and addresses, the value itself.                              *)
(***************************************************************************)
EXTENDS Naturals

CONSTANT MaxFailures  \* bound on failing allocations and native calls

ASSUME MaxFailuresAssumption == MaxFailures \in Nat

VARIABLES
  prepared,    \* the TokaThreadPrepared wrapper and its state
  control,     \* the TokaThreadControl allocation
  native,      \* control->native
  result,      \* control->result
  references,  \* control->references
  packet,      \* control->packet is not NULL
  lease,       \* control->lease is not NULL
  handle,      \* the owner's handle slot (*inout) is not NULL
  op,          \* the handle operation the owner is inside
  owner,       \* program counter of the owner
  worker,      \* program counter of the worker
  discard,     \* who holds the lease taken out of the control block to drop it
  out,         \* the owner holds a lease delivered by join
  status,      \* status code of the owner's last completed call
  fatal,       \* why the process has exited, if it has
  failures,    \* failures injected so far
  envUses,     \* history: times the packet was run or dropped
  resultUses   \* history: times the result was moved out or dropped

wrapper  == <<prepared, packet, envUses>>
block    == <<control, native, result, references, lease>>
caller   == <<handle, op, owner, out, status>>
vars     == <<prepared, control, native, result, references, packet, lease,
              handle, op, owner, worker, discard, out, status, fatal,
              failures, envUses, resultUses>>

Pointer == {"null", "set"}
Native == {"Starting", "Open", "Joining", "Detaching", "Joined", "Detached"}
Result == {"Pending", "Ready", "Taken", "DiscardClaimed", "Disposed"}
Status == {"Ok", "Allocation", "Setup", "Create", "Join", "Detach",
           "Closed", "Busy"}

OwnerSteps  == {"idle", "createReturn", "joinNative", "joinCommit",
                "detachNative", "detachCommit", "discard", "dispose",
                "release", "destroy"}
WorkerSteps == {"none", "entry", "run", "publish", "discard", "dispose",
                "release", "destroy", "exited"}

Running == fatal = "none"

\* static void require(int condition): a false condition exits the process.
RequireFails ==
  /\ fatal' = "require"
  /\ UNCHANGED <<prepared, control, native, result, references, packet, lease,
                 handle, op, owner, worker, discard, out, status, failures,
                 envUses, resultUses>>

\* A call of malloc, pthread_* that may fail does so at most MaxFailures times.
CanFail == failures < MaxFailures

\* H and W are both counted before pthread_create.
InitialReferences == 2

\* release(): this decrement is the one that reaches zero.
LastReferenceEarlyMutant == references \in {1, 2}
LastReferenceNeverMutant == references = 0
LastReference == references = 1

\* The test the worker makes after run_once to decide who disposes.
WorkerOwnsResultMutant == native \in {"Detaching", "Detached"}
WorkerOwnsResult == native = "Detached"

\* A native error returns without touching the caller's slot.
KeepSlot == UNCHANGED handle

\* What pthread_join waits for.
WorkerTerminatedMutant == worker = "exited" /\ control = "freed"
WorkerTerminated == worker = "exited"

\* The caller's lease slot (*inout) is cleared before the value is consumed.
ClearOutMutant == UNCHANGED out
ClearOut == out' = "null"

Init ==
  /\ prepared = "none" /\ control = "null" /\ native = "Starting"
  /\ result = "Pending" /\ references = 0 /\ packet = "null" /\ lease = "null"
  /\ handle = "null" /\ op = "none" /\ owner = "idle" /\ worker = "none"
  /\ discard = "none" /\ out = "null" /\ status = "Ok" /\ fatal = "none"
  /\ failures = 0 /\ envUses = 0 /\ resultUses = 0

----------------------------------------------------------------------------
(* Preparing and starting.                                                 *)

\* toka_thread_prepare_v1: wrap a packet; the compiler calls it once per spawn.
Prepare ==
  /\ Running /\ owner = "idle" /\ prepared = "none"
  /\ prepared' = "ready" /\ status' = "Ok"
  /\ UNCHANGED <<block, packet, envUses, handle, op, owner, worker, discard,
                 out, fatal, failures, resultUses>>

\* Allocation failure: the compiled caller drops the packet it still owns.
PrepareFails ==
  /\ Running /\ owner = "idle" /\ prepared = "none" /\ CanFail
  /\ prepared' = "null" /\ status' = "Allocation"
  /\ envUses' = envUses + 1 /\ failures' = failures + 1
  /\ UNCHANGED <<block, packet, handle, op, owner, worker, discard, out, fatal,
                 resultUses>>

\* toka_thread_dispose_prepared_v1 (the spawn failed or was abandoned).
DisposePrepared ==
  /\ Running /\ owner = "idle" /\ prepared = "ready"
  /\ prepared' = "null" /\ envUses' = envUses + 1
  /\ UNCHANGED <<block, packet, caller, worker, discard, fatal, failures,
                 resultUses>>

\* toka_thread_start_v1 up to a successful pthread_create: from here on the
\* worker runs, possibly to its end, before the owner takes its next step.
Start ==
  /\ Running /\ owner = "idle" /\ prepared = "ready"
  /\ prepared' = "starting" /\ control' = "live" /\ native' = "Starting"
  /\ result' = "Pending" /\ references' = InitialReferences
  /\ packet' = "set" /\ lease' = "set"
  /\ owner' = "createReturn" /\ worker' = "entry"
  /\ UNCHANGED <<handle, op, discard, out, status, fatal, failures, envUses,
                 resultUses>>

\* Its three failures leave the wrapper ready and free what they allocated.
StartFails ==
  /\ Running /\ owner = "idle" /\ prepared = "ready" /\ CanFail
  /\ status' \in {"Allocation", "Setup", "Create"}
  /\ failures' = failures + 1
  /\ UNCHANGED <<wrapper, block, handle, op, owner, worker, discard, out, fatal,
                 resultUses>>

\* The tail of toka_thread_start_v1: publish the thread id and the handle.
StartReturns ==
  /\ Running /\ owner = "createReturn"
  /\ IF native # "Starting" THEN RequireFails
     ELSE /\ native' = "Open" /\ prepared' = "null" /\ handle' = "set"
          /\ owner' = "idle" /\ status' = "Ok"
          /\ UNCHANGED <<control, result, references, packet, lease, op, worker,
                         discard, out, fatal, failures, envUses, resultUses>>

----------------------------------------------------------------------------
(* Operations on the handle.                                               *)

\* join and detach on an empty slot, and the no-op drop of an empty slot.
ClosedCall ==
  /\ Running /\ owner = "idle" /\ handle = "null"
  /\ status' = "Closed"
  /\ UNCHANGED <<wrapper, block, handle, op, owner, worker, discard, out, fatal,
                 failures, resultUses>>

\* join or detach entered again while a native call is in progress.
BusyCall ==
  /\ Running /\ owner \in {"joinNative", "detachNative"} /\ handle = "set"
  /\ native # "Open"
  /\ status' = "Busy"
  /\ UNCHANGED <<wrapper, block, handle, op, owner, worker, discard, out, fatal,
                 failures, resultUses>>

\* The common head of join, detach and drop: reserve the native operation.
Reserve(operation, reserved, next) ==
  /\ Running /\ owner = "idle" /\ handle = "set" /\ native = "Open"
  /\ native' = reserved /\ op' = operation /\ owner' = next
  /\ UNCHANGED <<wrapper, control, result, references, lease, handle, worker,
                 discard, out, status, fatal, failures, resultUses>>

Join       == Reserve("join", "Joining", "joinNative")
Detach     == Reserve("detach", "Detaching", "detachNative")
DropHandle == Reserve("drop", "Detaching", "detachNative")

\* pthread_join returns 0: the worker has terminated.
NativeJoin ==
  /\ Running /\ owner = "joinNative" /\ WorkerTerminated
  /\ owner' = "joinCommit"
  /\ UNCHANGED <<wrapper, block, handle, op, worker, discard, out, status, fatal,
                 failures, resultUses>>

\* pthread_join fails: the reservation is undone and the handle kept.
NativeJoinFails ==
  /\ Running /\ owner = "joinNative" /\ CanFail
  /\ IF native # "Joining" THEN RequireFails
     ELSE /\ native' = "Open" /\ op' = "none" /\ owner' = "idle"
          /\ KeepSlot /\ status' = "Join" /\ failures' = failures + 1
          /\ UNCHANGED <<wrapper, control, result, references, lease, worker,
                         discard, out, fatal, resultUses>>

\* The success section of join: move the lease out and close the slot.
JoinCommit ==
  /\ Running /\ owner = "joinCommit"
  /\ IF native # "Joining" \/ result # "Ready" \/ packet = "set" \/ lease = "null"
     THEN RequireFails
     ELSE /\ native' = "Joined" /\ result' = "Taken" /\ lease' = "null"
          /\ handle' = "null" /\ out' = "set" /\ owner' = "release"
          /\ UNCHANGED <<wrapper, control, references, op, worker, discard,
                         status, fatal, failures, resultUses>>

\* pthread_detach returns 0.
NativeDetach ==
  /\ Running /\ owner = "detachNative"
  /\ owner' = "detachCommit"
  /\ UNCHANGED <<wrapper, block, handle, op, worker, discard, out, status, fatal,
                 failures, resultUses>>

\* pthread_detach fails: explicit detach keeps the handle, drop exits.
NativeDetachFails ==
  /\ Running /\ owner = "detachNative" /\ CanFail
  /\ IF native # "Detaching" THEN RequireFails
     ELSE /\ native' = "Open" /\ op' = "none" /\ owner' = "idle"
          /\ KeepSlot /\ status' = "Detach" /\ failures' = failures + 1
          /\ fatal' = IF op = "drop" THEN "dropDetach" ELSE fatal
          /\ UNCHANGED <<wrapper, control, result, references, lease, worker,
                         discard, out, resultUses>>

\* The success section of detach: a result that is ready is claimed here.
DetachCommit ==
  /\ Running /\ owner = "detachCommit"
  /\ IF native # "Detaching" \/ result \notin {"Ready", "Pending"}
     THEN RequireFails
     ELSE /\ native' = "Detached" /\ handle' = "null"
          /\ IF result = "Ready"
             THEN /\ result' = "DiscardClaimed" /\ lease' = "null"
                  /\ discard' = "owner" /\ owner' = "discard"
             ELSE /\ UNCHANGED <<result, lease, discard>>
                  /\ owner' = "release"
          /\ UNCHANGED <<wrapper, control, references, op, worker, out, status,
                         fatal, failures, resultUses>>

\* toka_thread_drop_result_v1 of the claimed lease, outside the lock.
OwnerDiscards ==
  /\ Running /\ owner = "discard"
  /\ discard' = "none" /\ resultUses' = resultUses + 1 /\ owner' = "dispose"
  /\ UNCHANGED <<wrapper, block, handle, op, worker, out, status, fatal,
                 failures>>

OwnerDisposes ==
  /\ Running /\ owner = "dispose"
  /\ result' = "Disposed" /\ owner' = "release"
  /\ UNCHANGED <<wrapper, control, native, references, lease, handle, op, worker,
                 discard, out, status, fatal, failures, resultUses>>

\* The check release() makes when it drops the last reference.
Quiescent ==
  /\ packet = "null" /\ lease = "null"
  /\ native \in {"Joined", "Detached"} /\ result \in {"Taken", "Disposed"}

\* release(): decrement under the lock; the last one destroys outside it.
OwnerReleases ==
  /\ Running /\ owner = "release"
  /\ IF references = 0 \/ (LastReference /\ ~Quiescent) THEN RequireFails
     ELSE /\ references' = references - 1
          /\ IF LastReference
             THEN owner' = "destroy" /\ UNCHANGED <<op, status>>
             ELSE owner' = "idle" /\ op' = "none" /\ status' = "Ok"
          /\ UNCHANGED <<wrapper, control, native, result, lease, handle, worker,
                         discard, out, fatal, failures, resultUses>>

OwnerDestroys ==
  /\ Running /\ owner = "destroy"
  /\ control' = "freed" /\ owner' = "idle" /\ op' = "none" /\ status' = "Ok"
  /\ UNCHANGED <<wrapper, native, result, references, lease, handle, worker,
                 discard, out, fatal, failures, resultUses>>

\* toka_thread_take_result_v1 or toka_thread_drop_result_v1 of a joined lease.
ConsumeOut ==
  /\ Running /\ owner = "idle" /\ out = "set"
  /\ ClearOut /\ resultUses' = resultUses + 1
  /\ UNCHANGED <<wrapper, block, handle, op, owner, worker, discard, status,
                 fatal, failures>>

----------------------------------------------------------------------------
(* The worker's trampoline.                                                *)

\* First section: take the packet out of the control block.
WorkerEnters ==
  /\ Running /\ worker = "entry"
  /\ IF packet = "null" \/ lease = "null" \/ result # "Pending" THEN RequireFails
     ELSE /\ packet' = "null" /\ worker' = "run"
          /\ UNCHANGED <<prepared, envUses, block, caller, discard, fatal,
                         failures, resultUses>>

\* ops->run_once(packet, storage)
RunOnce ==
  /\ Running /\ worker = "run"
  /\ envUses' = envUses + 1 /\ worker' = "publish"
  /\ UNCHANGED <<prepared, packet, block, caller, discard, fatal, failures,
                 resultUses>>

\* Second section: publish the result, or claim it if nobody can join.
WorkerPublishes ==
  /\ Running /\ worker = "publish"
  /\ IF result # "Pending" THEN RequireFails
     ELSE /\ IF WorkerOwnsResult
             THEN /\ result' = "DiscardClaimed" /\ lease' = "null"
                  /\ discard' = "worker" /\ worker' = "discard"
             ELSE /\ result' = "Ready" /\ worker' = "release"
                  /\ UNCHANGED <<lease, discard>>
          /\ UNCHANGED <<wrapper, control, native, references, caller, fatal,
                         failures, resultUses>>

WorkerDiscards ==
  /\ Running /\ worker = "discard"
  /\ discard' = "none" /\ resultUses' = resultUses + 1 /\ worker' = "dispose"
  /\ UNCHANGED <<wrapper, block, caller, fatal, failures>>

WorkerDisposes ==
  /\ Running /\ worker = "dispose"
  /\ result' = "Disposed" /\ worker' = "release"
  /\ UNCHANGED <<wrapper, control, native, references, lease, caller, discard,
                 fatal, failures, resultUses>>

WorkerReleases ==
  /\ Running /\ worker = "release"
  /\ IF references = 0 \/ (LastReference /\ ~Quiescent) THEN RequireFails
     ELSE /\ references' = references - 1
          /\ worker' = IF LastReference THEN "destroy" ELSE "exited"
          /\ UNCHANGED <<wrapper, control, native, result, lease, caller,
                         discard, fatal, failures, resultUses>>

WorkerDestroys ==
  /\ Running /\ worker = "destroy"
  /\ control' = "freed" /\ worker' = "exited"
  /\ UNCHANGED <<wrapper, native, result, references, lease, caller, discard,
                 fatal, failures, resultUses>>

\* _Exit: nothing runs any more.
Exited == ~Running /\ UNCHANGED vars

----------------------------------------------------------------------------
\* The steps an operation already begun still has to make.
OwnerContinues ==
  \/ StartReturns \/ NativeJoin \/ JoinCommit \/ NativeDetach \/ DetachCommit
  \/ OwnerDiscards \/ OwnerDisposes \/ OwnerReleases \/ OwnerDestroys

WorkerStep ==
  \/ WorkerEnters \/ RunOnce \/ WorkerPublishes \/ WorkerDiscards
  \/ WorkerDisposes \/ WorkerReleases \/ WorkerDestroys

Next ==
  \/ Prepare \/ PrepareFails \/ DisposePrepared \/ Start \/ StartFails
  \/ ClosedCall \/ BusyCall \/ Join \/ Detach \/ DropHandle
  \/ NativeJoinFails \/ NativeDetachFails \/ ConsumeOut
  \/ OwnerContinues \/ WorkerStep \/ Exited

\* The operating system runs both threads; run_once and user destructors
\* return.  Nothing obliges the owner to begin an operation.
Fairness == WF_vars(OwnerContinues) /\ WF_vars(WorkerStep)

Spec == Init /\ [][Next]_vars /\ Fairness

----------------------------------------------------------------------------
(* Properties.                                                             *)

TypeOK ==
  /\ prepared \in {"none", "ready", "starting", "null"}
  /\ control \in {"null", "live", "freed"}
  /\ native \in Native /\ result \in Result /\ references \in 0..2
  /\ packet \in Pointer /\ lease \in Pointer /\ handle \in Pointer
  /\ op \in {"none", "join", "detach", "drop"}
  /\ owner \in OwnerSteps /\ worker \in WorkerSteps
  /\ discard \in {"none", "owner", "worker"} /\ out \in Pointer
  /\ status \in Status /\ fatal \in {"none", "require", "dropDetach"}
  /\ failures \in 0..MaxFailures
  /\ envUses \in Nat /\ resultUses \in Nat

\* No interleaving of owner and worker makes one of the protocol's require()
\* checks fail: the only way out of the process is a failing implicit detach.
NoRequireFails == fatal # "require"

\* The control block is freed only when neither H nor W will touch it again,
\* in particular not while the worker is still inside its trampoline's last
\* release (mutex and block are destroyed after the unlock).
FreedMeansUnused ==
  control = "freed" =>
    /\ worker = "exited" /\ handle = "null" /\ references = 0
    /\ owner = "idle"

\* The environment is run or dropped at most once, and the result is moved
\* out or dropped at most once, whoever does it.
ConsumedAtMostOnce == envUses <= 1 /\ resultUses <= 1

\* When the protocol has come to rest nothing is leaked: the control block is
\* freed, and a result that was produced has been consumed or is in the joined
\* lease the caller holds.
NothingLeaked ==
  (worker = "exited" /\ owner = "idle" /\ handle = "null" /\ Running) =>
    /\ control = "freed" /\ envUses = 1
    /\ resultUses + (IF out = "set" THEN 1 ELSE 0) = 1

\* docs/thread_handoff.md, "which thread runs the destructor": the worker
\* discards only a result completed after the detach, the owner only one
\* completed before it; so the two never hold a claim at the same time.
DiscarderIsDecidedByOrder ==
  [][ /\ (WorkerDiscards => handle = "null" /\ native = "Detached" /\ op # "join")
      /\ (OwnerDiscards => worker \in {"release", "destroy", "exited"}) ]_vars

\* A join or detach that reports a native error leaves the handle usable: the
\* slot is still set, H is still counted and the state is Open again.
FailureKeepsHandle ==
  [][ (status' \in {"Join", "Detach"} /\ failures' # failures) =>
        /\ handle' = "set" /\ native' = "Open" /\ references' >= 1
        /\ control' = "live" ]_vars

\* Once the handle is closed the control block is eventually freed, whichever
\* of owner and worker is last, unless the process has exited.
ClosedHandleIsFreed ==
  (control = "live" /\ owner # "createReturn" /\ handle = "null")
    ~> (control = "freed" \/ ~Running)

\* A join does not wait for ever: it delivers the result or fails.
JoinReturns == (op = "join") ~> (op # "join" \/ ~Running)

----------------------------------------------------------------------------
(* The inductive invariant: who is where, and what the block then holds.   *)

OwnerCounted  == handle = "set" \/ owner \in {"createReturn", "discard", "dispose", "release"}
WorkerCounted == worker \in {"entry", "run", "publish", "discard", "dispose", "release"}
WorkerRan     == worker \in {"publish", "discard", "dispose", "release", "destroy", "exited"}
WorkerSettled == worker \in {"release", "destroy", "exited"}

\* references counts exactly the H and W responsibilities that are held, and
\* the block lives until the last holder has destroyed it.
ReferencesInv ==
  /\ references = (IF OwnerCounted THEN 1 ELSE 0) + (IF WorkerCounted THEN 1 ELSE 0)
  /\ (control = "null") <=> (worker = "none")
  /\ control = "null" => ~OwnerCounted /\ owner = "idle"
  /\ control = "freed" => ~OwnerCounted /\ owner = "idle" /\ worker = "exited"
  /\ owner = "destroy" => worker = "exited" /\ control = "live"
  /\ worker = "destroy" => ~OwnerCounted /\ owner = "idle"
  /\ (control = "live" /\ ~OwnerCounted /\ ~WorkerCounted)
       => owner = "destroy" \/ worker = "destroy"

\* native follows the owner's operation.
NativeInv ==
  /\ control = "null" => native = "Starting"
  /\ owner = "createReturn" <=> (native = "Starting" /\ control # "null")
  /\ owner = "createReturn" <=> prepared = "starting"
  /\ prepared \in {"none", "ready"} => control = "null"
  /\ handle = "set" <=> native \in {"Open", "Joining", "Detaching"}
  /\ native = "Open" => owner = "idle"
  /\ native = "Joining" <=> owner \in {"joinNative", "joinCommit"}
  /\ native = "Detaching" <=> owner \in {"detachNative", "detachCommit"}
  /\ op = "join" <=> (native = "Joining"
                       \/ (native = "Joined" /\ owner \in {"release", "destroy"}))
  /\ owner \in {"discard", "dispose"} => native = "Detached"
  /\ owner \in {"release", "destroy"} => native \in {"Joined", "Detached"}

\* result, lease and packet follow the worker, then whoever closes the handle.
ResultInv ==
  /\ packet = "set" <=> worker = "entry"
  /\ lease = "set" <=> (control # "null" /\ result \in {"Pending", "Ready"})
  /\ worker \in {"none", "entry", "run", "publish"} <=> result = "Pending"
  /\ result = "Ready" => native \in {"Starting", "Open", "Joining", "Detaching"}
  /\ result = "Taken" <=> native = "Joined"
  /\ native = "Joined" => worker = "exited"
  /\ native = "Detached" => result \in {"Pending", "DiscardClaimed", "Disposed"}
  /\ result = "Disposed" => native = "Detached" /\ WorkerSettled
  /\ worker \in {"discard", "dispose"} => owner \notin {"discard", "dispose"}
  /\ result = "DiscardClaimed" <=>
       (worker \in {"discard", "dispose"} \/ owner \in {"discard", "dispose"})
  /\ worker \in {"discard", "dispose"} => native = "Detached"
  /\ owner \in {"discard", "dispose"} => WorkerSettled
  /\ owner = "joinCommit" => worker = "exited"
  /\ out = "set" => result = "Taken"

\* The histories are determined by where the protocol stands.
UsesInv ==
  /\ envUses = IF WorkerRan \/ (control = "null" /\ prepared = "null") THEN 1 ELSE 0
  /\ resultUses = IF \/ result = "Disposed" \/ (result = "Taken" /\ out = "null")
                     \/ worker = "dispose" \/ owner = "dispose"
                  THEN 1 ELSE 0

\* The conjunction is inductive, and implies each safety invariant above.
IInv == TypeOK /\ NoRequireFails /\ ReferencesInv /\ NativeInv /\ ResultInv /\ UsesInv
=============================================================================
