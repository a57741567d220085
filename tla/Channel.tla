------------------------------- MODULE Channel -------------------------------
(***************************************************************************)
(* The channel of the Toka standard library (lib/std/channel.tk) on top of *)
(* its two-stack queue (lib/std/ring.tk) and of mutex and condition        *)
(* variables (lib/std/sync.tk).                                            *)
(*                                                                         *)
(* Everything happens under the channel's mutex, so a step is one critical *)
(* section: from lock, or from the return of wait_cond, to unlock or the   *)
(* next wait_cond.  A thread in wait_cond is "blocked"; it sleeps while it *)
(* is in notEmpty or notFull and takes the mutex again after it was        *)
(* removed.  Several threads may hold a Sender, one holds the Receiver.    *)
(***************************************************************************)
EXTENDS Integers, FiniteSets, SequencesExt

CONSTANTS
    Senders,    \* threads that may hold a Sender
    First,      \* the one that holds the Sender of the new pair
    Receiver,   \* the thread that holds the Receiver
    Capacity,   \* the bound of sync_channel; -1 for channel()
    MaxSends    \* bound: calls of send per thread

ASSUME ChannelAssumption ==
    /\ IsFiniteSet(Senders) /\ First \in Senders /\ Receiver \notin Senders
    /\ Capacity \in Int /\ MaxSends \in Nat

Threads == Senders \cup {Receiver}
Values == Senders \X (1 .. MaxSends)

VARIABLES
    front, back,          \* RingCore: the queue is Reverse(front) \o back
    closed,               \* WaitQueue.closed
    senders, receivers,   \* WaitQueue.senders, WaitQueue.receivers
    handle,               \* "none", "held" or "gone": each thread's endpoint
    pc,                   \* "idle" or "blocked" in wait_cond
    notEmpty, notFull,    \* who sleeps on which condition variable
    sent,                 \* calls of send per thread; numbers the values
    got,                  \* history: values returned by recv and try_recv
    refused               \* history: values dropped by a send that failed
queue_vars == <<front, back>>
count_vars == <<senders, receivers, handle>>
vars == <<queue_vars, closed, count_vars, pc, notEmpty, notFull, sent, got,
          refused>>

Init ==
    /\ front = <<>> /\ back = <<>> /\ closed = 0
    /\ senders = 1 /\ receivers = 1
    /\ handle = [t \in Threads |-> IF t \in {First, Receiver} THEN "held"
                                                              ELSE "none"]
    /\ pc = [t \in Threads |-> "idle"]
    /\ notEmpty = {} /\ notFull = {}
    /\ sent = [s \in Senders |-> 0] /\ got = <<>> /\ refused = {}

-----------------------------------------------------------------------------
(* RingCore.                                                               *)

QueueLen == Len(front) + Len(back)
Contents == Reverse(front) \o back

\* ring_refill(back, front), called with an empty front: the newer half of back
\* stays, the older half moves over in reverse order.
Kept(s) == Len(s) \div 2
MovedMutant(s) == SubSeq(s, 1, Len(s) - Kept(s))
Moved(s) == Reverse(SubSeq(s, 1, Len(s) - Kept(s)))
Stays(s) == SubSeq(s, Len(s) - Kept(s) + 1, Len(s))

RefilledFront == IF front = <<>> THEN Moved(back) ELSE front
RefilledBack == IF front = <<>> THEN Stays(back) ELSE back

-----------------------------------------------------------------------------
(* Condition variables.  notify_one wakes one sleeper if there is one;     *)
(* pthread_cond_wait may also return without a notification.               *)

NotifyOne(sleepers, after) ==
    IF sleepers = {} THEN after = {} ELSE \E t \in sleepers : after = sleepers \ {t}

Holds(t) == handle[t] = "held" /\ pc[t] = "idle"
Woken(t) == pc[t] = "blocked" /\ t \notin notEmpty \cup notFull

SpuriousWake ==
    /\ \E t \in notEmpty \cup notFull :
           notEmpty' = notEmpty \ {t} /\ notFull' = notFull \ {t}
    /\ UNCHANGED <<queue_vars, closed, count_vars, pc, sent, got, refused>>

-----------------------------------------------------------------------------
(* Sender.                                                                 *)

Value(s) == <<s, sent'[s]>>

Refuse(s) ==
    /\ refused' = refused \cup {Value(s)}
    /\ pc' = [pc EXCEPT ![s] = "idle"]
    /\ UNCHANGED <<queue_vars, notEmpty, notFull>>

WaitNotFull(s) ==
    /\ pc' = [pc EXCEPT ![s] = "blocked"]
    /\ notFull' = notFull \cup {s}
    /\ UNCHANGED <<queue_vars, notEmpty, refused>>

AfterPushMutant(after) == after = notEmpty
AfterPush(after) == NotifyOne(notEmpty, after)
Push(s) ==
    /\ back' = Append(back, Value(s))
    /\ AfterPush(notEmpty')
    /\ pc' = [pc EXCEPT ![s] = "idle"]
    /\ UNCHANGED <<front, notFull, refused>>

Full == Capacity >= 0 /\ QueueLen >= Capacity

\* The loop of send: closed is looked at only while the queue is full.
SendLoop(s) ==
    \/ Full /\ closed = 1 /\ Refuse(s)
    \/ Full /\ closed = 0 /\ WaitNotFull(s)
    \/ ~Full /\ Push(s)

Send(s) ==
    /\ Holds(s) /\ sent[s] < MaxSends
    /\ sent' = [sent EXCEPT ![s] = @ + 1]
    /\ (closed = 1 /\ Refuse(s)) \/ (closed = 0 /\ SendLoop(s))
    /\ UNCHANGED <<closed, count_vars, got>>

ResumeSend(s) ==
    /\ Woken(s)
    /\ UNCHANGED sent
    /\ SendLoop(s)
    /\ UNCHANGED <<closed, count_vars, got>>

Acquired == senders + 1
Clone(s, t) ==
    /\ Holds(s) /\ handle[t] = "none"
    /\ senders' = Acquired
    /\ handle' = [handle EXCEPT ![t] = "held"]
    /\ UNCHANGED <<queue_vars, closed, receivers, pc, notEmpty, notFull, sent,
                   got, refused>>

LastSender == senders = 1
DropSender(s) ==
    /\ Holds(s)
    /\ handle' = [handle EXCEPT ![s] = "gone"]
    /\ senders' = senders - 1
    /\ IF LastSender THEN closed' = 1 /\ notEmpty' = {}
                     ELSE UNCHANGED <<closed, notEmpty>>
    /\ UNCHANGED <<queue_vars, receivers, pc, notFull, sent, got, refused>>

-----------------------------------------------------------------------------
(* Receiver.                                                               *)

AfterPopMutant(after) == IF QueueLen = Capacity THEN NotifyOne(notFull, after)
                                                ELSE after = notFull
AfterPop(after) == IF Capacity >= 0 THEN NotifyOne(notFull, after)
                                    ELSE after = notFull
Pop ==
    /\ got' = Append(got, Last(RefilledFront))
    /\ front' = Front(RefilledFront)
    /\ back' = RefilledBack
    /\ AfterPop(notFull')
    /\ pc' = [pc EXCEPT ![Receiver] = "idle"]
    /\ UNCHANGED notEmpty

RecvReturnsNone ==
    /\ pc' = [pc EXCEPT ![Receiver] = "idle"]
    /\ UNCHANGED <<queue_vars, got, notEmpty, notFull>>

WaitNotEmpty ==
    /\ pc' = [pc EXCEPT ![Receiver] = "blocked"]
    /\ notEmpty' = notEmpty \cup {Receiver}
    /\ UNCHANGED <<queue_vars, got, notFull>>

RecvLoop ==
    \/ QueueLen > 0 /\ Pop
    \/ QueueLen = 0 /\ closed = 1 /\ RecvReturnsNone
    \/ QueueLen = 0 /\ closed = 0 /\ WaitNotEmpty

Recv ==
    /\ Holds(Receiver)
    /\ RecvLoop
    /\ UNCHANGED <<closed, count_vars, sent, refused>>

ResumeRecv ==
    /\ Woken(Receiver)
    /\ RecvLoop
    /\ UNCHANGED <<closed, count_vars, sent, refused>>

\* Without an item try_recv only looks whether the channel is closed.
TryRecv ==
    /\ Holds(Receiver) /\ QueueLen > 0
    /\ Pop
    /\ UNCHANGED <<closed, count_vars, sent, refused>>

WakeSendersMutant == notFull
WakeSenders == {}
DropReceiver ==
    /\ Holds(Receiver)
    /\ handle' = [handle EXCEPT ![Receiver] = "gone"]
    /\ receivers' = receivers - 1
    /\ IF receivers = 1 THEN closed' = 1 /\ notFull' = WakeSenders
                        ELSE UNCHANGED <<closed, notFull>>
    /\ UNCHANGED <<queue_vars, senders, pc, notEmpty, sent, got, refused>>

-----------------------------------------------------------------------------
Next ==
    \/ \E s \in Senders : Send(s) \/ ResumeSend(s) \/ DropSender(s)
    \/ \E s, t \in Senders : Clone(s, t)
    \/ Recv \/ ResumeRecv \/ TryRecv \/ DropReceiver
    \/ SpuriousWake

Spec == Init /\ [][Next]_vars

\* The operating system lets every woken thread have the mutex eventually; no
\* thread is obliged to call anything.
FairSpec ==
    /\ Spec
    /\ \A s \in Senders : WF_vars(ResumeSend(s))
    /\ WF_vars(ResumeRecv)

-----------------------------------------------------------------------------
(* Properties.                                                             *)

\* Every variable has its type; a sleeper is blocked, and on its own side.
TypeOK ==
    /\ front \in Seq(Values) /\ back \in Seq(Values)
    /\ closed \in {0, 1}
    /\ senders \in Nat /\ receivers \in Nat
    /\ handle \in [Threads -> {"none", "held", "gone"}]
    /\ pc \in [Threads -> {"idle", "blocked"}]
    /\ notEmpty \subseteq {Receiver} /\ notFull \subseteq Senders
    /\ \A t \in notEmpty \cup notFull : pc[t] = "blocked"
    /\ sent \in [Senders -> 0 .. MaxSends]
    /\ got \in Seq(Values) /\ refused \subseteq Values

\* The counters say who holds an endpoint, so that the assertions of clone and
\* drop hold; the channel is closed exactly when one side is gone.
CountsAreExact ==
    /\ senders = Cardinality({s \in Senders : handle[s] = "held"})
    /\ receivers = IF handle[Receiver] = "held" THEN 1 ELSE 0
    /\ closed = 1 <=> senders = 0 \/ receivers = 0

\* No wake-up of the receiver is lost: it never sleeps over a value or over the
\* end of the channel.
NoLostReceiverWake == Receiver \in notEmpty => QueueLen = 0 /\ closed = 0

WokenSenders == {s \in Senders : Woken(s)}

\* No wake-up of a sender is lost: while senders sleep, every free place of the
\* queue has a woken sender on its way, however often newcomers overtake it.
FreePlacesAreClaimed ==
    notFull # {} => closed = 0 /\ QueueLen + Cardinality(WokenSenders) >= Capacity

InFlight == {<<s, sent[s]>> : s \in {u \in Senders : pc[u] = "blocked"}}

\* Every value passed to send is in exactly one place: still with its blocked
\* sender, in the queue, with the receiver, or dropped with an error.
EachValueOnce ==
    LET everywhere == Contents \o got IN
    /\ \A i, j \in DOMAIN everywhere : everywhere[i] = everywhere[j] => i = j
    /\ refused \cap (ToSet(everywhere) \cup InFlight) = {}
    /\ InFlight \cap ToSet(everywhere) = {}
    /\ ToSet(everywhere) \cup refused \cup InFlight
         = {v \in Values : v[2] <= sent[v[1]]}

\* Whatever refills, wake-ups and overtaking happen, two stacks under a mutex
\* are one bounded FIFO queue.
Fifo == INSTANCE BoundedFifo WITH queue <- Contents
ImplementsFifo == Fifo!Spec

\* A receiver blocked on a channel that has a value, or that no sender will ever
\* fill, returns.
RecvReturns ==
    pc[Receiver] = "blocked" /\ (QueueLen > 0 \/ closed = 1) ~> pc[Receiver] = "idle"

\* When the receiver goes away, every blocked sender returns.
BlockedSendReturns ==
    \A s \in Senders : pc[s] = "blocked" /\ closed = 1 ~> pc[s] = "idle"

\* "closed channel rejects send" (tests/semantics/channel_storage/lifecycle.tk):
\* no value enters a closed channel.
ClosedRejectsSend == [][closed = 1 => Len(Contents') <= Len(Contents)]_vars
=============================================================================
