----------------------------- MODULE BoundedFifo -----------------------------
(***************************************************************************)
(* What a channel promises (lib/std/channel.tk): one first-in first-out    *)
(* queue with an optional bound and a one-way switch to closed.            *)
(***************************************************************************)
EXTENDS Integers, Sequences

CONSTANTS Values,     \* what may be sent
          Capacity    \* the bound; a negative one is none

VARIABLES queue,      \* accepted and not yet delivered, oldest first
          closed,     \* 1 once one side is gone
          got         \* the deliveries so far
vars == <<queue, closed, got>>

Init == queue = <<>> /\ closed = 0 /\ got = <<>>

Put(v) ==
    /\ Capacity < 0 \/ Len(queue) < Capacity
    /\ queue' = Append(queue, v)
    /\ UNCHANGED <<closed, got>>

Take ==
    /\ queue # <<>>
    /\ got' = Append(got, Head(queue))
    /\ queue' = Tail(queue)
    /\ UNCHANGED closed

Close == closed' = 1 /\ UNCHANGED <<queue, got>>

Next == (\E v \in Values : Put(v)) \/ Take \/ Close

Spec == Init /\ [][Next]_vars
=============================================================================
