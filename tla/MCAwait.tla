------------------------------ MODULE MCAwait ------------------------------
(* Await on a tree of five tasks: the root g awaits p; p drains a scope    *)
(* with join_scoped (j, which itself drains with join_async, k) and awaits *)
(* a leaf c with `.await?`.                                                *)
EXTENDS Await

Await1(child, kind) == [child |-> child, kind |-> kind]

\* Executor: barrier first, so that it drains under a live cancellation.
TreePlan == [t \in Tasks |->
    CASE t = "g" -> <<Await1("p", "plain")>>
      [] t = "p" -> <<Await1("j", "barrier"), Await1("c", "catch")>>
      [] t = "j" -> <<Await1("k", "barrier")>>
      [] OTHER -> <<>>]

\* A handled cancellation followed by a drain.
CatchThenDrainPlan == [t \in Tasks |->
    CASE t = "g" -> <<Await1("p", "plain")>>
      [] t = "p" -> <<Await1("c", "catch"), Await1("j", "barrier")>>
      [] t = "j" -> <<Await1("k", "barrier")>>
      [] OTHER -> <<>>]

\* Threads: the root drains p, and p awaits one leaf.
ChainPlan == [t \in Tasks |->
    CASE t = "g" -> <<Await1("p", "barrier")>>
      [] t = "p" -> <<Await1("c", "plain")>>
      [] OTHER -> <<>>]
=============================================================================
