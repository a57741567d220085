-------------------------- MODULE MCThreadHandoff --------------------------
(* ThreadHandoff for TLC: every failure combination with a few retries.    *)
EXTENDS ThreadHandoff
=============================================================================
