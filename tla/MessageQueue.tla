---------------------------- MODULE MessageQueue ----------------------------
(***************************************************************************)
(* The message queue of an Android Looper, as far as Handlers under src/   *)
(* change it other than at its ends: Handler.removeMessages.               *)
(***************************************************************************)
EXTENDS Integers, Sequences, FiniteSets

\* The places of q whose messages stay, and those of them up to i.
Staying(q, kinds) == {i \in 1..Len(q) : q[i] \notin kinds}
UpTo(places, i) == {j \in places : j <= i}

\* What is left of q without the messages of these kinds, in their order: the
\* n-th is the one with n places up to its own.  SelectSeq, in a form that can
\* be reasoned about.
removeMessages(q, kinds) ==
    LET places == Staying(q, kinds)
        Nth(n) == CHOOSE i \in places : Cardinality(UpTo(places, i)) = n
    IN  [n \in 1..Cardinality(places) |-> q[Nth(n)]]
=============================================================================
