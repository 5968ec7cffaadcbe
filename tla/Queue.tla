------------------------------- MODULE Queue -------------------------------
(***************************************************************************)
(* The linked queues of Asgn2 as sequences: insertion at the tail (Append),*)
(* removal of one member wherever it is, and the round-robin rotation.     *)
(***************************************************************************)
EXTENDS Integers, Sequences, Functions

\* Where the walk from the head finds x.
Position(q, x) ==
    CHOOSE i \in DOMAIN q : q[i] = x /\ \A j \in DOMAIN q : j < i => q[j] # x

\* Unlink x if the walk finds it; otherwise the queue is left alone.
Unlink(q, x) ==
    IF x \in Range(q)
    THEN [i \in 1 .. Len(q) - 1 |-> IF i < Position(q, x) THEN q[i] ELSE q[i + 1]]
    ELSE q

\* Mutant: the head goes back only one place.
SwapHead(q) ==
    IF Len(q) < 2 THEN q ELSE <<q[2], q[1]>> \o SubSeq(q, 3, Len(q))

\* The head goes to the tail.
Rotate(q) == IF q = <<>> THEN q ELSE Append(Tail(q), Head(q))
=============================================================================
