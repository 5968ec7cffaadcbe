------------------------------- MODULE Table -------------------------------
(***************************************************************************)
(* What the status rows of dine.c promise to a reader (asgn3.pdf, p. 1-2): *)
(* a table of N philosophers of which each line shows the state and the    *)
(* forks, and each line "should show only one change" from the line before.*)
(* No semaphore, thread or lock is visible here.                           *)
(***************************************************************************)
EXTENDS Integers

CONSTANT N

Seat == 0 .. N-1
LeftFork(p) == p
RightFork(p) == (p + 1) % N

VARIABLES row,   \* per philosopher, the state and the set of forks shown
          full   \* those who have eaten and are on the way to think

Free(f) == \A p \in Seat : f \notin row[p].forks

Init ==
    /\ row = [p \in Seat |-> [state |-> "CHANGING", forks |-> {}]]
    /\ full = {}

Show(p, st, fs) == row' = [row EXCEPT ![p] = [state |-> st, forks |-> fs]]

\* A hungry philosopher picks up a fork nobody is shown to hold.
PickUp(p) ==
    /\ row[p].state = "CHANGING" /\ p \notin full
    /\ \E f \in {LeftFork(p), RightFork(p)} :
           /\ Free(f)
           /\ Show(p, "CHANGING", row[p].forks \cup {f})
    /\ UNCHANGED full

\* Only one with both forks may eat.
Eat(p) ==
    /\ row[p] = [state |-> "CHANGING", forks |-> {LeftFork(p), RightFork(p)}]
    /\ p \notin full
    /\ Show(p, "EATING", row[p].forks)
    /\ UNCHANGED full

Leave(p) ==
    /\ row[p].state = "EATING"
    /\ Show(p, "CHANGING", row[p].forks)
    /\ full' = full \cup {p}

PutDown(p) ==
    /\ row[p].state = "CHANGING" /\ p \in full
    /\ \E f \in row[p].forks : Show(p, "CHANGING", row[p].forks \ {f})
    /\ UNCHANGED full

\* Thinking starts with empty hands.
Think(p) ==
    /\ row[p] = [state |-> "CHANGING", forks |-> {}] /\ p \in full
    /\ Show(p, "THINKING", row[p].forks)
    /\ full' = full \ {p}

\* Hungry again, or about to terminate.
Change(p) ==
    /\ row[p].state = "THINKING"
    /\ Show(p, "CHANGING", row[p].forks)
    /\ UNCHANGED full

Next ==
    \E p \in Seat :
        PickUp(p) \/ Eat(p) \/ Leave(p) \/ PutDown(p) \/ Think(p) \/ Change(p)

Spec == Init /\ [][Next]_<<row, full>>
=============================================================================
