----------------------------- MODULE ReadyQueue -----------------------------
(***************************************************************************)
(* What lwp.h promises of a round-robin scheduler: a FIFO of threads, of   *)
(* which next() answers the head and sends it to the tail.  Lwp uses the   *)
(* scheduler in exactly this form.                                         *)
(***************************************************************************)
EXTENDS Queue

CONSTANTS Thread, NULL

VARIABLES queue,    \* the runnable threads, next to run first
          answer    \* what the last next() returned

Init == queue = <<>> /\ answer = NULL

Reset == queue' = <<>> /\ UNCHANGED answer

Admit(t) ==
    /\ t \notin Range(queue)
    /\ queue' = Append(queue, t)
    /\ UNCHANGED answer

Remove(t) ==
    /\ queue' = Unlink(queue, t)
    /\ UNCHANGED answer

NextThread ==
    /\ answer' = IF queue = <<>> THEN NULL ELSE Head(queue)
    /\ queue' = Rotate(queue)

Next == Reset \/ NextThread \/ \E t \in Thread : Admit(t) \/ Remove(t)

Spec == Init /\ [][Next]_<<queue, answer>>
=============================================================================
