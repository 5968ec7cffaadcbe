----------------------------- MODULE RoundRobin -----------------------------
(***************************************************************************)
(* The round-robin scheduler of Asgn2/scheduler.c at the level of its      *)
(* pointers: a doubly linked list through sched_prev and sched_next of the *)
(* thread contexts, with a head, a tail and a count.  It implements        *)
(* ReadyQueue, the sequence that Lwp works with.                           *)
(***************************************************************************)
EXTENDS Integers, Sequences

CONSTANTS Thread, NULL

ASSUME NullAssumption == NULL \notin Thread

VARIABLES
    sched_prev, sched_next,   \* fields of every context
    sched_head, sched_tail,
    scheduler_thread_count,
    answer                    \* what the last rr_next() returned

links == <<sched_prev, sched_next>>
vars == <<links, sched_head, sched_tail, scheduler_thread_count, answer>>

Pointer == Thread \cup {NULL}

TypeOK ==
    /\ sched_prev \in [Thread -> Pointer]
    /\ sched_next \in [Thread -> Pointer]
    /\ sched_head \in Pointer /\ sched_tail \in Pointer
    /\ scheduler_thread_count \in Nat
    /\ answer \in Pointer

Init ==
    /\ sched_prev = [t \in Thread |-> NULL]
    /\ sched_next = [t \in Thread |-> NULL]
    /\ sched_head = NULL /\ sched_tail = NULL
    /\ scheduler_thread_count = 0
    /\ answer = NULL

-----------------------------------------------------------------------------
\* The first n contexts of the walk from head along the next pointers.
WalkFrom(head, next, n) ==
    LET nth[i \in 1 .. n] == IF i = 1 THEN head ELSE next[nth[i - 1]] IN nth

\* The contexts on the list, in the order of the walk from sched_head.
Walk == WalkFrom(sched_head, sched_next, scheduler_thread_count)

Members == {Walk[i] : i \in 1 .. scheduler_thread_count}

\* rr_init(), rr_shutdown(): the list is dropped, the contexts keep their links.
Reset ==
    /\ scheduler_thread_count' = 0
    /\ sched_head' = NULL /\ sched_tail' = NULL
    /\ UNCHANGED <<links, answer>>

\* Mutant: a new thread jumps the queue.
AdmitAtHead(new) ==
    /\ new \notin Members
    /\ sched_prev' = [t \in Thread |-> IF t = new THEN NULL
                                     ELSE IF t = sched_head THEN new ELSE sched_prev[t]]
    /\ sched_next' = [sched_next EXCEPT ![new] = sched_head]
    /\ sched_head' = new
    /\ sched_tail' = IF sched_head = NULL THEN new ELSE sched_tail
    /\ scheduler_thread_count' = scheduler_thread_count + 1
    /\ UNCHANGED answer

\* rr_admit(); lwp.c admits a thread only while it is in no pool.
rr_admit(new) ==
    /\ new \notin Members
    /\ IF sched_head = NULL
       THEN /\ sched_prev' = [sched_prev EXCEPT ![new] = NULL]
            /\ sched_next' = [sched_next EXCEPT ![new] = NULL]
            /\ sched_head' = new
       ELSE /\ sched_next' = [sched_next EXCEPT ![sched_tail] = new, ![new] = NULL]
            /\ sched_prev' = [sched_prev EXCEPT ![new] = sched_tail]
            /\ UNCHANGED sched_head
    /\ sched_tail' = new
    /\ scheduler_thread_count' = scheduler_thread_count + 1
    /\ UNCHANGED answer

\* The four ways rr_remove() unlinks a victim found on the list.
unlink(victim) ==
    LET before == sched_prev[victim]
        after == sched_next[victim]
    IN  \/ /\ victim = sched_head /\ victim = sched_tail
           /\ sched_head' = NULL /\ sched_tail' = NULL
           /\ sched_prev' = [sched_prev EXCEPT ![victim] = NULL]
           /\ sched_next' = [sched_next EXCEPT ![victim] = NULL]
        \/ /\ victim = sched_head /\ victim # sched_tail
           /\ sched_head' = after /\ UNCHANGED sched_tail
           /\ sched_prev' = [sched_prev EXCEPT ![after] = NULL, ![victim] = NULL]
           /\ sched_next' = [sched_next EXCEPT ![victim] = NULL]
        \/ /\ victim # sched_head /\ victim = sched_tail
           /\ sched_tail' = before /\ UNCHANGED sched_head
           /\ sched_prev' = [sched_prev EXCEPT ![victim] = NULL]
           /\ sched_next' = [sched_next EXCEPT ![before] = NULL, ![victim] = NULL]
        \/ /\ victim # sched_head /\ victim # sched_tail
           /\ UNCHANGED <<sched_head, sched_tail>>
           /\ sched_prev' = [sched_prev EXCEPT ![after] = before, ![victim] = NULL]
           /\ sched_next' = [sched_next EXCEPT ![before] = after, ![victim] = NULL]

\* Mutant: the count goes down whether or not the victim was found.
RemoveCountsAnyway(victim) ==
    /\ IF victim \in Members THEN unlink(victim)
       ELSE UNCHANGED <<links, sched_head, sched_tail>>
    /\ scheduler_thread_count' = scheduler_thread_count - 1
    /\ UNCHANGED answer

\* rr_remove(): a victim the walk does not find is ignored.
rr_remove(victim) ==
    /\ IF victim \in Members
       THEN /\ unlink(victim)
            /\ scheduler_thread_count' = scheduler_thread_count - 1
       ELSE UNCHANGED <<links, sched_head, sched_tail, scheduler_thread_count>>
    /\ UNCHANGED answer

\* Mutant: the new head keeps its back pointer.
NextKeepsBackPointer ==
    /\ answer' = sched_head
    /\ IF sched_head = sched_tail
       THEN UNCHANGED <<links, sched_head, sched_tail>>
       ELSE /\ sched_next' = [sched_next EXCEPT ![sched_tail] = sched_head,
                                                ![sched_head] = NULL]
            /\ sched_prev' = [sched_prev EXCEPT ![sched_head] = sched_tail]
            /\ sched_tail' = sched_head
            /\ sched_head' = sched_next[sched_head]
    /\ UNCHANGED scheduler_thread_count

\* rr_next(): NULL, the only thread, or the head, which goes to the tail.
rr_next ==
    /\ answer' = sched_head
    /\ IF sched_head = sched_tail
       THEN UNCHANGED <<links, sched_head, sched_tail>>
       ELSE /\ sched_next' = [sched_next EXCEPT ![sched_tail] = sched_head,
                                                ![sched_head] = NULL]
            /\ sched_prev' = [sched_prev EXCEPT ![sched_head] = sched_tail,
                                                ![sched_next[sched_head]] = NULL]
            /\ sched_tail' = sched_head
            /\ sched_head' = sched_next[sched_head]
    /\ UNCHANGED scheduler_thread_count

Next == Reset \/ rr_next \/ \E t \in Thread : rr_admit(t) \/ rr_remove(t)

Spec == Init /\ [][Next]_vars

-----------------------------------------------------------------------------
\* The list reads the same in both directions and ends where the globals say:
\* every pointer update of rr_admit, rr_remove and rr_next has its counterpart,
\* and no walk runs into a null pointer before its end.
WellLinked ==
    LET n == scheduler_thread_count
    IN  /\ Members \subseteq Thread
        /\ n = 0 <=> sched_head = NULL
        /\ n = 0 <=> sched_tail = NULL
        /\ n > 0 => /\ sched_prev[sched_head] = NULL
                    /\ sched_next[sched_tail] = NULL
                    /\ Walk[n] = sched_tail
        /\ \A i \in 2 .. n : sched_prev[Walk[i]] = Walk[i - 1]
        /\ \A i, j \in 1 .. n : Walk[i] = Walk[j] => i = j

Ready == INSTANCE ReadyQueue WITH queue <- Walk

\* scheduler.c implements the queue that Lwp assumes of "rr": threads leave in
\* the order they came, next() answers the head and moves it to the tail, and
\* qlen() counts the members.
IsReadyQueue == Ready!Spec
=============================================================================
