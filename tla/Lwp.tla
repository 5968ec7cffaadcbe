-------------------------------- MODULE Lwp --------------------------------
(***************************************************************************)
(* The lightweight-process library of Asgn2/lwp.c over a scheduler.        *)
(*                                                                         *)
(* Threads are cooperative: between two calls of swap_rfiles one thread    *)
(* runs alone, so a library call is one step, and a call that switches     *)
(* context ends with another thread current.  at[t] says where a thread    *)
(* goes on when it becomes current: in its own code, or inside lwp_wait()  *)
(* after the lwp_yield() that blocked it.                                  *)
(*                                                                         *)
(* A thread is named by the address of its context, which malloc may hand  *)
(* out again after reap_and_remove() has freed it.  Queues are sequences   *)
(* (see Queue); "rr" is the RoundRobin of scheduler.c, and any other       *)
(* scheduler is one of the user's, of which only the contract of lwp.h is  *)
(* known: next() returns some thread of its pool.                          *)
(***************************************************************************)
EXTENDS Queue

CONSTANTS Thread,           \* addresses of thread contexts
          NULL,             \* the null pointer
          Sched,            \* schedulers the program uses
          MaxTid,           \* bound on the thread ids handed out
          ExitVals          \* what threads pass to lwp_exit()

ASSUME NullAssumption == NULL \notin Thread \cup Sched
ASSUME SchedAssumption == "rr" \in Sched
ASSUME TidAssumption == MaxTid \in Nat
ASSUME ExitAssumption == ExitVals \subseteq Int

NO_THREAD == 0
FIRST_TID == 1
EXIT_FAILURE == 1

\* The status word of lwp.h: a terminated flag above eight bits of exit value.
LWP_LIVE == 0
\* Mutant: the exit value is not cut to eight bits.
MkTermStatWide(v) == 256 + v

MKTERMSTAT(v) == 256 + (v % 256)
LWPTERMINATED(s) == (s \div 256) % 2 = 1
LWPTERMSTAT(s) == s % 256

VARIABLES
    tid,                \* context->tid; NO_THREAD at an address that is free
    status,             \* context->status
    stack,              \* context->stack is an mmapped one (not NULL)
    exited,             \* context->exited
    live, waiting, zombies,
    pool,               \* the scheduling pool of each scheduler
    current_scheduler,
    curr_tid, curr_thread,
    at,                 \* "user" or "wait"
    sys,                \* the original context: "prestart", "lwp" or "lost"
    exit_code,          \* -1 while the process runs
    xfer,               \* the loop of lwp_set_scheduler(), <<>> outside it
    only_system_waits   \* how the program uses the library: only the converted
                        \* system thread calls lwp_wait(), or any thread

contexts == <<tid, status, stack, exited>>
queues == <<live, waiting, zombies>>
vars == <<contexts, queues, pool, current_scheduler, curr_tid, curr_thread,
          at, sys, exit_code, xfer, only_system_waits>>

Tids == FIRST_TID .. MaxTid
Allocated == {t \in Thread : tid[t] # NO_THREAD}
Running == exit_code = -1

TypeOK ==
    /\ tid \in [Thread -> Tids \cup {NO_THREAD}]
    /\ status \in [Thread -> {LWP_LIVE} \cup 256 .. 511]
    /\ stack \in [Thread -> BOOLEAN]
    /\ exited \in [Thread -> Thread \cup {NULL}]
    /\ live \in Seq(Thread) /\ waiting \in Seq(Thread) /\ zombies \in Seq(Thread)
    /\ pool \in [Sched -> Seq(Thread)]
    /\ current_scheduler \in Sched \cup {NULL}
    /\ curr_tid \in FIRST_TID .. MaxTid + 1
    /\ curr_thread \in Thread \cup {NULL}
    /\ at \in [Thread -> {"user", "wait"}]
    /\ sys \in {"prestart", "lwp", "lost"}
    /\ exit_code \in -1 .. 255 /\ only_system_waits \in BOOLEAN
    /\ \/ xfer = <<>>
       \/ xfer \in [to : Sched, thread : Thread \cup {NULL}, left : Nat,
                   before : Seq(Thread)]

Init ==
    /\ tid = [t \in Thread |-> NO_THREAD]
    /\ status = [t \in Thread |-> LWP_LIVE]
    /\ stack = [t \in Thread |-> FALSE]
    /\ exited = [t \in Thread |-> NULL]
    /\ live = <<>> /\ waiting = <<>> /\ zombies = <<>>
    /\ pool = [s \in Sched |-> <<>>]
    /\ current_scheduler = NULL
    /\ curr_tid = FIRST_TID
    /\ curr_thread = NULL
    /\ at = [t \in Thread |-> "user"]
    /\ sys = "prestart"
    /\ exit_code = -1
    /\ xfer = <<>>
    /\ only_system_waits \in BOOLEAN

-----------------------------------------------------------------------------
\* The code outside the library that is running now and may call it.
AtUser ==
    /\ Running /\ xfer = <<>>
    /\ IF curr_thread = NULL THEN sys = "prestart" ELSE at[curr_thread] = "user"

\* Every entry point falls back on RoundRobin.
scheduler_in_use == IF current_scheduler = NULL THEN "rr" ELSE current_scheduler

\* What scheduler s may answer to next() when its pool is q: rr_next() rotates.
Choices(s, q) ==
    IF q = <<>> THEN {[thread |-> NULL, pool |-> q]}
    ELSE IF s = "rr" THEN {[thread |-> Head(q), pool |-> Rotate(q)]}
    ELSE {[thread |-> t, pool |-> q] : t \in Range(q)}

\* Mutant: the switch forgets who is current.
YieldKeepsCurrent(q) ==
    \E n \in Choices(scheduler_in_use, q) :
        /\ pool' = [pool EXCEPT ![scheduler_in_use] = n.pool]
        /\ UNCHANGED curr_thread

\* lwp_yield() by a thread that is not terminated, or before lwp_start(), when
\* the pool of the scheduler in use is q.  With nobody to run it just returns.
YieldWith(q) ==
    \E n \in Choices(scheduler_in_use, q) :
        /\ pool' = [pool EXCEPT ![scheduler_in_use] = n.pool]
        /\ curr_thread' = IF n.thread = NULL THEN curr_thread ELSE n.thread

\* Mutant: assign_tid() hands out an id again.
NewContextSameTid(t, mapped) ==
    /\ tid[t] = NO_THREAD /\ curr_tid <= MaxTid
    /\ tid' = [tid EXCEPT ![t] = curr_tid]
    /\ UNCHANGED curr_tid
    /\ status' = [status EXCEPT ![t] = LWP_LIVE]
    /\ stack' = [stack EXCEPT ![t] = mapped]
    /\ exited' = [exited EXCEPT ![t] = NULL]
    /\ at' = [at EXCEPT ![t] = "user"]
    /\ live' = Append(live, t)
    /\ current_scheduler' = scheduler_in_use

\* A new context at address t, on the live queue (the callers admit it).
NewContext(t, mapped) ==
    /\ tid[t] = NO_THREAD /\ curr_tid <= MaxTid
    /\ tid' = [tid EXCEPT ![t] = curr_tid]
    /\ curr_tid' = curr_tid + 1
    /\ status' = [status EXCEPT ![t] = LWP_LIVE]
    /\ stack' = [stack EXCEPT ![t] = mapped]
    /\ exited' = [exited EXCEPT ![t] = NULL]
    /\ at' = [at EXCEPT ![t] = "user"]
    /\ live' = Append(live, t)
    /\ current_scheduler' = scheduler_in_use

lwp_create ==
    /\ AtUser
    /\ \E t \in Thread :
           /\ NewContext(t, TRUE)
           /\ pool' = [pool EXCEPT ![scheduler_in_use] = Append(@, t)]
    /\ UNCHANGED <<waiting, zombies, curr_thread, sys, exit_code, xfer>>

\* No stack for the thread: the context is freed, its tid is not reused.
lwp_create_no_stack ==
    /\ AtUser /\ curr_tid <= MaxTid /\ Allocated # Thread
    /\ curr_tid' = curr_tid + 1
    /\ UNCHANGED <<contexts, queues, pool, current_scheduler, curr_thread, at,
                   sys, exit_code, xfer>>

\* The system thread becomes an LWP on its own stack, and yields.
lwp_start ==
    /\ AtUser /\ curr_thread = NULL
    /\ \E t \in Thread :
           /\ NewContext(t, FALSE)
           /\ \E n \in Choices(scheduler_in_use, Append(pool[scheduler_in_use], t)) :
                  /\ pool' = [pool EXCEPT ![scheduler_in_use] = n.pool]
                  /\ curr_thread' = n.thread
    /\ sys' = "lwp"
    /\ UNCHANGED <<waiting, zombies, exit_code, xfer>>

\* malloc fails where the library cannot go on: in lwp_start() and, for the
\* zombie wrapper, in lwp_exit(); munmap fails in reap_and_remove() (below).
out_of_memory ==
    /\ AtUser
    /\ exit_code' = EXIT_FAILURE
    /\ \E v \in ExitVals :
           status' = [t \in Thread |-> IF t = curr_thread THEN MKTERMSTAT(v) ELSE status[t]]
    /\ UNCHANGED <<tid, stack, exited, queues, pool, current_scheduler, curr_tid,
                   curr_thread, at, sys, xfer>>

\* Called before lwp_start(), a yield with a runnable thread never comes back:
\* the original context is not saved.
lwp_yield ==
    /\ AtUser
    /\ YieldWith(pool[scheduler_in_use])
    /\ current_scheduler' = scheduler_in_use
    /\ sys' = IF curr_thread = NULL /\ curr_thread' # NULL THEN "lost" ELSE sys
    /\ UNCHANGED <<contexts, queues, curr_tid, at, exit_code, xfer>>

-----------------------------------------------------------------------------
\* Mutants of lwp_exit(): nobody woken, exited not set.
ExitWith(v, wakes, tells) ==
    /\ AtUser /\ curr_thread # NULL
    /\ LET me == curr_thread
           s == scheduler_in_use
           wake == wakes /\ waiting # <<>>
           q == IF wake THEN Append(Unlink(pool[s], me), Head(waiting))
                ELSE Unlink(pool[s], me)
       IN  /\ live' = Unlink(live, me)
           /\ waiting' = IF wake THEN Tail(waiting) ELSE waiting
           /\ exited' = IF wake /\ tells THEN [exited EXCEPT ![Head(waiting)] = me] ELSE exited
           /\ status' = [status EXCEPT ![me] = MKTERMSTAT(v)]
           /\ \/ \* somebody else runs
                 /\ q # <<>>
                 /\ YieldWith(q)
                 /\ zombies' = Append(zombies, me)
                 /\ UNCHANGED <<tid, exit_code>>
              \/ \* nobody is left: the process ends with this thread's value
                 /\ q = <<>>
                 /\ pool' = [pool EXCEPT ![s] = q]
                 /\ exit_code' = LWPTERMSTAT(status'[me])
                 /\ IF stack[me]
                    THEN /\ zombies' = Append(zombies, me)
                         /\ UNCHANGED <<tid, curr_thread>>
                    ELSE /\ zombies' = zombies
                         /\ tid' = [tid EXCEPT ![me] = NO_THREAD]
                         /\ curr_thread' = NULL
    /\ current_scheduler' = scheduler_in_use
    /\ UNCHANGED <<stack, curr_tid, at, sys, xfer>>

ExitWakesNobody(v) == ExitWith(v, FALSE, TRUE)
ExitTellsNobody(v) == ExitWith(v, TRUE, FALSE)

\* lwp_exit(v), also what lwp_wrap() calls with a thread function's result.
\* The oldest waiter is told whom to reap and made runnable.
lwp_exit(v) ==
    /\ AtUser /\ curr_thread # NULL
    /\ LET me == curr_thread
           s == scheduler_in_use
           wake == waiting # <<>>
           q == IF wake THEN Append(Unlink(pool[s], me), Head(waiting))
                ELSE Unlink(pool[s], me)
       IN  /\ live' = Unlink(live, me)
           /\ waiting' = IF wake THEN Tail(waiting) ELSE waiting
           /\ exited' = IF wake THEN [exited EXCEPT ![Head(waiting)] = me] ELSE exited
           /\ status' = [status EXCEPT ![me] = MKTERMSTAT(v)]
           /\ \/ \* somebody else runs
                 /\ q # <<>>
                 /\ YieldWith(q)
                 /\ zombies' = Append(zombies, me)
                 /\ UNCHANGED <<tid, exit_code>>
              \/ \* nobody is left: the process ends with this thread's value
                 /\ q = <<>>
                 /\ pool' = [pool EXCEPT ![s] = q]
                 /\ exit_code' = LWPTERMSTAT(status'[me])
                 /\ IF stack[me]
                    THEN /\ zombies' = Append(zombies, me)
                         /\ UNCHANGED <<tid, curr_thread>>
                    ELSE /\ zombies' = zombies
                         /\ tid' = [tid EXCEPT ![me] = NO_THREAD]
                         /\ curr_thread' = NULL
    /\ current_scheduler' = scheduler_in_use
    /\ UNCHANGED <<stack, curr_tid, at, sys, xfer>>

-----------------------------------------------------------------------------
\* reap_and_remove(z): off the zombie queue, its stack unmapped, its context
\* freed; nothing (NO_THREAD) when z is not on the zombie queue.
reap_and_remove(z) ==
    IF z \in Range(zombies)
    THEN \/ /\ zombies' = Unlink(zombies, z)
            /\ tid' = [tid EXCEPT ![z] = NO_THREAD]
            /\ UNCHANGED exit_code
         \/ /\ stack[z]
            /\ zombies' = Unlink(zombies, z)
            /\ exit_code' = EXIT_FAILURE
            /\ UNCHANGED tid
    ELSE UNCHANGED <<zombies, tid, exit_code>>

MayWait == ~only_system_waits \/ ~stack[curr_thread]

\* Mutant: the newest zombie is taken.
WaitReapNewest ==
    /\ AtUser /\ curr_thread # NULL /\ MayWait
    /\ exited[curr_thread] # NULL \/ zombies # <<>>
    /\ reap_and_remove(IF exited[curr_thread] # NULL THEN exited[curr_thread]
                       ELSE zombies[Len(zombies)])
    /\ exited' = [exited EXCEPT ![curr_thread] = NULL]
    /\ current_scheduler' = scheduler_in_use
    /\ UNCHANGED <<status, stack, live, waiting, pool, curr_tid, curr_thread,
                   at, sys, xfer>>

\* lwp_wait() with a thread to reap at once: its own exited, or the oldest zombie.
lwp_wait_reap ==
    /\ AtUser /\ curr_thread # NULL /\ MayWait
    /\ exited[curr_thread] # NULL \/ zombies # <<>>
    /\ reap_and_remove(IF exited[curr_thread] # NULL THEN exited[curr_thread]
                       ELSE Head(zombies))
    /\ exited' = [exited EXCEPT ![curr_thread] = NULL]
    /\ current_scheduler' = scheduler_in_use
    /\ UNCHANGED <<status, stack, live, waiting, pool, curr_tid, curr_thread,
                   at, sys, xfer>>

\* lwp_wait() that returns NO_THREAD: before lwp_start(), or when nobody else
\* is runnable and waiting would be for ever.
lwp_wait_none ==
    /\ AtUser
    /\ \/ curr_thread = NULL
       \/ /\ curr_thread # NULL /\ MayWait
          /\ exited[curr_thread] = NULL /\ zombies = <<>>
          /\ Len(pool[scheduler_in_use]) <= 1
    /\ current_scheduler' = scheduler_in_use
    /\ UNCHANGED <<contexts, queues, pool, curr_tid, curr_thread, at, sys,
                   exit_code, xfer>>

\* Mutant: lwp_wait() blocks although nobody else can run.
WaitBlockAlone ==
    /\ AtUser /\ curr_thread # NULL /\ MayWait
    /\ exited[curr_thread] = NULL /\ zombies = <<>>
    /\ waiting' = Append(waiting, curr_thread)
    /\ at' = [at EXCEPT ![curr_thread] = "wait"]
    /\ YieldWith(Unlink(pool[scheduler_in_use], curr_thread))
    /\ current_scheduler' = scheduler_in_use
    /\ UNCHANGED <<contexts, live, zombies, curr_tid, sys, exit_code, xfer>>

\* Mutant: the blocked thread stays in the pool.
WaitBlockRunnable ==
    /\ AtUser /\ curr_thread # NULL /\ MayWait
    /\ exited[curr_thread] = NULL /\ zombies = <<>>
    /\ Len(pool[scheduler_in_use]) > 1
    /\ waiting' = Append(waiting, curr_thread)
    /\ at' = [at EXCEPT ![curr_thread] = "wait"]
    /\ YieldWith(pool[scheduler_in_use])
    /\ current_scheduler' = scheduler_in_use
    /\ UNCHANGED <<contexts, live, zombies, curr_tid, sys, exit_code, xfer>>

\* lwp_wait() that blocks.
lwp_wait_block ==
    /\ AtUser /\ curr_thread # NULL /\ MayWait
    /\ exited[curr_thread] = NULL /\ zombies = <<>>
    /\ Len(pool[scheduler_in_use]) > 1
    /\ waiting' = Append(waiting, curr_thread)
    /\ at' = [at EXCEPT ![curr_thread] = "wait"]
    /\ YieldWith(Unlink(pool[scheduler_in_use], curr_thread))
    /\ current_scheduler' = scheduler_in_use
    /\ UNCHANGED <<contexts, live, zombies, curr_tid, sys, exit_code, xfer>>

\* The rest of lwp_wait() once the blocked thread runs again.
lwp_wait_resume ==
    /\ Running /\ xfer = <<>>
    /\ curr_thread # NULL /\ at[curr_thread] = "wait"
    /\ at' = [at EXCEPT ![curr_thread] = "user"]
    /\ exited' = [exited EXCEPT ![curr_thread] = NULL]
    /\ IF exited[curr_thread] # NULL
       THEN reap_and_remove(exited[curr_thread])
       ELSE UNCHANGED <<zombies, tid, exit_code>>
    /\ UNCHANGED <<status, stack, live, waiting, pool, current_scheduler,
                   curr_tid, curr_thread, sys, xfer>>

-----------------------------------------------------------------------------
\* lwp_set_scheduler(): new is initialised; with no scheduler before it, that
\* is all, otherwise the loop starts from next() and qlen() of the old one.
set_scheduler_begin ==
    /\ AtUser
    /\ \E new \in Sched \ {current_scheduler} :
           IF current_scheduler = NULL
           THEN /\ current_scheduler' = new
                /\ pool' = [pool EXCEPT ![new] = <<>>]
                /\ UNCHANGED xfer
           ELSE \E n \in Choices(current_scheduler, pool[current_scheduler]) :
                /\ pool' = [pool EXCEPT ![new] = <<>>, ![current_scheduler] = n.pool]
                /\ xfer' = [to |-> new, thread |-> n.thread, left |-> Len(n.pool),
                            before |-> pool[current_scheduler]]
                /\ UNCHANGED current_scheduler
    /\ UNCHANGED <<contexts, queues, curr_tid, curr_thread, at, sys, exit_code>>

\* Mutant: threads pile up at the head of the new pool.
SetSchedulerPushes ==
    /\ xfer # <<>> /\ xfer.left > 0
    /\ \E n \in Choices(current_scheduler, Unlink(pool[current_scheduler], xfer.thread)) :
           /\ pool' = [pool EXCEPT ![current_scheduler] = n.pool,
                                   ![xfer.to] = <<xfer.thread>> \o @]
           /\ xfer' = [xfer EXCEPT !.thread = n.thread, !.left = @ - 1]
    /\ UNCHANGED <<contexts, queues, current_scheduler, curr_tid, curr_thread,
                   at, sys, exit_code>>

\* One turn of the loop: remove from the old, admit to the new, next() again.
set_scheduler_turn ==
    /\ xfer # <<>> /\ xfer.left > 0
    /\ \E n \in Choices(current_scheduler, Unlink(pool[current_scheduler], xfer.thread)) :
           /\ pool' = [pool EXCEPT ![current_scheduler] = n.pool,
                                   ![xfer.to] = Append(@, xfer.thread)]
           /\ xfer' = [xfer EXCEPT !.thread = n.thread, !.left = @ - 1]
    /\ UNCHANGED <<contexts, queues, current_scheduler, curr_tid, curr_thread,
                   at, sys, exit_code>>

\* shutdown() of the old scheduler.
set_scheduler_end ==
    /\ xfer # <<>> /\ xfer.left = 0
    /\ pool' = [pool EXCEPT ![current_scheduler] = <<>>]
    /\ current_scheduler' = xfer.to
    /\ xfer' = <<>>
    /\ UNCHANGED <<contexts, queues, curr_tid, curr_thread, at, sys, exit_code>>

-----------------------------------------------------------------------------
\* The steps after which another thread may be current.
Switch ==
    \/ lwp_yield
    \/ \E v \in ExitVals : lwp_exit(v)
    \/ lwp_wait_block

Call ==
    \/ lwp_create \/ lwp_create_no_stack \/ lwp_start \/ out_of_memory
    \/ Switch
    \/ lwp_wait_reap \/ lwp_wait_none \/ lwp_wait_resume
    \/ set_scheduler_begin \/ set_scheduler_turn \/ set_scheduler_end

SameProgram == UNCHANGED only_system_waits

Next == Call /\ SameProgram

Spec == Init /\ [][Next]_vars

\* Whoever runs gives up the processor sooner or later, and library calls return.
FairSpec ==
    /\ Spec
    /\ WF_vars(Switch /\ SameProgram) /\ WF_vars(lwp_wait_resume /\ SameProgram)
    /\ WF_vars((set_scheduler_turn \/ set_scheduler_end) /\ SameProgram)

ExitOf(t) == curr_thread = t /\ (\E v \in ExitVals : lwp_exit(v)) /\ SameProgram

\* Every thread function returns if it is run often enough.
FunctionsReturn == \A t \in Thread : SF_vars(ExitOf(t))

-----------------------------------------------------------------------------
\* The threads some scheduler could be asked to run.
Runnable == UNION {Range(pool[s]) : s \in Sched}

\* Every live thread is either blocked in lwp_wait() or in a pool, in one place
\* and once; every context is live or a zombie.  (A thread dropped between two
\* of the hand-linked queues of lwp.c is never run or never freed again.)
QueuesPartition ==
    Running =>
        /\ \A q \in {live, waiting, zombies} \cup Range(pool) : IsInjective(q)
        /\ \A s1, s2 \in Sched : s1 # s2 => Range(pool[s1]) \cap Range(pool[s2]) = {}
        /\ Range(live) \cap Range(zombies) = {}
        /\ Range(live) \cup Range(zombies) = Allocated
        /\ Runnable \cap Range(waiting) = {}
        /\ Runnable \cup Range(waiting) = Range(live)

\* A thread that has terminated or is blocked does not run: the current thread
\* is always live and in the pool (lwp_yield() loads no zombie's context).
CurrentIsRunnable ==
    Running /\ curr_thread # NULL => curr_thread \in Runnable

\* Nobody waits for ever: while threads are blocked in lwp_wait() somebody is
\* runnable, and the process ends by lwp_exit() only when no thread is left
\* blocked (the qlen() <= 1 test of lwp_wait(), lwp.c:451).
NoLostWaiter ==
    /\ Running /\ waiting # <<>> => Runnable # {}
    /\ exit_code \notin {-1, EXIT_FAILURE} => live = <<>> /\ waiting = <<>>

\* tid2thread(): the first context with the id on the three queues.
tid2thread(id) ==
    LET searched == live \o waiting \o zombies
        hits == {i \in DOMAIN searched : tid[searched[i]] = id}
    IN  IF hits = {} THEN NULL
        ELSE searched[CHOOSE i \in hits : \A j \in hits : i <= j]

\* An id names the same thread from lwp_create() until it is reaped, and nothing
\* afterwards, although contexts are allocated again at the same addresses.
IdsAreExact ==
    Running =>
        /\ \A t \in Allocated : tid2thread(tid[t]) = t
        /\ \A id \in Tids : tid2thread(id) # NULL => \E t \in Allocated : tid[t] = id

\* "Associate the oldest head with the current thread so that it knows who to
\* reap" (lwp.c:395): a waiter that has been woken finds the thread it was
\* woken for, still a zombie and meant for nobody else.
WokenHasZombie ==
    Running =>
        \A t \in Runnable :
            at[t] = "wait" =>
                /\ exited[t] \in Range(zombies)
                /\ \A u \in Runnable \ {t} : exited[u] # exited[t]

\* The same for programs like those of lwp_test.c, in which only the original
\* thread waits: nobody can take the zombie away.
SystemWaiterHasZombie == only_system_waits => WokenHasZombie

\* In such a program zombies are reaped in the order in which they terminated,
\* by waits that block and by waits that do not.
ReapOldestFirst ==
    [][only_system_waits /\ Len(zombies') < Len(zombies) => zombies' = Tail(zombies)]_vars

\* "Transfers all threads from the old scheduler to the new one in next()
\* order" (lwp.c:585): from RoundRobin the order of its queue, from any other
\* scheduler at least the same threads.
TransferKeepsOrder ==
    [][xfer # <<>> /\ xfer' = <<>> =>
           /\ current_scheduler = "rr" => pool'[xfer.to] = xfer.before
           /\ Range(pool'[xfer.to]) = Range(xfer.before)
           /\ Len(pool'[xfer.to]) = Len(xfer.before)]_vars

-----------------------------------------------------------------------------
\* Only the scheduler in use has threads; during lwp_set_scheduler() also the
\* one that takes over, and then the process runs on.
PoolsInv ==
    /\ \A s \in Sched :
           pool[s] = <<>> \/ s = current_scheduler \/ (xfer # <<>> /\ s = xfer.to)
    /\ xfer # <<>> => Running /\ current_scheduler \in Sched \ {xfer.to}

\* How far the loop of lwp_set_scheduler() is: "left" threads are still in the
\* old pool and the others in the new one, from RoundRobin in the old order.
TransferInv ==
    xfer # <<>> =>
        LET old == pool[current_scheduler]
            new == pool[xfer.to]
            done == Len(xfer.before) - xfer.left
        IN  /\ IsInjective(xfer.before) /\ Range(xfer.before) = Runnable
            /\ Len(old) = xfer.left /\ Len(new) = done
            /\ xfer.left > 0 => xfer.thread \in Range(old)
            /\ current_scheduler = "rr" =>
                /\ \A i \in 1 .. done : new[i] = xfer.before[i]
                /\ xfer.left > 0 => /\ xfer.thread = xfer.before[done + 1]
                                   /\ old[xfer.left] = xfer.thread
                /\ \A i \in 1 .. xfer.left - 1 : old[i] = xfer.before[done + 1 + i]

\* Only a thread that is inside lwp_wait() and has been woken knows whom to reap.
WaitInv ==
    Running =>
        /\ \A t \in Range(live) : at[t] = "user" => exited[t] = NULL
        /\ \A t \in Range(waiting) : at[t] = "wait" /\ exited[t] = NULL

\* Ids differ and none is used before it is handed out.
TidInv ==
    Running =>
        \A t \in Allocated :
            tid[t] < curr_tid /\ \A u \in Allocated : tid[t] = tid[u] => t = u

\* At most one context, the converted system thread's, has no stack of its own;
\* where only that thread waits, it blocks when there is no zombie and is woken
\* for the oldest one.
SystemInv ==
    Running =>
        /\ \A t, u \in Allocated : ~stack[t] /\ ~stack[u] => t = u
        /\ sys = "prestart" => \A t \in Allocated : stack[t]
        /\ only_system_waits =>
            /\ waiting # <<>> => zombies = <<>>
            /\ \A t \in Range(live) :
                   at[t] = "wait" =>
                       /\ ~stack[t]
                       /\ t \in Runnable => zombies # <<>> /\ exited[t] = Head(zombies)

\* What the properties above rest on: which pools are in use, who waits and who
\* has been woken for whom, in every state between two library calls.
AuxInv == PoolsInv /\ TransferInv /\ WaitInv /\ TidInv /\ SystemInv

\* The inductive invariant of the proofs.
IndInv ==
    /\ TypeOK /\ AuxInv
    /\ QueuesPartition /\ CurrentIsRunnable /\ NoLostWaiter

-----------------------------------------------------------------------------
\* Under RoundRobin every runnable thread gets to run, although no thread ever
\* returns: yielding is enough.
RunnableRuns ==
    \A t \in Thread : (t \in Range(pool["rr"])) ~> (curr_thread = t \/ ~Running)

\* Every lwp_wait() that blocks comes back if thread functions return, unless
\* the library gives up on the whole process: the last thread never exits with a
\* waiter left behind.
WaiterReturns ==
    FunctionsReturn =>
        \A t \in Thread : (at[t] = "wait") ~> (at[t] = "user" \/ exit_code = EXIT_FAILURE)
=============================================================================
