----------------------------- MODULE LwpProofs -----------------------------
(***************************************************************************)
(* Proofs about Lwp for every set of contexts and schedulers, every bound  *)
(* on the thread ids and all exit values.                                  *)
(***************************************************************************)
EXTENDS Lwp, QueueProofs

\* The scheduler every entry point falls back on exists.
LEMMA InUse == TypeOK => scheduler_in_use \in Sched
BY SchedAssumption DEF TypeOK, scheduler_in_use

\* What next() of a scheduler may do to its pool: the same threads stay in it, and
\* it answers one of them if there is one.
LEMMA ChoiceMade ==
    ASSUME NEW s, NEW q \in Seq(Thread), NEW n \in Choices(s, q)
    PROVE  /\ n.pool \in Seq(Thread)
           /\ Range(n.pool) = Range(q) /\ Len(n.pool) = Len(q)
           /\ IsInjective(q) => IsInjective(n.pool)
           /\ n.thread \in Thread \cup {NULL}
           /\ q = <<>> => n.thread = NULL /\ n.pool = <<>>
           /\ q # <<>> => n.thread \in Range(q)
           /\ s = "rr" => n.pool = Rotate(q)
           /\ s = "rr" /\ q # <<>> => n.thread = Head(q)
<1>1. CASE q = <<>>
  <2>1. n = [thread |-> NULL, pool |-> q]
    BY <1>1 DEF Choices
  <2> QED BY <1>1, <2>1, RotateQueue
<1>2. CASE q # <<>> /\ s = "rr"
  <2>1. n = [thread |-> Head(q), pool |-> Rotate(q)]
    BY <1>2 DEF Choices
  <2>2. n.thread = Head(q) /\ n.pool = Rotate(q)
    BY <2>1
  <2> QED BY <1>2, <2>2, RotateQueue, TailQueue
<1>3. CASE q # <<>> /\ s # "rr"
  <2>1. PICK t \in Range(q) : n = [thread |-> t, pool |-> q]
    BY <1>3 DEF Choices
  <2> QED BY <1>3, <2>1, QueueMembers
<1> QED BY <1>1, <1>2, <1>3

\* Who may run, when only one pool is in use.
LEMMA RunnableIsPool ==
    TypeOK /\ PoolsInv /\ xfer = <<>> => Runnable = Range(pool[scheduler_in_use])
<1> SUFFICES ASSUME TypeOK, PoolsInv, xfer = <<>>
             PROVE  Runnable = Range(pool[scheduler_in_use])
  OBVIOUS
<1>1. scheduler_in_use \in Sched
  BY InUse
<1>2. ASSUME NEW s \in Sched, s # scheduler_in_use PROVE Range(pool[s]) = {}
  BY <1>2, EmptyQueue, NullAssumption DEF PoolsInv, scheduler_in_use
<1> QED BY <1>1, <1>2 DEF Runnable

\* The same after a step.
LEMMA RunnableIsPoolPrime ==
    (TypeOK /\ PoolsInv /\ xfer = <<>> => Runnable = Range(pool[scheduler_in_use]))'
BY RunnableIsPool, PTL

\* What lwp_yield() does to the pool and to the current thread.
LEMMA Yielded ==
    ASSUME TypeOK, NEW q \in Seq(Thread), YieldWith(q)
    PROVE  \E r \in Seq(Thread) :
               /\ pool' = [pool EXCEPT ![scheduler_in_use] = r]
               /\ Range(r) = Range(q) /\ Len(r) = Len(q)
               /\ IsInjective(q) => IsInjective(r)
               /\ q = <<>> => curr_thread' = curr_thread
               /\ q # <<>> => curr_thread' \in Range(q)
<1>1. PICK n \in Choices(scheduler_in_use, q) :
          /\ pool' = [pool EXCEPT ![scheduler_in_use] = n.pool]
          /\ curr_thread' = IF n.thread = NULL THEN curr_thread ELSE n.thread
  BY DEF YieldWith
<1>2. Range(q) \subseteq Thread
  BY QueueMembers
<1> QED BY <1>1, <1>2, ChoiceMade, NullAssumption

\* The status word of a thread that exits, and the value the process ends with.
LEMMA StatusWord ==
    ASSUME NEW v \in ExitVals
    PROVE  MKTERMSTAT(v) \in 256 .. 511 /\ LWPTERMSTAT(MKTERMSTAT(v)) \in 0 .. 255
<1>1. v \in Int
  BY ExitAssumption
<1>2. v % 256 \in 0 .. 255
  BY <1>1
<1>3. MKTERMSTAT(v) \in 256 .. 511
  BY <1>2 DEF MKTERMSTAT
<1>4. \A x \in 256 .. 511 : x % 256 \in 0 .. 255
  OBVIOUS
<1> QED BY <1>3, <1>4 DEF LWPTERMSTAT

\* The types of what the library keeps of its threads.
ContextTypes ==
    /\ tid \in [Thread -> Tids \cup {NO_THREAD}]
    /\ status \in [Thread -> {LWP_LIVE} \cup 256 .. 511]
    /\ stack \in [Thread -> BOOLEAN]
    /\ exited \in [Thread -> Thread \cup {NULL}]
    /\ at \in [Thread -> {"user", "wait"}]

\* The types of the queues.
QueueTypes ==
    /\ live \in Seq(Thread) /\ waiting \in Seq(Thread) /\ zombies \in Seq(Thread)
    /\ pool \in [Sched -> Seq(Thread)]
    /\ \/ xfer = <<>>
       \/ xfer \in [to : Sched, thread : Thread \cup {NULL}, left : Nat,
                   before : Seq(Thread)]

\* The types of the other globals.
GlobalTypes ==
    /\ current_scheduler \in Sched \cup {NULL}
    /\ curr_tid \in FIRST_TID .. MaxTid + 1
    /\ curr_thread \in Thread \cup {NULL}
    /\ sys \in {"prestart", "lwp", "lost"}
    /\ exit_code \in -1 .. 255 /\ only_system_waits \in BOOLEAN

\* The three parts make up the type invariant.
LEMMA TypeParts == TypeOK <=> ContextTypes /\ QueueTypes /\ GlobalTypes
BY DEF TypeOK, ContextTypes, QueueTypes, GlobalTypes

\* A new context has the right types.
LEMMA NewContextType ==
    ASSUME TypeOK, NEW t \in Thread, NEW mapped \in BOOLEAN, NewContext(t, mapped)
    PROVE  /\ ContextTypes'
           /\ live' \in Seq(Thread)
           /\ current_scheduler' \in Sched \cup {NULL}
           /\ curr_tid' \in FIRST_TID .. MaxTid + 1
<1>1. ContextTypes /\ live \in Seq(Thread) /\ curr_tid \in FIRST_TID .. MaxTid + 1
  BY DEF TypeOK, ContextTypes
<1>2. curr_tid \in Tids /\ curr_tid' \in FIRST_TID .. MaxTid + 1
  BY <1>1, TidAssumption DEF NewContext, Tids, FIRST_TID
<1>3. tid' \in [Thread -> Tids \cup {NO_THREAD}]
  BY <1>1, <1>2 DEF NewContext, ContextTypes
<1>4. status' \in [Thread -> {LWP_LIVE} \cup 256 .. 511]
  BY <1>1 DEF NewContext, ContextTypes
<1>5. stack' \in [Thread -> BOOLEAN] /\ at' \in [Thread -> {"user", "wait"}]
  BY <1>1, Zenon DEF NewContext, ContextTypes
<1>6. exited' \in [Thread -> Thread \cup {NULL}]
  BY <1>1 DEF NewContext, ContextTypes
<1>7. live' \in Seq(Thread)
  BY <1>1, AppendQueue DEF NewContext
<1>8. current_scheduler' \in Sched \cup {NULL}
  BY InUse DEF NewContext
<1> QED BY <1>2, <1>3, <1>4, <1>5, <1>6, <1>7, <1>8 DEF ContextTypes

\* So has what reap_and_remove() leaves.
LEMMA ReapType ==
    ASSUME TypeOK, NEW z, reap_and_remove(z)
    PROVE  /\ zombies' \in Seq(Thread)
           /\ tid' \in [Thread -> Tids \cup {NO_THREAD}]
           /\ exit_code' \in -1 .. 255
<1>1. zombies \in Seq(Thread) /\ tid \in [Thread -> Tids \cup {NO_THREAD}]
      /\ exit_code \in -1 .. 255
  BY DEF TypeOK
<1>2. Unlink(zombies, z) \in Seq(Thread)
  BY <1>1, UnlinkQueue
<1>3. zombies' \in Seq(Thread)
  BY <1>1, <1>2 DEF reap_and_remove
<1>4. tid' \in [Thread -> Tids \cup {NO_THREAD}]
  BY <1>1 DEF reap_and_remove
<1>5. exit_code' \in -1 .. 255
  <2>1. exit_code' = exit_code \/ exit_code' = EXIT_FAILURE
    BY Zenon DEF reap_and_remove
  <2>2. exit_code \in -1 .. 255
    BY <1>1
  <2> QED BY <2>1, <2>2 DEF EXIT_FAILURE
<1> QED BY <1>3, <1>4, <1>5

\* The pool after a yield has the right type.
LEMMA YieldType ==
    ASSUME TypeOK, NEW q \in Seq(Thread), YieldWith(q)
    PROVE  pool' \in [Sched -> Seq(Thread)] /\ curr_thread' \in Thread \cup {NULL}
<1>1. PICK r \in Seq(Thread) :
          /\ pool' = [pool EXCEPT ![scheduler_in_use] = r]
          /\ q = <<>> => curr_thread' = curr_thread
          /\ q # <<>> => curr_thread' \in Range(q)
  BY Yielded
<1>2. Range(q) \subseteq Thread
  BY QueueMembers
<1>3. pool \in [Sched -> Seq(Thread)] /\ curr_thread \in Thread \cup {NULL}
  BY DEF TypeOK
<1>4. pool' \in [Sched -> Seq(Thread)]
  BY <1>1, <1>3
<1>5. curr_thread' \in Thread \cup {NULL}
  BY <1>1, <1>2, <1>3, Zenon
<1> QED BY <1>4, <1>5

\* A thread's exit has the right types.
LEMMA ExitType ==
    ASSUME TypeOK, NEW v \in ExitVals, lwp_exit(v), SameProgram
    PROVE  ContextTypes' /\ QueueTypes' /\ GlobalTypes'
<1> DEFINE me == curr_thread
           s == scheduler_in_use
           wake == waiting # <<>>
           out == Unlink(pool[s], me)
           q == IF wake THEN Append(out, Head(waiting)) ELSE out
<1>1. me \in Thread /\ s \in Sched /\ pool[s] \in Seq(Thread)
  BY InUse DEF TypeOK, lwp_exit
<1>2. /\ live \in Seq(Thread) /\ waiting \in Seq(Thread) /\ zombies \in Seq(Thread)
      /\ pool \in [Sched -> Seq(Thread)]
      /\ ContextTypes /\ QueueTypes /\ GlobalTypes
  BY TypeParts DEF QueueTypes
<1>3. wake => Head(waiting) \in Thread /\ Tail(waiting) \in Seq(Thread)
  BY <1>2, TailQueue
<1>4. out \in Seq(Thread)
  BY <1>1, UnlinkQueue
<1>5. q \in Seq(Thread)
  BY <1>3, <1>4, AppendQueue
<1>6. /\ live' = Unlink(live, me)
      /\ waiting' = IF wake THEN Tail(waiting) ELSE waiting
      /\ exited' = IF wake THEN [exited EXCEPT ![Head(waiting)] = me] ELSE exited
      /\ status' = [status EXCEPT ![me] = MKTERMSTAT(v)]
      /\ current_scheduler' = s
      /\ UNCHANGED <<stack, curr_tid, at, sys, xfer>>
  BY DEF lwp_exit
<1>7. \/ /\ q # <<>> /\ YieldWith(q) /\ zombies' = Append(zombies, me)
         /\ UNCHANGED <<tid, exit_code>>
      \/ /\ q = <<>> /\ pool' = [pool EXCEPT ![s] = q]
         /\ exit_code' = LWPTERMSTAT(status'[me])
         /\ \/ zombies' = Append(zombies, me) /\ UNCHANGED <<tid, curr_thread>>
            \/ zombies' = zombies /\ tid' = [tid EXCEPT ![me] = NO_THREAD]
               /\ curr_thread' = NULL
  BY DEF lwp_exit
<1> HIDE DEF me, s, wake, q, out
<1>8. status' \in [Thread -> {LWP_LIVE} \cup 256 .. 511] /\ status'[me] = MKTERMSTAT(v)
  BY <1>1, <1>2, <1>6, StatusWord DEF ContextTypes
<1>9. exited' \in [Thread -> Thread \cup {NULL}]
  BY <1>1, <1>2, <1>3, <1>6 DEF ContextTypes
<1>10. tid' \in [Thread -> Tids \cup {NO_THREAD}]
  BY <1>2, <1>7 DEF ContextTypes
<1>11. ContextTypes'
  BY <1>2, <1>6, <1>8, <1>9, <1>10 DEF ContextTypes
<1>12. live' \in Seq(Thread) /\ waiting' \in Seq(Thread) /\ zombies' \in Seq(Thread)
  <2>1. Append(zombies, me) \in Seq(Thread) /\ Unlink(live, me) \in Seq(Thread)
    BY <1>1, <1>2, AppendQueue, UnlinkQueue
  <2> QED BY <1>2, <1>3, <1>6, <1>7, <2>1
<1>13. pool' \in [Sched -> Seq(Thread)] /\ curr_thread' \in Thread \cup {NULL}
  <2>1. CASE YieldWith(q)
    BY <1>5, <2>1, YieldType
  <2>2. CASE pool' = [pool EXCEPT ![s] = q]
               /\ (curr_thread' = curr_thread \/ curr_thread' = NULL)
    BY <1>1, <1>2, <1>5, <2>2 DEF me, s
  <2> QED BY <1>7, <2>1, <2>2
<1>14. exit_code' \in -1 .. 255
  <2>1. LWPTERMSTAT(status'[me]) \in 0 .. 255
    BY <1>8, StatusWord
  <2>2. exit_code \in -1 .. 255
    BY <1>2 DEF GlobalTypes
  <2>3. exit_code' = exit_code \/ exit_code' = LWPTERMSTAT(status'[me])
    BY <1>7, Zenon
  <2> QED BY <2>1, <2>2, <2>3
<1>15. QueueTypes'
  BY <1>2, <1>6, <1>12, <1>13 DEF QueueTypes
<1>16. GlobalTypes'
  BY <1>1, <1>2, <1>6, <1>13, <1>14 DEF GlobalTypes, SameProgram
<1> QED BY <1>11, <1>15, <1>16

\* The loop of lwp_set_scheduler() keeps the types.
LEMMA TransferType ==
    ASSUME TypeOK, PoolsInv, TransferInv,
           set_scheduler_begin \/ set_scheduler_turn \/ set_scheduler_end
    PROVE  QueueTypes' /\ current_scheduler' \in Sched \cup {NULL}
<1>1. /\ live \in Seq(Thread) /\ waiting \in Seq(Thread) /\ zombies \in Seq(Thread)
      /\ pool \in [Sched -> Seq(Thread)]
      /\ current_scheduler \in Sched \cup {NULL}
      /\ \/ xfer = <<>>
         \/ xfer \in [to : Sched, thread : Thread \cup {NULL}, left : Nat,
                     before : Seq(Thread)]
  BY DEF TypeOK
<1>2. UNCHANGED queues
  BY DEF set_scheduler_begin, set_scheduler_turn, set_scheduler_end
<1>3. <<>> \in Seq(Thread)
  BY EmptyQueue
<1>4. CASE set_scheduler_begin
  <2>1. PICK new \in Sched \ {current_scheduler} :
           IF current_scheduler = NULL
           THEN /\ current_scheduler' = new
                /\ pool' = [pool EXCEPT ![new] = <<>>]
                /\ UNCHANGED xfer
           ELSE \E n \in Choices(current_scheduler, pool[current_scheduler]) :
                /\ pool' = [pool EXCEPT ![new] = <<>>, ![current_scheduler] = n.pool]
                /\ xfer' = [to |-> new, thread |-> n.thread, left |-> Len(n.pool),
                            before |-> pool[current_scheduler]]
                /\ UNCHANGED current_scheduler
    BY <1>4 DEF set_scheduler_begin
  <2>2. CASE current_scheduler = NULL
    <3>1. pool' \in [Sched -> Seq(Thread)]
      BY <1>1, <1>3, <2>1, <2>2
    <3> QED BY <1>1, <1>2, <2>1, <2>2, <3>1 DEF QueueTypes, queues
  <2>3. CASE current_scheduler # NULL
    <3>1. pool[current_scheduler] \in Seq(Thread)
      BY <1>1, <2>3
    <3>2. PICK n \in Choices(current_scheduler, pool[current_scheduler]) :
                /\ pool' = [pool EXCEPT ![new] = <<>>, ![current_scheduler] = n.pool]
                /\ xfer' = [to |-> new, thread |-> n.thread, left |-> Len(n.pool),
                            before |-> pool[current_scheduler]]
                /\ UNCHANGED current_scheduler
      BY <2>1, <2>3
    <3>3. n.pool \in Seq(Thread) /\ n.thread \in Thread \cup {NULL}
      BY <3>1, ChoiceMade
    <3>4. Len(n.pool) \in Nat
      BY <3>3, QueueMembers
    <3>5. pool' \in [Sched -> Seq(Thread)]
      BY <1>1, <1>3, <3>2, <3>3
    <3>6. xfer' \in [to : Sched, thread : Thread \cup {NULL}, left : Nat,
                     before : Seq(Thread)]
      BY <3>1, <3>2, <3>3, <3>4
    <3> QED BY <1>1, <1>2, <3>2, <3>5, <3>6 DEF QueueTypes, queues
  <2> QED BY <2>2, <2>3
<1>5. CASE set_scheduler_turn
  <2> DEFINE q == Unlink(pool[current_scheduler], xfer.thread)
  <2>1. PICK n \in Choices(current_scheduler, q) :
           /\ pool' = [pool EXCEPT ![current_scheduler] = n.pool,
                                   ![xfer.to] = Append(@, xfer.thread)]
           /\ xfer' = [xfer EXCEPT !.thread = n.thread, !.left = @ - 1]
    BY <1>5 DEF set_scheduler_turn
  <2>2. /\ xfer \in [to : Sched, thread : Thread \cup {NULL}, left : Nat,
                    before : Seq(Thread)]
        /\ xfer.left > 0 /\ xfer # <<>>
    BY <1>1, <1>5 DEF set_scheduler_turn
  <2>3. /\ current_scheduler \in Sched /\ pool[current_scheduler] \in Seq(Thread)
        /\ xfer.to \in Sched /\ pool[xfer.to] \in Seq(Thread)
        /\ xfer.to # current_scheduler
    BY <1>1, <2>2 DEF PoolsInv
  <2>4. xfer.thread \in Thread
    BY <2>2, <2>3, QueueMembers DEF TransferInv
  <2>5. q \in Seq(Thread)
    BY <2>3, UnlinkQueue
  <2>6. n.pool \in Seq(Thread) /\ n.thread \in Thread \cup {NULL}
    BY <2>5, ChoiceMade
  <2>7. Append(pool[xfer.to], xfer.thread) \in Seq(Thread)
    BY <2>3, <2>4, AppendQueue
  <2>8. pool' \in [Sched -> Seq(Thread)]
    <3> DEFINE a == Append(pool[xfer.to], xfer.thread)
    <3>1. pool' = [pool EXCEPT ![current_scheduler] = n.pool, ![xfer.to] = a]
      BY <1>1, <2>1, <2>3
    <3> HIDE DEF a
    <3> QED BY <1>1, <2>3, <2>6, <2>7, <3>1 DEF a
  <2>9. xfer' \in [to : Sched, thread : Thread \cup {NULL}, left : Nat,
                   before : Seq(Thread)]
    <3>1. xfer.left - 1 \in Nat
      BY <2>2
    <3> QED BY <2>1, <2>2, <2>6, <3>1
  <2>10. current_scheduler' = current_scheduler
    BY <1>5 DEF set_scheduler_turn
  <2> QED BY <1>1, <1>2, <2>8, <2>9, <2>10 DEF QueueTypes, queues
<1>6. CASE set_scheduler_end
  <2>1. pool' \in [Sched -> Seq(Thread)]
    BY <1>1, <1>3, <1>6 DEF set_scheduler_end
  <2> QED BY <1>1, <1>2, <1>6, <2>1 DEF QueueTypes, queues, set_scheduler_end
<1> QED BY <1>4, <1>5, <1>6

\* Every variable keeps its type.
LEMMA TypeStep == TypeOK /\ PoolsInv /\ TransferInv /\ [Next]_vars => TypeOK'
<1> SUFFICES ASSUME TypeOK, PoolsInv, TransferInv, [Next]_vars PROVE TypeOK'
  OBVIOUS
<1> SUFFICES ContextTypes' /\ QueueTypes' /\ GlobalTypes'
  BY DEF TypeOK, ContextTypes, QueueTypes, GlobalTypes
<1>1. ContextTypes /\ QueueTypes /\ GlobalTypes
  BY TypeParts
<1>2. scheduler_in_use \in Sched /\ pool[scheduler_in_use] \in Seq(Thread)
  BY InUse DEF TypeOK
<1>3. CASE UNCHANGED vars
  BY <1>1, <1>3 DEF vars, contexts, queues, ContextTypes, QueueTypes, GlobalTypes
<1> SUFFICES ASSUME Call, SameProgram PROVE ContextTypes' /\ QueueTypes' /\ GlobalTypes'
  BY <1>3 DEF Next
<1>4. CASE lwp_create
  <2>1. PICK t \in Thread :
           /\ NewContext(t, TRUE)
           /\ pool' = [pool EXCEPT ![scheduler_in_use] = Append(@, t)]
    BY <1>4 DEF lwp_create
  <2>2. /\ ContextTypes' /\ live' \in Seq(Thread)
        /\ current_scheduler' \in Sched \cup {NULL}
        /\ curr_tid' \in FIRST_TID .. MaxTid + 1
    BY <2>1, NewContextType
  <2>3. pool' \in [Sched -> Seq(Thread)]
    <3> DEFINE q == Append(pool[scheduler_in_use], t)
    <3>1. q \in Seq(Thread)
      BY <1>2, AppendQueue
    <3>2. pool' = [pool EXCEPT ![scheduler_in_use] = q]
      BY <2>1
    <3> HIDE DEF q
    <3> QED BY <1>1, <3>1, <3>2 DEF QueueTypes
  <2>4. UNCHANGED <<waiting, zombies, curr_thread, sys, exit_code, xfer>>
    BY <1>4 DEF lwp_create
  <2> QED BY <1>1, <2>2, <2>3, <2>4 DEF QueueTypes, GlobalTypes, SameProgram
<1>5. CASE lwp_create_no_stack
  <2>1. curr_tid' \in FIRST_TID .. MaxTid + 1
    BY <1>1, <1>5, TidAssumption DEF lwp_create_no_stack, GlobalTypes, FIRST_TID
  <2> QED BY <1>1, <1>5, <2>1
      DEF lwp_create_no_stack, contexts, queues, ContextTypes, QueueTypes, GlobalTypes, SameProgram
<1>6. CASE lwp_start
  <2>1. PICK t \in Thread :
           /\ NewContext(t, FALSE)
           /\ \E n \in Choices(scheduler_in_use, Append(pool[scheduler_in_use], t)) :
                  /\ pool' = [pool EXCEPT ![scheduler_in_use] = n.pool]
                  /\ curr_thread' = n.thread
    BY <1>6 DEF lwp_start
  <2>2. /\ ContextTypes' /\ live' \in Seq(Thread)
        /\ current_scheduler' \in Sched \cup {NULL}
        /\ curr_tid' \in FIRST_TID .. MaxTid + 1
    BY <2>1, NewContextType
  <2>3. pool' \in [Sched -> Seq(Thread)] /\ curr_thread' \in Thread \cup {NULL}
    <3> DEFINE q == Append(pool[scheduler_in_use], t)
    <3>1. q \in Seq(Thread)
      BY <1>2, AppendQueue
    <3>2. PICK n \in Choices(scheduler_in_use, q) :
              pool' = [pool EXCEPT ![scheduler_in_use] = n.pool] /\ curr_thread' = n.thread
      BY <2>1
    <3> HIDE DEF q
    <3>3. n.pool \in Seq(Thread) /\ n.thread \in Thread \cup {NULL}
      BY <3>1, ChoiceMade
    <3> QED BY <1>1, <3>2, <3>3 DEF QueueTypes
  <2>4. UNCHANGED <<waiting, zombies, exit_code, xfer>> /\ sys' = "lwp"
    BY <1>6 DEF lwp_start
  <2> QED BY <1>1, <2>2, <2>3, <2>4 DEF QueueTypes, GlobalTypes, SameProgram
<1>7. CASE out_of_memory
  <2>1. PICK v \in ExitVals :
           status' = [t \in Thread |-> IF t = curr_thread THEN MKTERMSTAT(v) ELSE status[t]]
    BY <1>7 DEF out_of_memory
  <2>2. status' \in [Thread -> {LWP_LIVE} \cup 256 .. 511]
    BY <1>1, <2>1, StatusWord DEF ContextTypes
  <2>3. exit_code' \in -1 .. 255
    BY <1>7 DEF out_of_memory, EXIT_FAILURE
  <2> QED BY <1>1, <1>7, <2>2, <2>3
      DEF out_of_memory, queues, ContextTypes, QueueTypes, GlobalTypes, SameProgram
<1>8. CASE lwp_yield
  <2>1. pool' \in [Sched -> Seq(Thread)] /\ curr_thread' \in Thread \cup {NULL}
    BY <1>2, <1>8, YieldType DEF lwp_yield
  <2>2. sys' \in {"prestart", "lwp", "lost"}
    BY <1>1, <1>8 DEF lwp_yield, GlobalTypes
  <2> QED BY <1>1, <1>2, <1>8, <2>1, <2>2
      DEF lwp_yield, contexts, queues, ContextTypes, QueueTypes, GlobalTypes, SameProgram
<1>9. ASSUME NEW v \in ExitVals, lwp_exit(v)
      PROVE  ContextTypes' /\ QueueTypes' /\ GlobalTypes'
  BY <1>9, ExitType
<1>10. CASE lwp_wait_block
  <2> DEFINE q == Unlink(pool[scheduler_in_use], curr_thread)
  <2>1. q \in Seq(Thread)
    BY <1>2, UnlinkQueue
  <2>2. pool' \in [Sched -> Seq(Thread)] /\ curr_thread' \in Thread \cup {NULL}
    BY <1>10, <2>1, YieldType DEF lwp_wait_block
  <2>3. waiting' \in Seq(Thread)
    BY <1>1, <1>10, AppendQueue DEF lwp_wait_block, QueueTypes, GlobalTypes
  <2>4. at' \in [Thread -> {"user", "wait"}]
    BY <1>1, <1>10 DEF lwp_wait_block, ContextTypes
  <2> HIDE DEF q
  <2> QED BY <1>1, <1>2, <1>10, <2>2, <2>3, <2>4
      DEF lwp_wait_block, contexts, queues, ContextTypes, QueueTypes, GlobalTypes, SameProgram
<1>11. CASE lwp_wait_reap
  <2>1. PICK z : reap_and_remove(z)
    BY <1>11 DEF lwp_wait_reap
  <2>2. /\ zombies' \in Seq(Thread)
        /\ tid' \in [Thread -> Tids \cup {NO_THREAD}]
        /\ exit_code' \in -1 .. 255
    BY <2>1, ReapType
  <2>3. exited' \in [Thread -> Thread \cup {NULL}]
    BY <1>1, <1>11 DEF lwp_wait_reap, ContextTypes
  <2>4. /\ UNCHANGED <<status, stack, live, waiting, pool, curr_tid, curr_thread, at, sys, xfer>>
        /\ current_scheduler' = scheduler_in_use
    BY <1>11 DEF lwp_wait_reap
  <2> QED BY <1>1, <1>2, <2>2, <2>3, <2>4 DEF ContextTypes, QueueTypes, GlobalTypes, SameProgram
<1>12. CASE lwp_wait_none
  BY <1>1, <1>2, <1>12
     DEF lwp_wait_none, contexts, queues, ContextTypes, QueueTypes, GlobalTypes, SameProgram
<1>13. CASE lwp_wait_resume
  <2>1. /\ zombies' \in Seq(Thread)
        /\ tid' \in [Thread -> Tids \cup {NO_THREAD}]
        /\ exit_code' \in -1 .. 255
    <3>1. CASE exited[curr_thread] # NULL
      BY <1>13, <3>1, ReapType DEF lwp_wait_resume
    <3>2. CASE exited[curr_thread] = NULL
      BY <1>1, <1>13, <3>2 DEF lwp_wait_resume, ContextTypes, QueueTypes, GlobalTypes
    <3> QED BY <3>1, <3>2
  <2>2. exited' \in [Thread -> Thread \cup {NULL}]
    BY <1>1, <1>13 DEF lwp_wait_resume, ContextTypes
  <2>3. at' \in [Thread -> {"user", "wait"}]
    BY <1>1, <1>13 DEF lwp_wait_resume, ContextTypes
  <2>4. UNCHANGED <<status, stack, live, waiting, pool, current_scheduler,
                    curr_tid, curr_thread, sys, xfer>>
    BY <1>13 DEF lwp_wait_resume
  <2> QED BY <1>1, <2>1, <2>2, <2>3, <2>4 DEF ContextTypes, QueueTypes, GlobalTypes, SameProgram
<1>14. CASE set_scheduler_begin \/ set_scheduler_turn \/ set_scheduler_end
  <2>1. QueueTypes' /\ current_scheduler' \in Sched \cup {NULL}
    BY <1>14, TransferType
  <2>2. UNCHANGED <<contexts, curr_tid, curr_thread, at, sys, exit_code>>
    BY <1>14 DEF set_scheduler_begin, set_scheduler_turn, set_scheduler_end
  <2> QED BY <1>1, <2>1, <2>2 DEF contexts, ContextTypes, GlobalTypes, SameProgram
<1> QED
  BY <1>4, <1>5, <1>6, <1>7, <1>8, <1>9, <1>10, <1>11, <1>12, <1>13, <1>14 DEF Call, Switch

-----------------------------------------------------------------------------
\* The partition of the contexts when only the pool P has threads: L, W and Z are
\* the live, waiting and zombie queues and A the allocated contexts.
Partition(L, W, Z, P, A) ==
    /\ IsInjective(L) /\ IsInjective(W) /\ IsInjective(Z) /\ IsInjective(P)
    /\ Range(L) \cap Range(Z) = {} /\ Range(L) \cup Range(Z) = A
    /\ Range(P) \cap Range(W) = {} /\ Range(P) \cup Range(W) = Range(L)

\* Outside lwp_set_scheduler() the pool in use is the only one.
LEMMA OnePoolBefore ==
    ASSUME IndInv, Running, xfer = <<>>
    PROVE  /\ scheduler_in_use \in Sched
           /\ pool[scheduler_in_use] \in Seq(Thread)
           /\ Runnable = Range(pool[scheduler_in_use])
           /\ Partition(live, waiting, zombies, pool[scheduler_in_use], Allocated)
<1>1. scheduler_in_use \in Sched /\ pool \in [Sched -> Seq(Thread)]
  BY InUse DEF IndInv, TypeOK
<1>2. pool[scheduler_in_use] \in Range(pool)
  BY <1>1 DEF Range
<1>3. Runnable = Range(pool[scheduler_in_use])
  BY RunnableIsPool DEF IndInv, AuxInv
<1>4. QueuesPartition
  BY DEF IndInv
<1>5. /\ IsInjective(live) /\ IsInjective(waiting) /\ IsInjective(zombies)
      /\ IsInjective(pool[scheduler_in_use])
  BY <1>2, <1>4 DEF QueuesPartition
<1> QED BY <1>1, <1>3, <1>4, <1>5 DEF QueuesPartition, Partition

\* A call that leaves q in that pool and the queues partitioned.
LEMMA OnePoolAfter ==
    ASSUME IndInv, Running, xfer = <<>>, TypeOK',
           NEW q \in Seq(Thread),
           pool' = [pool EXCEPT ![scheduler_in_use] = q],
           current_scheduler' = scheduler_in_use,
           UNCHANGED xfer,
           Running' => Partition(live', waiting', zombies', q, Allocated')
    PROVE  /\ PoolsInv' /\ TransferInv' /\ QueuesPartition'
           /\ Runnable' = Range(q)
<1>1. scheduler_in_use \in Sched /\ pool \in [Sched -> Seq(Thread)]
  BY InUse DEF IndInv, TypeOK
<1>2. ASSUME NEW s \in Sched, s # scheduler_in_use PROVE pool'[s] = <<>>
  <2>1. pool[s] = <<>>
    BY <1>2, NullAssumption DEF IndInv, AuxInv, PoolsInv, scheduler_in_use
  <2> QED BY <1>1, <1>2, <2>1
<1>3. pool'[scheduler_in_use] = q
  BY <1>1
<1>4. xfer' = <<>> /\ PoolsInv' /\ TransferInv'
  BY <1>2 DEF PoolsInv, TransferInv
<1>5. scheduler_in_use' = scheduler_in_use
  BY <1>1, NullAssumption DEF scheduler_in_use
<1>6. Runnable' = Range(q)
  BY <1>3, <1>4, <1>5, RunnableIsPoolPrime
<1>7. Range(pool') \subseteq {q, <<>>}
  BY <1>1, <1>2, <1>3 DEF Range
<1>8. \A p \in Range(pool') : IsInjective(q) => IsInjective(p)
  BY <1>7, EmptyQueue
<1>9. \A s1, s2 \in Sched : s1 # s2 => Range(pool'[s1]) \cap Range(pool'[s2]) = {}
  BY <1>2, EmptyQueue
<1>10. QueuesPartition'
  BY <1>6, <1>8, <1>9 DEF QueuesPartition, Partition
<1> QED BY <1>4, <1>6, <1>10

\* A call that changes neither pools nor queues nor contexts.
LEMMA NothingMoved ==
    ASSUME IndInv, Running, Running', xfer = <<>>, TypeOK',
           UNCHANGED <<tid, queues, pool, xfer>>,
           current_scheduler' \in {current_scheduler, scheduler_in_use}
    PROVE  /\ PoolsInv' /\ TransferInv' /\ QueuesPartition'
           /\ Runnable' = Runnable /\ Allocated' = Allocated
<1>1. Runnable' = Runnable /\ Allocated' = Allocated
  BY DEF Runnable, Allocated
<1>2. QueuesPartition'
  BY <1>1 DEF queues, QueuesPartition, IndInv
<1>3. PoolsInv' /\ TransferInv'
  BY NullAssumption DEF IndInv, AuxInv, PoolsInv, TransferInv, scheduler_in_use
<1> QED BY <1>1, <1>2, <1>3

\* A new context joins the live queue and, with its thread, the pool.
LEMMA NewContextStep ==
    ASSUME IndInv, Running, xfer = <<>>, TypeOK',
           NEW t \in Thread, NEW mapped \in BOOLEAN, NewContext(t, mapped),
           NEW r \in Seq(Thread),
           Range(r) = Range(pool[scheduler_in_use]) \cup {t},
           t \notin Range(pool[scheduler_in_use]) => IsInjective(r),
           pool' = [pool EXCEPT ![scheduler_in_use] = r],
           UNCHANGED <<waiting, zombies, exit_code, xfer, only_system_waits>>,
           ~mapped => sys = "prestart" /\ sys' # "prestart",
           sys' = "prestart" => sys = "prestart"
    PROVE  /\ AuxInv' /\ QueuesPartition' /\ NoLostWaiter'
           /\ Runnable' = Range(r)
<1>1. /\ pool[scheduler_in_use] \in Seq(Thread)
      /\ Runnable = Range(pool[scheduler_in_use])
      /\ Partition(live, waiting, zombies, pool[scheduler_in_use], Allocated)
  BY OnePoolBefore
<1>2. /\ live \in Seq(Thread) /\ waiting \in Seq(Thread) /\ zombies \in Seq(Thread)
      /\ tid \in [Thread -> Tids \cup {NO_THREAD}] /\ curr_tid \in FIRST_TID .. MaxTid + 1
      /\ stack \in [Thread -> BOOLEAN] /\ exited \in [Thread -> Thread \cup {NULL}]
      /\ at \in [Thread -> {"user", "wait"}]
  BY DEF IndInv, TypeOK
<1>3. t \notin Allocated
  BY DEF NewContext, Allocated
<1>4. /\ tid'[t] = curr_tid /\ \A u \in Thread \ {t} : tid'[u] = tid[u]
      /\ stack'[t] = mapped /\ \A u \in Thread \ {t} : stack'[u] = stack[u]
      /\ exited'[t] = NULL /\ \A u \in Thread \ {t} : exited'[u] = exited[u]
      /\ at'[t] = "user" /\ \A u \in Thread \ {t} : at'[u] = at[u]
      /\ curr_tid' = curr_tid + 1 /\ live' = Append(live, t)
      /\ current_scheduler' = scheduler_in_use
  BY <1>2 DEF NewContext
<1>5. Allocated' = Allocated \cup {t}
  <2>1. curr_tid # NO_THREAD
    BY <1>2, TidAssumption DEF FIRST_TID, NO_THREAD
  <2> QED BY <1>4, <2>1 DEF Allocated
<1>6. /\ Range(live') = Range(live) \cup {t}
      /\ IsInjective(live) /\ t \notin Range(live) => IsInjective(live')
  BY <1>2, <1>4, AppendQueue
<1>7. Partition(live', waiting', zombies', r, Allocated')
  BY <1>1, <1>3, <1>5, <1>6 DEF Partition
<1>8. PoolsInv' /\ TransferInv' /\ QueuesPartition' /\ Runnable' = Range(r)
  BY <1>4, <1>7, OnePoolAfter
<1>9. Running'
  BY DEF Running
<1>10. Range(live) \subseteq Allocated /\ Allocated \subseteq Thread
  BY <1>1 DEF Partition, Allocated
<1>11. WaitInv'
  <2>1. WaitInv
    BY DEF IndInv, AuxInv
  <2>2. Range(waiting) \subseteq Allocated
    BY <1>1, <1>10 DEF Partition
  <2> QED BY <1>3, <1>4, <1>6, <1>10, <2>1, <2>2 DEF WaitInv
<1>12. TidInv'
  <2>1. \A u \in Allocated :
            tid[u] \in Tids /\ tid[u] < curr_tid /\ \A v \in Allocated : tid[u] = tid[v] => u = v
    BY <1>2 DEF IndInv, AuxInv, TidInv, Allocated
  <2>2. ASSUME NEW u \in Allocated', NEW v \in Allocated'
        PROVE  tid'[u] < curr_tid' /\ (tid'[u] = tid'[v] => u = v)
    <3>1. \A x \in Allocated : tid'[x] = tid[x] /\ tid[x] \in Int /\ tid[x] < curr_tid
      BY <1>3, <1>4, <1>10, <2>1, TidAssumption DEF Tids, FIRST_TID
    <3>2. curr_tid \in Int
      BY <1>2, TidAssumption DEF FIRST_TID
    <3> QED BY <1>4, <1>5, <2>1, <2>2, <3>1, <3>2
  <2> QED BY <2>2 DEF TidInv
<1>13. SystemInv'
  <2>1. SystemInv
    BY DEF IndInv, AuxInv
  <2>2. \A u \in Allocated : stack'[u] = stack[u] /\ at'[u] = at[u] /\ exited'[u] = exited[u]
    BY <1>3, <1>4, <1>10
  <2>3. \A u, v \in Allocated' : ~stack'[u] /\ ~stack'[v] => u = v
    BY <1>4, <1>5, <2>1, <2>2 DEF SystemInv
  <2>4. sys' = "prestart" => \A u \in Allocated' : stack'[u]
    BY <1>4, <1>5, <2>1, <2>2 DEF SystemInv
  <2>5. ASSUME only_system_waits'
        PROVE  /\ waiting' # <<>> => zombies' = <<>>
               /\ \A u \in Range(live') :
                      at'[u] = "wait" =>
                          /\ ~stack'[u]
                          /\ u \in Runnable' => zombies' # <<>> /\ exited'[u] = Head(zombies')
    BY <1>1, <1>4, <1>6, <1>8, <1>10, <2>1, <2>2, <2>5 DEF SystemInv
  <2> QED BY <2>3, <2>4, <2>5 DEF SystemInv
<1>14. NoLostWaiter'
  <2>1. Runnable' # {}
    BY <1>8
  <2>2. exit_code' = -1
    BY DEF Running
  <2> QED BY <2>1, <2>2 DEF NoLostWaiter
<1> QED BY <1>8, <1>11, <1>12, <1>13, <1>14 DEF AuxInv

\* lwp_create()
LEMMA CreateStep == IndInv /\ TypeOK' /\ lwp_create /\ SameProgram => IndInv'
<1> SUFFICES ASSUME IndInv, TypeOK', lwp_create, SameProgram PROVE IndInv'
  OBVIOUS
<1>1. Running /\ xfer = <<>>
  BY DEF lwp_create, AtUser
<1>2. PICK t \in Thread :
         /\ NewContext(t, TRUE)
         /\ pool' = [pool EXCEPT ![scheduler_in_use] = Append(@, t)]
  BY DEF lwp_create
<1> DEFINE P == pool[scheduler_in_use]
           r == Append(P, t)
<1>3. P \in Seq(Thread) /\ Runnable = Range(P) /\ IsInjective(P)
  BY <1>1, OnePoolBefore DEF Partition
<1>4. /\ r \in Seq(Thread) /\ Range(r) = Range(P) \cup {t}
      /\ t \notin Range(P) => IsInjective(r)
  BY <1>3, AppendQueue
<1>5. pool' = [pool EXCEPT ![scheduler_in_use] = r]
  BY <1>2
<1>6. UNCHANGED <<waiting, zombies, exit_code, xfer, only_system_waits, sys, curr_thread>>
  BY DEF lwp_create, SameProgram
<1> HIDE DEF r
<1>7. /\ AuxInv' /\ QueuesPartition' /\ NoLostWaiter' /\ Runnable' = Range(r)
  BY <1>1, <1>2, <1>4, <1>5, <1>6, NewContextStep
<1>8. CurrentIsRunnable'
  BY <1>1, <1>3, <1>4, <1>6, <1>7 DEF IndInv, CurrentIsRunnable, Running
<1> QED BY <1>7, <1>8 DEF IndInv

\* lwp_start()
LEMMA StartStep == IndInv /\ TypeOK' /\ lwp_start /\ SameProgram => IndInv'
<1> SUFFICES ASSUME IndInv, TypeOK', lwp_start, SameProgram PROVE IndInv'
  OBVIOUS
<1>1. Running /\ xfer = <<>> /\ sys = "prestart"
  BY DEF lwp_start, AtUser
<1>2. PICK t \in Thread :
         /\ NewContext(t, FALSE)
         /\ \E n \in Choices(scheduler_in_use, Append(pool[scheduler_in_use], t)) :
                /\ pool' = [pool EXCEPT ![scheduler_in_use] = n.pool]
                /\ curr_thread' = n.thread
  BY DEF lwp_start
<1> DEFINE P == pool[scheduler_in_use]
           q == Append(P, t)
<1>3. P \in Seq(Thread) /\ Runnable = Range(P) /\ IsInjective(P)
  BY <1>1, OnePoolBefore DEF Partition
<1>4. /\ q \in Seq(Thread) /\ Range(q) = Range(P) \cup {t} /\ q # <<>>
      /\ t \notin Range(P) => IsInjective(q)
  BY <1>3, AppendQueue
<1>5. PICK n \in Choices(scheduler_in_use, q) :
          pool' = [pool EXCEPT ![scheduler_in_use] = n.pool] /\ curr_thread' = n.thread
  BY <1>2
<1> HIDE DEF q
<1>6. /\ n.pool \in Seq(Thread) /\ Range(n.pool) = Range(q) /\ n.thread \in Range(q)
      /\ IsInjective(q) => IsInjective(n.pool)
  BY <1>4, ChoiceMade
<1>7. UNCHANGED <<waiting, zombies, exit_code, xfer, only_system_waits>> /\ sys' = "lwp"
  BY DEF lwp_start, SameProgram
<1>8. /\ AuxInv' /\ QueuesPartition' /\ NoLostWaiter' /\ Runnable' = Range(n.pool)
  <2> DEFINE r == n.pool
  <2>1. /\ r \in Seq(Thread) /\ Range(r) = Range(pool[scheduler_in_use]) \cup {t}
        /\ t \notin Range(pool[scheduler_in_use]) => IsInjective(r)
        /\ pool' = [pool EXCEPT ![scheduler_in_use] = r]
    BY <1>4, <1>5, <1>6
  <2> HIDE DEF r
  <2>2. /\ AuxInv' /\ QueuesPartition' /\ NoLostWaiter' /\ Runnable' = Range(r)
    BY <1>1, <1>2, <1>7, <2>1, NewContextStep
  <2> QED BY <2>2 DEF r
<1>9. CurrentIsRunnable'
  BY <1>5, <1>6, <1>8 DEF CurrentIsRunnable
<1> QED BY <1>8, <1>9 DEF IndInv

\* lwp_create() without a stack, and lwp_wait() that returns NO_THREAD, move nothing.
LEMMA NothingStep ==
    IndInv /\ TypeOK' /\ (lwp_create_no_stack \/ lwp_wait_none) /\ SameProgram => IndInv'
<1> SUFFICES ASSUME IndInv, TypeOK', lwp_create_no_stack \/ lwp_wait_none, SameProgram
             PROVE  IndInv'
  OBVIOUS
<1>1. /\ Running /\ xfer = <<>>
      /\ UNCHANGED <<contexts, queues, pool, curr_thread, at, sys, exit_code, xfer,
                     only_system_waits>>
      /\ current_scheduler' \in {current_scheduler, scheduler_in_use}
      /\ curr_tid' = curr_tid \/ curr_tid' = curr_tid + 1
  BY DEF lwp_create_no_stack, lwp_wait_none, AtUser, SameProgram
<1>2. Running'
  BY <1>1 DEF Running
<1>3. /\ PoolsInv' /\ TransferInv' /\ QueuesPartition'
      /\ Runnable' = Runnable /\ Allocated' = Allocated
  BY <1>1, <1>2, NothingMoved DEF contexts
<1>4. TidInv'
  <2>1. curr_tid \in Int /\ tid \in [Thread -> Tids \cup {NO_THREAD}]
    BY TidAssumption DEF IndInv, TypeOK, FIRST_TID
  <2>2. \A t \in Allocated : tid[t] \in Int /\ tid[t] < curr_tid
    BY <1>1, <2>1, TidAssumption
       DEF IndInv, AuxInv, TidInv, Allocated, Tids, FIRST_TID, NO_THREAD
  <2>3. \A t \in Allocated : tid[t] < curr_tid'
    BY <1>1, <2>1, <2>2
  <2> QED BY <1>1, <1>3, <2>3 DEF contexts, IndInv, AuxInv, TidInv
<1>5. WaitInv' /\ SystemInv' /\ CurrentIsRunnable' /\ NoLostWaiter'
  BY <1>1, <1>2, <1>3
     DEF contexts, queues, IndInv, AuxInv, WaitInv, SystemInv, CurrentIsRunnable, NoLostWaiter
<1> QED BY <1>3, <1>4, <1>5 DEF IndInv, AuxInv

\* When the process has ended, only what lwp_exit() promises is left to show.
LEMMA Ended ==
    ASSUME IndInv, TypeOK', ~Running', xfer' = <<>>,
           \A s \in Sched : pool'[s] = <<>> \/ s = current_scheduler',
           exit_code' # EXIT_FAILURE => live' = <<>> /\ waiting' = <<>>
    PROVE  IndInv'
BY DEF IndInv, AuxInv, PoolsInv, TransferInv, WaitInv, TidInv, SystemInv,
       QueuesPartition, CurrentIsRunnable, NoLostWaiter

\* The library gives up.
LEMMA OutOfMemoryStep == IndInv /\ TypeOK' /\ out_of_memory => IndInv'
<1> SUFFICES ASSUME IndInv, TypeOK', out_of_memory PROVE IndInv'
  OBVIOUS
<1>1. /\ xfer = <<>> /\ exit_code' = EXIT_FAILURE
      /\ UNCHANGED <<pool, current_scheduler, xfer>>
  BY DEF out_of_memory, AtUser
<1>2. ~Running'
  BY <1>1 DEF Running, EXIT_FAILURE
<1>3. \A s \in Sched : pool'[s] = <<>> \/ s = current_scheduler'
  BY <1>1 DEF IndInv, AuxInv, PoolsInv
<1> QED BY <1>1, <1>2, <1>3, Ended

\* lwp_yield()
LEMMA YieldStep == IndInv /\ TypeOK' /\ lwp_yield /\ SameProgram => IndInv'
<1> SUFFICES ASSUME IndInv, TypeOK', lwp_yield, SameProgram PROVE IndInv'
  OBVIOUS
<1>1. /\ Running /\ xfer = <<>> /\ Running'
      /\ UNCHANGED <<contexts, queues, curr_tid, at, exit_code, xfer, only_system_waits>>
      /\ current_scheduler' = scheduler_in_use
      /\ sys' = "prestart" => sys = "prestart"
  BY DEF lwp_yield, AtUser, SameProgram, Running
<1>2. /\ pool[scheduler_in_use] \in Seq(Thread)
      /\ Runnable = Range(pool[scheduler_in_use])
      /\ Partition(live, waiting, zombies, pool[scheduler_in_use], Allocated)
  BY <1>1, OnePoolBefore
<1>3. PICK r \in Seq(Thread) :
          /\ pool' = [pool EXCEPT ![scheduler_in_use] = r]
          /\ Range(r) = Runnable
          /\ IsInjective(pool[scheduler_in_use]) => IsInjective(r)
          /\ curr_thread' = curr_thread \/ curr_thread' \in Runnable
  BY <1>2, Yielded DEF lwp_yield, IndInv
<1>4. Allocated' = Allocated
  BY <1>1 DEF contexts, Allocated
<1>5. Partition(live', waiting', zombies', r, Allocated')
  BY <1>1, <1>2, <1>3, <1>4 DEF Partition, queues
<1>6. PoolsInv' /\ TransferInv' /\ QueuesPartition' /\ Runnable' = Runnable
  BY <1>1, <1>3, <1>5, OnePoolAfter
<1>7. WaitInv' /\ TidInv' /\ SystemInv' /\ NoLostWaiter'
  BY <1>1, <1>4, <1>6
     DEF contexts, queues, IndInv, AuxInv, WaitInv, TidInv, SystemInv, NoLostWaiter
<1>8. CurrentIsRunnable'
  BY <1>1, <1>3, <1>6 DEF IndInv, CurrentIsRunnable
<1> QED BY <1>6, <1>7, <1>8 DEF IndInv, AuxInv

\* lwp_wait() that blocks
LEMMA BlockStep == IndInv /\ TypeOK' /\ lwp_wait_block /\ SameProgram => IndInv'
<1> SUFFICES ASSUME IndInv, TypeOK', lwp_wait_block, SameProgram PROVE IndInv'
  OBVIOUS
<1> DEFINE me == curr_thread
           P == pool[scheduler_in_use]
           q == Unlink(P, me)
<1>1. /\ Running /\ xfer = <<>> /\ Running' /\ MayWait /\ me # NULL
      /\ exited[me] = NULL /\ zombies = <<>> /\ Len(P) > 1
      /\ waiting' = Append(waiting, me) /\ at' = [at EXCEPT ![me] = "wait"]
      /\ UNCHANGED <<contexts, live, zombies, curr_tid, sys, exit_code, xfer, only_system_waits>>
      /\ current_scheduler' = scheduler_in_use
  BY DEF lwp_wait_block, AtUser, SameProgram, Running
<1>2. /\ P \in Seq(Thread) /\ Runnable = Range(P)
      /\ Partition(live, waiting, zombies, P, Allocated)
  BY <1>1, OnePoolBefore
<1>3. /\ me \in Range(P) /\ me \in Thread /\ waiting \in Seq(Thread)
      /\ at \in [Thread -> {"user", "wait"}]
  BY <1>1, <1>2 DEF IndInv, CurrentIsRunnable, TypeOK
<1>4. /\ q \in Seq(Thread) /\ q # <<>> /\ Range(q) = Range(P) \ {me} /\ IsInjective(q)
  <2>1. /\ q \in Seq(Thread) /\ Len(q) = Len(P) - 1 /\ IsInjective(q)
        /\ Range(q) = Range(P) \ {me}
    BY <1>2, <1>3, UnlinkQueue DEF Partition
  <2>2. Len(P) \in Nat
    BY <1>2, QueueMembers
  <2> HIDE DEF q, P
  <2>3. Len(q) # 0
    BY <1>1, <2>1, <2>2
  <2> QED BY <2>1, <2>3, QueueMembers
<1>5. PICK r \in Seq(Thread) :
          /\ pool' = [pool EXCEPT ![scheduler_in_use] = r]
          /\ Range(r) = Range(q) /\ IsInjective(r) /\ curr_thread' \in Range(q)
  BY <1>4, Yielded DEF lwp_wait_block, IndInv
<1> HIDE DEF me, P, q
<1>6. /\ Range(waiting') = Range(waiting) \cup {me}
      /\ IsInjective(waiting) /\ me \notin Range(waiting) => IsInjective(waiting')
  BY <1>1, <1>3, AppendQueue
<1>7. Allocated' = Allocated
  BY <1>1 DEF contexts, Allocated
<1>8. Partition(live', waiting', zombies', r, Allocated')
  BY <1>1, <1>2, <1>3, <1>4, <1>5, <1>6, <1>7 DEF Partition
<1>9. PoolsInv' /\ TransferInv' /\ QueuesPartition' /\ Runnable' = Range(r)
  BY <1>1, <1>5, <1>8, OnePoolAfter
<1>10. at'[me] = "wait" /\ \A t \in Thread \ {me} : at'[t] = at[t]
  BY <1>1, <1>3
<1>11. Range(live) \subseteq Thread /\ Range(waiting) \subseteq Range(live)
  BY <1>2 DEF Partition, Allocated
<1>12. WaitInv'
  BY <1>1, <1>6, <1>10, <1>11 DEF contexts, IndInv, AuxInv, WaitInv
<1>13. TidInv'
  BY <1>1, <1>7 DEF contexts, IndInv, AuxInv, TidInv
<1>14. SystemInv'
  <2>1. SystemInv
    BY DEF IndInv, AuxInv
  <2>2. only_system_waits => ~stack[me]
    BY <1>1 DEF MayWait, me
  <2>3. Runnable' = Runnable \ {me}
    BY <1>2, <1>4, <1>5, <1>9
  <2> QED BY <1>1, <1>7, <1>10, <1>11, <2>1, <2>2, <2>3 DEF SystemInv, contexts
<1>15. NoLostWaiter' /\ CurrentIsRunnable'
  BY <1>1, <1>5, <1>9 DEF NoLostWaiter, CurrentIsRunnable, Running
<1> QED BY <1>9, <1>12, <1>13, <1>14, <1>15 DEF IndInv, AuxInv

\* reap_and_remove(z) takes z from the zombies and its context from the allocated
\* ones, or ends the process.
LEMMA Reaped ==
    ASSUME IndInv, Running, xfer = <<>>, TypeOK', NEW z, reap_and_remove(z),
           UNCHANGED <<live, waiting, pool, xfer>>, current_scheduler' = scheduler_in_use
    PROVE  /\ ~Running' => IndInv'
           /\ Running' => /\ PoolsInv' /\ TransferInv' /\ QueuesPartition'
                          /\ Runnable' = Runnable /\ Allocated' \subseteq Allocated
                          /\ Range(live) \subseteq Allocated'
                          /\ \A t \in Allocated' : tid'[t] = tid[t]
<1> DEFINE P == pool[scheduler_in_use]
<1>1. /\ P \in Seq(Thread) /\ Runnable = Range(P)
      /\ scheduler_in_use \in Sched
      /\ Partition(live, waiting, zombies, P, Allocated)
  BY OnePoolBefore
<1>2. /\ zombies \in Seq(Thread) /\ tid \in [Thread -> Tids \cup {NO_THREAD}]
      /\ pool \in [Sched -> Seq(Thread)]
  BY DEF IndInv, TypeOK
<1>3. pool' = [pool EXCEPT ![scheduler_in_use] = P]
  BY <1>1, <1>2
<1>4. ASSUME ~Running' PROVE IndInv'
  <2>1. exit_code' = EXIT_FAILURE
    BY <1>4 DEF reap_and_remove, Running
  <2>2. \A s \in Sched : pool'[s] = <<>> \/ s = current_scheduler'
    BY NullAssumption DEF IndInv, AuxInv, PoolsInv, scheduler_in_use
  <2> QED BY <1>4, <2>1, <2>2, Ended
<1>5. ASSUME Running'
      PROVE  /\ Partition(live', waiting', zombies', P, Allocated')
             /\ Allocated' \subseteq Allocated /\ Range(live) \subseteq Allocated'
             /\ \A t \in Allocated' : tid'[t] = tid[t]
  <2>1. CASE z \notin Range(zombies)
    <3>1. UNCHANGED <<zombies, tid>>
      BY <2>1 DEF reap_and_remove
    <3> QED BY <1>1, <3>1 DEF Partition, Allocated
  <2>2. CASE z \in Range(zombies)
    <3>1. zombies' = Unlink(zombies, z) /\ tid' = [tid EXCEPT ![z] = NO_THREAD]
      BY <1>5, <2>2 DEF reap_and_remove, Running, EXIT_FAILURE
    <3>2. /\ Range(zombies') = Range(zombies) \ {z} /\ IsInjective(zombies')
      BY <1>1, <1>2, <3>1, UnlinkQueue DEF Partition
    <3>3. Allocated' = Allocated \ {z} /\ \A t \in Allocated' : tid'[t] = tid[t]
      BY <1>2, <3>1 DEF Allocated
    <3> QED BY <1>1, <2>2, <3>2, <3>3 DEF Partition
  <2> QED BY <2>1, <2>2
<1> HIDE DEF P
<1>6. ASSUME Running'
      PROVE  PoolsInv' /\ TransferInv' /\ QueuesPartition' /\ Runnable' = Runnable
  BY <1>1, <1>3, <1>5, <1>6, OnePoolAfter
<1> QED BY <1>4, <1>5, <1>6

\* lwp_wait() that reaps at once
LEMMA ReapStep == IndInv /\ TypeOK' /\ lwp_wait_reap /\ SameProgram => IndInv'
<1> SUFFICES ASSUME IndInv, TypeOK', lwp_wait_reap, SameProgram PROVE IndInv'
  OBVIOUS
<1> DEFINE me == curr_thread
<1>1. /\ Running /\ xfer = <<>> /\ MayWait /\ me # NULL /\ at[me] = "user"
      /\ exited' = [exited EXCEPT ![me] = NULL]
      /\ UNCHANGED <<status, stack, live, waiting, pool, curr_tid, curr_thread, at, sys, xfer>>
      /\ only_system_waits' = only_system_waits
      /\ current_scheduler' = scheduler_in_use
  BY DEF lwp_wait_reap, AtUser, SameProgram
<1>2. PICK z : reap_and_remove(z)
  BY DEF lwp_wait_reap
<1>3. CASE ~Running'
  BY <1>1, <1>2, <1>3, Reaped
<1>4. CASE Running'
  <2>1. /\ PoolsInv' /\ TransferInv' /\ QueuesPartition'
        /\ Runnable' = Runnable /\ Allocated' \subseteq Allocated
        /\ \A t \in Allocated' : tid'[t] = tid[t]
    BY <1>1, <1>2, <1>4, Reaped
  <2>2. /\ Range(live) \subseteq Allocated /\ Range(waiting) \subseteq Range(live)
        /\ Runnable \subseteq Range(live) /\ Allocated \subseteq Thread
    BY <1>1 DEF IndInv, QueuesPartition, Allocated
  <2>3. me \in Range(live)
    BY <1>1, <2>2 DEF IndInv, CurrentIsRunnable
  <2>4. exited'[me] = NULL /\ \A t \in Thread \ {me} : exited'[t] = exited[t]
    BY <1>1, <2>2, <2>3 DEF IndInv, TypeOK
  <2>5. WaitInv'
    BY <1>1, <1>4, <2>2, <2>4 DEF IndInv, AuxInv, WaitInv
  <2>6. TidInv'
    BY <1>1, <1>4, <2>1 DEF IndInv, AuxInv, TidInv
  <2>7. SystemInv'
    <3>1. SystemInv /\ WaitInv
      BY DEF IndInv, AuxInv
    <3>2. ASSUME only_system_waits, NEW t \in Range(live) PROVE at[t] # "wait"
      <4>1. ~stack[me]
        BY <1>1, <3>2 DEF MayWait
      <4>2. at[t] = "wait" => t = me
        BY <1>1, <2>2, <2>3, <3>1, <3>2, <4>1 DEF SystemInv
      <4> QED BY <1>1, <4>2
    <3>3. only_system_waits => waiting = <<>>
      <4>1. only_system_waits => Range(waiting) = {}
        BY <1>1, <2>2, <3>1, <3>2 DEF WaitInv
      <4> QED BY <4>1, QueueMembers DEF IndInv, TypeOK
    <3> QED BY <1>1, <2>1, <3>1, <3>2, <3>3 DEF SystemInv
  <2>8. NoLostWaiter' /\ CurrentIsRunnable'
    BY <1>1, <1>4, <2>1 DEF IndInv, NoLostWaiter, CurrentIsRunnable, Running
  <2> QED BY <2>1, <2>5, <2>6, <2>7, <2>8 DEF IndInv, AuxInv
<1> QED BY <1>3, <1>4

\* The rest of lwp_wait()
LEMMA ResumeStep == IndInv /\ TypeOK' /\ lwp_wait_resume /\ SameProgram => IndInv'
<1> SUFFICES ASSUME IndInv, TypeOK', lwp_wait_resume, SameProgram PROVE IndInv'
  OBVIOUS
<1> DEFINE me == curr_thread
<1>1. /\ Running /\ xfer = <<>> /\ me # NULL /\ at[me] = "wait"
      /\ at' = [at EXCEPT ![me] = "user"]
      /\ exited' = [exited EXCEPT ![me] = NULL]
      /\ UNCHANGED <<status, stack, live, waiting, pool, curr_tid, curr_thread, sys, xfer>>
      /\ only_system_waits' = only_system_waits
      /\ UNCHANGED current_scheduler
  BY DEF lwp_wait_resume, SameProgram
<1>2. /\ Range(live) \subseteq Allocated /\ Range(waiting) \subseteq Range(live)
      /\ Runnable \cap Range(waiting) = {}
      /\ Runnable \subseteq Range(live) /\ Allocated \subseteq Thread
  BY <1>1 DEF IndInv, QueuesPartition, Allocated
<1>3. me \in Runnable /\ me \in Range(live)
  BY <1>1, <1>2 DEF IndInv, CurrentIsRunnable
<1>4. current_scheduler' = scheduler_in_use
  \* Somebody is in a pool, so there is a scheduler.
  <2>1. PICK s \in Sched : me \in Range(pool[s])
    BY <1>3 DEF Runnable
  <2>2. pool[s] # <<>>
    BY <2>1, EmptyQueue
  <2>3. s = current_scheduler
    BY <1>1, <2>2 DEF IndInv, AuxInv, PoolsInv
  <2> QED BY <1>1, <2>3, NullAssumption DEF scheduler_in_use
<1>5. \E z : reap_and_remove(z)
  <2>1. CASE exited[me] # NULL
    BY <2>1 DEF lwp_wait_resume
  <2>2. CASE exited[me] = NULL
    <3>1. NULL \notin Range(zombies)
      BY QueueMembers, NullAssumption DEF IndInv, TypeOK
    <3>2. reap_and_remove(NULL)
      BY <2>2, <3>1 DEF lwp_wait_resume, reap_and_remove
    <3> QED BY <3>2
  <2> QED BY <2>1, <2>2
<1>6. PICK z : reap_and_remove(z)
  BY <1>5
<1>7. CASE ~Running'
  BY <1>1, <1>4, <1>6, <1>7, Reaped
<1>8. CASE Running'
  <2>1. /\ PoolsInv' /\ TransferInv' /\ QueuesPartition'
        /\ Runnable' = Runnable /\ Allocated' \subseteq Allocated
        /\ \A t \in Allocated' : tid'[t] = tid[t]
    BY <1>1, <1>4, <1>6, <1>8, Reaped
  <2>2. /\ exited'[me] = NULL /\ at'[me] = "user"
        /\ \A t \in Thread \ {me} : exited'[t] = exited[t] /\ at'[t] = at[t]
    BY <1>1, <1>2, <1>3 DEF IndInv, TypeOK
  <2>3. WaitInv'
    BY <1>1, <1>2, <1>3, <1>8, <2>2 DEF IndInv, AuxInv, WaitInv
  <2>4. TidInv'
    BY <1>1, <1>8, <2>1 DEF IndInv, AuxInv, TidInv
  <2>5. SystemInv'
    <3>1. SystemInv /\ WaitInv
      BY DEF IndInv, AuxInv
    <3>2. ASSUME only_system_waits, NEW t \in Range(live) PROVE at[t] = "wait" => t = me
      BY <1>1, <1>2, <1>3, <3>1, <3>2 DEF SystemInv
    <3>3. only_system_waits => waiting = <<>>
      <4>1. only_system_waits => Range(waiting) = {}
        BY <1>1, <1>2, <1>3, <3>1, <3>2 DEF WaitInv
      <4> QED BY <4>1, QueueMembers DEF IndInv, TypeOK
    <3>4. only_system_waits => \A t \in Range(live) : at'[t] # "wait"
      BY <1>2, <2>2, <3>2
    <3> QED BY <1>1, <2>1, <3>1, <3>3, <3>4 DEF SystemInv
  <2>6. NoLostWaiter' /\ CurrentIsRunnable'
    BY <1>1, <1>8, <2>1 DEF IndInv, NoLostWaiter, CurrentIsRunnable, Running
  <2> QED BY <2>1, <2>3, <2>4, <2>5, <2>6 DEF IndInv, AuxInv
<1> QED BY <1>7, <1>8

\* lwp_exit()
LEMMA ExitStep ==
    ASSUME IndInv, TypeOK', NEW v \in ExitVals, lwp_exit(v), SameProgram
    PROVE  IndInv'
<1> DEFINE me == curr_thread
           s == scheduler_in_use
           P == pool[s]
           wake == waiting # <<>>
           w == Head(waiting)
           out == Unlink(P, me)
           q == IF wake THEN Append(out, w) ELSE out
<1>1. /\ Running /\ xfer = <<>> /\ me # NULL /\ at[me] = "user"
      /\ live' = Unlink(live, me)
      /\ waiting' = IF wake THEN Tail(waiting) ELSE waiting
      /\ exited' = IF wake THEN [exited EXCEPT ![w] = me] ELSE exited
      /\ current_scheduler' = s
      /\ UNCHANGED <<stack, curr_tid, at, sys, xfer, only_system_waits>>
  BY DEF lwp_exit, AtUser, SameProgram
<1>2. \/ /\ q # <<>> /\ YieldWith(q) /\ zombies' = Append(zombies, me)
         /\ UNCHANGED <<tid, exit_code>>
      \/ /\ q = <<>> /\ pool' = [pool EXCEPT ![s] = q]
         /\ exit_code' = LWPTERMSTAT(MKTERMSTAT(v))
  <2>1. curr_thread \in Thread /\ status \in [Thread -> {LWP_LIVE} \cup 256 .. 511]
    BY <1>1 DEF IndInv, TypeOK
  <2>2. status' = [status EXCEPT ![me] = MKTERMSTAT(v)]
    BY DEF lwp_exit
  <2>3. status'[me] = MKTERMSTAT(v)
    BY <2>1, <2>2
  <2> QED BY <2>3 DEF lwp_exit
<1>3. /\ s \in Sched /\ P \in Seq(Thread) /\ Runnable = Range(P)
      /\ Partition(live, waiting, zombies, P, Allocated)
  BY <1>1, OnePoolBefore
<1>4. /\ live \in Seq(Thread) /\ waiting \in Seq(Thread) /\ zombies \in Seq(Thread)
      /\ exited \in [Thread -> Thread \cup {NULL}] /\ pool \in [Sched -> Seq(Thread)]
  BY DEF IndInv, TypeOK
<1>5. me \in Range(P) /\ me \in Thread /\ me \in Range(live)
  <2>1. me \in Range(P)
    BY <1>1, <1>3 DEF IndInv, CurrentIsRunnable
  <2> QED BY <1>3, <2>1, QueueMembers DEF Partition
<1>6. /\ out \in Seq(Thread) /\ Range(out) = Range(P) \ {me} /\ IsInjective(out)
      /\ Range(live') = Range(live) \ {me} /\ IsInjective(live')
  BY <1>1, <1>3, <1>4, UnlinkQueue DEF Partition
<1>7. wake => /\ w \in Thread /\ w \in Range(waiting)
              /\ Range(waiting') = Range(waiting) \ {w} /\ IsInjective(waiting')
  BY <1>1, <1>3, <1>4, TailQueue DEF Partition
<1>8. wake => w # me /\ w \notin Range(out)
  BY <1>3, <1>5, <1>6, <1>7 DEF Partition
<1>9. /\ q \in Seq(Thread) /\ IsInjective(q)
      /\ Range(q) = Range(out) \cup IF wake THEN {w} ELSE {}
      /\ wake => q # <<>>
  <2>1. CASE wake
    BY <1>6, <1>7, <1>8, <2>1, AppendQueue
  <2>2. CASE ~wake
    BY <1>6, <2>2
  <2> QED BY <2>1, <2>2
<1> HIDE DEF me, s, P, wake, w, out, q
<1>10. IsInjective(waiting') /\ Range(waiting') = Range(waiting) \ IF wake THEN {w} ELSE {}
  BY <1>1, <1>3, <1>7 DEF Partition
<1>11. CASE q = <<>>
  <2>1. ~wake /\ waiting = <<>> /\ waiting' = <<>>
    BY <1>1, <1>9, <1>11 DEF wake
  <2>2. Range(live') = {}
    <3>1. Range(q) = {} /\ Range(waiting) = {}
      BY <1>11, <2>1, EmptyQueue
    <3> QED BY <1>3, <1>6, <1>9, <2>1, <3>1 DEF Partition
  <2>3. live' = <<>>
    BY <2>2, QueueMembers DEF TypeOK
  <2>4. ~Running'
    <3>1. exit_code' = LWPTERMSTAT(MKTERMSTAT(v))
      BY <1>2, <1>11, Zenon
    <3>2. exit_code' \in 0 .. 255
      BY <3>1, StatusWord
    <3> QED BY <3>2 DEF Running
  <2>5. \A t \in Sched : pool'[t] = <<>> \/ t = current_scheduler'
    BY <1>1, <1>2, <1>3, <1>4, <1>11, NullAssumption
       DEF IndInv, AuxInv, PoolsInv, s, scheduler_in_use
  <2> QED BY <1>1, <2>1, <2>3, <2>4, <2>5, Ended
<1>12. CASE q # <<>>
  <2>1. /\ YieldWith(q) /\ zombies' = Append(zombies, me)
        /\ UNCHANGED <<tid, exit_code>>
    BY <1>2, <1>12
  <2>2. PICK r \in Seq(Thread) :
            /\ pool' = [pool EXCEPT ![s] = r]
            /\ Range(r) = Range(q) /\ IsInjective(r) /\ curr_thread' \in Range(q)
    BY <1>9, <1>12, <2>1, Yielded DEF IndInv, s
  <2>3. Running' /\ Allocated' = Allocated
    BY <1>1, <2>1 DEF Running, Allocated
  <2>4. /\ Range(zombies') = Range(zombies) \cup {me}
        /\ me \notin Range(zombies) => IsInjective(zombies')
        /\ zombies' # <<>>
    <3>1. IsInjective(zombies) /\ zombies \in Seq(Thread) /\ me \in Thread
      BY <1>3, <1>4, <1>5 DEF Partition
    <3> QED BY <2>1, <3>1, AppendQueue
  <2>5. Partition(live', waiting', zombies', r, Allocated')
    <3>1. IsInjective(zombies')
      BY <1>3, <1>5, <2>4 DEF Partition
    <3>2. Range(live') \cap Range(zombies') = {} /\ Range(live') \cup Range(zombies') = Allocated'
      BY <1>3, <1>5, <1>6, <2>3, <2>4 DEF Partition
    <3>3. Range(r) \cap Range(waiting') = {} /\ Range(r) \cup Range(waiting') = Range(live')
      BY <1>3, <1>5, <1>6, <1>7, <1>8, <1>9, <1>10, <2>2 DEF Partition
    <3> QED BY <1>6, <1>10, <2>2, <3>1, <3>2, <3>3 DEF Partition
  <2>6. PoolsInv' /\ TransferInv' /\ QueuesPartition' /\ Runnable' = Range(r)
    BY <1>1, <2>2, <2>5, OnePoolAfter DEF s
  <2>7. /\ Range(live) \subseteq Allocated /\ Range(waiting) \subseteq Range(live)
        /\ Range(P) \subseteq Range(live) /\ Allocated \subseteq Thread
        /\ Range(P) \cap Range(waiting) = {}
    BY <1>3 DEF Partition, Allocated
  <2>8. /\ wake => exited'[w] = me
        /\ \A t \in Thread : ~(wake /\ t = w) => exited'[t] = exited[t]
    BY <1>1, <1>4, <1>7
  <2>9. WaitInv
    BY DEF IndInv, AuxInv
  <2>10. WaitInv'
    BY <1>1, <1>6, <1>7, <1>10, <2>7, <2>8, <2>9 DEF WaitInv
  <2>11. TidInv'
    BY <1>1, <2>1, <2>3 DEF IndInv, AuxInv, TidInv
  <2>12. SystemInv'
    <3>1. SystemInv
      BY DEF IndInv, AuxInv
    <3>2. ASSUME only_system_waits PROVE waiting' = <<>>
      <4>1. \A t, u \in Range(waiting) : t = u
        BY <1>1, <2>7, <2>9, <3>1, <3>2 DEF SystemInv, WaitInv
      <4>2. CASE wake
        <5>1. Range(waiting') = {}
          BY <1>7, <1>10, <4>1, <4>2
        <5> QED BY <5>1, QueueMembers DEF TypeOK
      <4>3. CASE ~wake
        BY <1>1, <4>3 DEF wake
      <4> QED BY <4>2, <4>3
    <3>3. ASSUME only_system_waits, NEW t \in Range(live'), at[t] = "wait", t \in Runnable'
          PROVE  exited'[t] = Head(zombies')
      <4>1. t \in Range(live) /\ t \in Thread
        BY <1>6, <2>7, <3>3
      <4>2. CASE wake /\ t = w
        <5>1. zombies = <<>>
          BY <1>1, <3>1, <3>3, <4>2 DEF SystemInv, wake
        <5>2. zombies' = <<me>>
          BY <2>1, <5>1
        <5> QED BY <2>8, <4>2, <5>2
      <4>3. CASE ~(wake /\ t = w)
        <5>1. t \in Runnable
          BY <1>3, <1>6, <1>9, <2>2, <2>6, <3>3, <4>3
        <5>2. zombies # <<>> /\ exited[t] = Head(zombies)
          BY <1>1, <3>1, <3>3, <4>1, <5>1 DEF SystemInv
        <5>3. Head(zombies') = Head(zombies)
          <6>1. Len(zombies) \in Nat \ {0}
            BY <1>4, <5>2, QueueMembers
          <6>2. zombies'[1] = zombies[1]
            BY <1>4, <1>5, <2>1, <6>1, AppendQueue
          <6>3. zombies' \in Seq(Thread)
            BY DEF TypeOK
          <6> QED BY <1>4, <2>4, <5>2, <6>2, <6>3, TailQueue
        <5> QED BY <2>8, <4>1, <4>3, <5>2, <5>3
      <4> QED BY <4>2, <4>3
    <3> QED BY <1>1, <1>6, <2>3, <2>4, <3>1, <3>2, <3>3 DEF SystemInv
  <2>13. NoLostWaiter' /\ CurrentIsRunnable'
    <3>1. exit_code' = -1
      BY <2>3 DEF Running
    <3> QED BY <2>2, <2>6, <3>1 DEF NoLostWaiter, CurrentIsRunnable
  <2> QED BY <2>6, <2>10, <2>11, <2>12, <2>13 DEF IndInv, AuxInv
<1> QED BY <1>11, <1>12

-----------------------------------------------------------------------------
\* A step that only moves threads between pools.
LEMMA PoolsOnly ==
    ASSUME IndInv, Running, TypeOK', SameProgram,
           UNCHANGED <<contexts, queues, curr_tid, curr_thread, at, sys, exit_code>>,
           Runnable' = Runnable, PoolsInv', TransferInv',
           \A s \in Sched : IsInjective(pool'[s]),
           \A s1, s2 \in Sched : s1 # s2 => Range(pool'[s1]) \cap Range(pool'[s2]) = {}
    PROVE  IndInv'
<1>1. Allocated' = Allocated /\ Running'
  BY DEF contexts, Allocated, Running
<1>2. \A p \in Range(pool') : IsInjective(p)
  BY DEF TypeOK, Range
<1>3. QueuesPartition'
  BY <1>1, <1>2 DEF queues, IndInv, QueuesPartition
<1>4. WaitInv' /\ TidInv' /\ SystemInv' /\ CurrentIsRunnable' /\ NoLostWaiter'
  BY <1>1 DEF contexts, queues, SameProgram, IndInv, AuxInv, WaitInv, TidInv, SystemInv,
              CurrentIsRunnable, NoLostWaiter
<1> QED BY <1>3, <1>4 DEF IndInv, AuxInv

\* What is known of the pools while the process runs.
LEMMA PoolFacts ==
    ASSUME IndInv, Running
    PROVE  /\ pool \in [Sched -> Seq(Thread)]
           /\ \A s \in Sched : IsInjective(pool[s])
           /\ \A s1, s2 \in Sched : s1 # s2 => Range(pool[s1]) \cap Range(pool[s2]) = {}
<1>1. pool \in [Sched -> Seq(Thread)] /\ QueuesPartition
  BY DEF IndInv, TypeOK
<1>2. \A s \in Sched : pool[s] \in Range(pool)
  BY <1>1 DEF Range
<1> QED BY <1>1, <1>2 DEF QueuesPartition

\* lwp_set_scheduler() up to its loop
LEMMA BeginStep == IndInv /\ TypeOK' /\ set_scheduler_begin /\ SameProgram => IndInv'
<1> SUFFICES ASSUME IndInv, TypeOK', set_scheduler_begin, SameProgram PROVE IndInv'
  OBVIOUS
<1> DEFINE cur == current_scheduler
           b == pool[cur]
<1>1. /\ Running /\ xfer = <<>>
      /\ UNCHANGED <<contexts, queues, curr_tid, curr_thread, at, sys, exit_code>>
  BY DEF set_scheduler_begin, AtUser
<1>2. PICK new \in Sched \ {cur} :
           IF cur = NULL
           THEN /\ current_scheduler' = new
                /\ pool' = [pool EXCEPT ![new] = <<>>]
                /\ UNCHANGED xfer
           ELSE \E n \in Choices(cur, b) :
                /\ pool' = [pool EXCEPT ![new] = <<>>, ![cur] = n.pool]
                /\ xfer' = [to |-> new, thread |-> n.thread, left |-> Len(n.pool), before |-> b]
                /\ UNCHANGED current_scheduler
  BY DEF set_scheduler_begin
<1>3. /\ pool \in [Sched -> Seq(Thread)] /\ cur \in Sched \cup {NULL}
      /\ \A s \in Sched : IsInjective(pool[s])
      /\ \A s1, s2 \in Sched : s1 # s2 => Range(pool[s1]) \cap Range(pool[s2]) = {}
  BY <1>1, PoolFacts DEF IndInv, TypeOK
<1>4. \A s \in Sched \ {cur} : pool[s] = <<>>
  BY <1>1 DEF IndInv, AuxInv, PoolsInv
<1>5. CASE cur = NULL
  <2>1. pool' = pool
    BY <1>2, <1>3, <1>4, <1>5
  <2>2. xfer' = <<>> /\ \A s \in Sched : pool'[s] = <<>>
    BY <1>1, <1>2, <1>4, <1>5, <2>1, NullAssumption
  <2>3. PoolsInv' /\ TransferInv'
    BY <2>2 DEF PoolsInv, TransferInv
  <2>4. Runnable' = Runnable
    BY <2>1 DEF Runnable
  <2> QED BY <1>1, <1>3, <2>1, <2>3, <2>4, PoolsOnly
<1>6. CASE cur # NULL
  <2>1. cur \in Sched /\ b \in Seq(Thread) /\ IsInjective(b)
    BY <1>3, <1>6
  <2>2. PICK n \in Choices(cur, b) :
                /\ pool' = [pool EXCEPT ![new] = <<>>, ![cur] = n.pool]
                /\ xfer' = [to |-> new, thread |-> n.thread, left |-> Len(n.pool), before |-> b]
                /\ current_scheduler' = cur
    BY <1>2, <1>6
  <2>3. /\ n.pool \in Seq(Thread) /\ Range(n.pool) = Range(b) /\ Len(n.pool) = Len(b)
        /\ IsInjective(n.pool)
        /\ b # <<>> => n.thread \in Range(b)
        /\ cur = "rr" => n.pool = Rotate(b)
        /\ cur = "rr" /\ b # <<>> => n.thread = Head(b)
    BY <2>1, ChoiceMade
  <2>4. /\ pool'[cur] = n.pool /\ \A s \in Sched \ {cur} : pool'[s] = <<>>
    BY <1>2, <1>3, <1>4, <2>1, <2>2
  <2>5. Runnable' = Runnable
    <3>1. \A s \in Sched : Range(pool'[s]) = Range(pool[s])
      BY <1>4, <2>3, <2>4
    <3> QED BY <3>1 DEF Runnable
  <2>6. /\ xfer'.to = new /\ xfer'.thread = n.thread /\ xfer'.left = Len(b)
        /\ xfer'.before = b
    BY <2>2, <2>3
  <2>7. PoolsInv'
    <3>1. Running'
      BY <1>1 DEF Running
    <3> QED BY <1>2, <2>1, <2>2, <2>4, <2>6, <3>1 DEF PoolsInv
  <2>8. TransferInv'
    <3>1. Len(b) \in Nat /\ Len(b) - Len(b) = 0 /\ (b = <<>> <=> Len(b) = 0)
      BY <2>1, QueueMembers
    <3>2. Range(b) = Runnable'
      <4>1. Runnable = Range(b)
        BY <1>1, <1>6, RunnableIsPool DEF IndInv, AuxInv, scheduler_in_use
      <4> QED BY <2>5, <4>1
    <3>3. Len(pool'[cur]) = Len(b) /\ Len(pool'[new]) = 0
      BY <1>2, <2>3, <2>4, EmptyQueue
    <3>4. Len(b) > 0 => n.thread \in Range(pool'[cur])
      BY <2>3, <2>4, <3>1
    <3>5. ASSUME cur = "rr"
          PROVE  /\ Len(b) > 0 => n.thread = b[0 + 1] /\ pool'[cur][Len(b)] = n.thread
                 /\ \A i \in 1 .. Len(b) - 1 : pool'[cur][i] = b[0 + 1 + i]
      <4>1. CASE b = <<>>
        BY <3>1, <4>1
      <4>2. CASE b # <<>>
        <5>1. /\ n.thread = b[1] /\ n.pool[Len(b)] = b[1]
              /\ \A i \in 1 .. Len(b) - 1 : n.pool[i] = b[i + 1]
          BY <2>1, <2>3, <3>5, <4>2, RotateQueue, TailQueue
        <5>2. \A i \in 1 .. Len(b) - 1 : 0 + 1 + i = i + 1
          BY <3>1
        <5> QED BY <2>4, <5>1, <5>2
      <4> QED BY <4>1, <4>2
    <3>6. current_scheduler' = cur /\ 1 .. 0 = {}
      BY <2>2
    <3>7. /\ IsInjective(xfer'.before) /\ Range(xfer'.before) = Runnable'
          /\ Len(pool'[current_scheduler']) = xfer'.left
          /\ Len(pool'[xfer'.to]) = Len(xfer'.before) - xfer'.left
      BY <2>1, <2>6, <3>1, <3>2, <3>3, <3>6
    <3>8. xfer'.left > 0 => xfer'.thread \in Range(pool'[current_scheduler'])
      BY <2>6, <3>4, <3>6
    <3>9. Len(xfer'.before) - xfer'.left = 0
      BY <2>6, <3>1
    <3> HIDE DEF b, cur
    <3> QED BY <2>6, <3>5, <3>6, <3>7, <3>8, <3>9, Zenon DEF TransferInv
  <2>9. \A s \in Sched : IsInjective(pool'[s])
    BY <2>3, <2>4, EmptyQueue
  <2>10. \A s1, s2 \in Sched : s1 # s2 => Range(pool'[s1]) \cap Range(pool'[s2]) = {}
    BY <2>4, EmptyQueue
  <2> QED BY <1>1, <2>5, <2>7, <2>8, <2>9, <2>10, PoolsOnly
<1> QED BY <1>5, <1>6

\* shutdown() of the old scheduler
LEMMA EndStep == IndInv /\ TypeOK' /\ set_scheduler_end /\ SameProgram => IndInv'
<1> SUFFICES ASSUME IndInv, TypeOK', set_scheduler_end, SameProgram PROVE IndInv'
  OBVIOUS
<1>1. /\ xfer # <<>> /\ xfer.left = 0
      /\ pool' = [pool EXCEPT ![current_scheduler] = <<>>]
      /\ current_scheduler' = xfer.to /\ xfer' = <<>>
      /\ UNCHANGED <<contexts, queues, curr_tid, curr_thread, at, sys, exit_code>>
  BY DEF set_scheduler_end
<1>2. Running /\ current_scheduler \in Sched
  BY <1>1 DEF IndInv, AuxInv, PoolsInv
<1>3. /\ pool \in [Sched -> Seq(Thread)]
      /\ \A s \in Sched : IsInjective(pool[s])
      /\ \A s1, s2 \in Sched : s1 # s2 => Range(pool[s1]) \cap Range(pool[s2]) = {}
  BY <1>2, PoolFacts
<1>4. pool[current_scheduler] = <<>>
  <2>1. Len(pool[current_scheduler]) = 0
    BY <1>1 DEF IndInv, AuxInv, TransferInv
  <2> QED BY <1>2, <1>3, <2>1, QueueMembers
<1>5. pool' = pool
  BY <1>1, <1>2, <1>3, <1>4
<1>6. PoolsInv' /\ TransferInv'
  BY <1>1, <1>4, <1>5 DEF IndInv, AuxInv, PoolsInv, TransferInv
<1>7. Runnable' = Runnable
  BY <1>5 DEF Runnable
<1> QED BY <1>1, <1>2, <1>3, <1>5, <1>6, <1>7, PoolsOnly

\* The pool "old" holds what is left of b after its first "done" threads, rotated,
\* and t, the first of them, is last.
Aligned(b, old, done, left, t) ==
    /\ left > 0 => t = b[done + 1] /\ old[left] = t
    /\ \A i \in 1 .. left - 1 : old[i] = b[done + 1 + i]

\* One turn of the loop, from RoundRobin: the thread that moves is at the end of
\* the rotated pool, and the one after it comes next.
LEMMA AlignedTurn ==
    ASSUME NEW b, NEW old \in Seq(Thread), IsInjective(old),
           NEW done \in Nat, NEW left \in Nat, left > 0, Len(old) = left,
           NEW t, Aligned(b, old, done, left, t)
    PROVE  Aligned(b, Rotate(Unlink(old, t)), done + 1, left - 1, Head(Unlink(old, t)))
<1> DEFINE q == Unlink(old, t)
<1>0. /\ t = b[done + 1] /\ old[left] = t
      /\ \A i \in 1 .. left - 1 : old[i] = b[done + 1 + i]
  BY DEF Aligned
<1>1. t \in Range(old) /\ left \in 1 .. Len(old)
  BY <1>0, QueueMembers
<1>2. Position(old, t) = left
  BY <1>0, <1>1, PositionFound, Injective
<1>3. /\ q \in Seq(Thread) /\ Len(q) = left - 1
      /\ \A i \in 1 .. left - 1 : q[i] = old[i]
  <2>1. /\ q \in Seq(Thread) /\ Len(q) = left - 1
        /\ \A i \in 1 .. left - 1 : q[i] = IF i < left THEN old[i] ELSE old[i + 1]
    <3>1. /\ q \in Seq(Thread) /\ Len(q) = Len(old) - 1
          /\ \A i \in 1 .. Len(old) - 1 :
                 q[i] = IF i < Position(old, t) THEN old[i] ELSE old[i + 1]
      BY <1>1, UnlinkQueue
    <3> HIDE DEF q
    <3> QED BY <1>2, <3>1, Zenon
  <2>2. \A i \in 1 .. left - 1 : i < left
    OBVIOUS
  <2> QED BY <2>1, <2>2
<1> HIDE DEF q
<1>4. \A i \in 1 .. left - 1 : q[i] = b[done + 1 + i]
  BY <1>0, <1>3
<1>5. CASE left - 1 = 0
  BY <1>5 DEF Aligned
<1>6. CASE left - 1 > 0
  <2>1. q # <<>>
    BY <1>3, <1>6, QueueMembers
  <2>2. Head(q) = q[1] /\ Rotate(q)[left - 1] = q[1]
        /\ \A i \in 1 .. left - 1 - 1 : Rotate(q)[i] = q[i + 1]
    BY <1>3, <2>1, TailQueue, RotateQueue
  <2>3. q[1] = b[done + 1 + 1]
    BY <1>4, <1>6
  <2>4. ASSUME NEW i \in 1 .. left - 1 - 1 PROVE Rotate(q)[i] = b[done + 1 + 1 + i]
    <3>1. i + 1 \in 1 .. left - 1 /\ done + 1 + (i + 1) = done + 1 + 1 + i
      OBVIOUS
    <3> QED BY <1>4, <2>2, <3>1
  <2> QED BY <2>2, <2>3, <2>4 DEF Aligned, q
<1> QED BY <1>5, <1>6

\* One turn of the loop of lwp_set_scheduler()
LEMMA TurnStep == IndInv /\ TypeOK' /\ set_scheduler_turn /\ SameProgram => IndInv'
<1> SUFFICES ASSUME IndInv, TypeOK', set_scheduler_turn, SameProgram PROVE IndInv'
  OBVIOUS
<1> DEFINE cur == current_scheduler
           to == xfer.to
           t == xfer.thread
           left == xfer.left
           b == xfer.before
           old == pool[cur]
           new == pool[to]
           done == Len(b) - left
           q == Unlink(old, t)
<1>1. /\ xfer # <<>> /\ left > 0
      /\ UNCHANGED <<contexts, queues, curr_tid, curr_thread, at, sys, exit_code>>
      /\ current_scheduler' = cur
  BY DEF set_scheduler_turn
<1>2. xfer \in [to : Sched, thread : Thread \cup {NULL}, left : Nat, before : Seq(Thread)]
  BY <1>1 DEF IndInv, TypeOK
<1>3. Running /\ cur \in Sched /\ to \in Sched /\ to # cur /\ left \in Nat /\ b \in Seq(Thread)
  BY <1>1, <1>2 DEF IndInv, AuxInv, PoolsInv
<1>4. /\ pool \in [Sched -> Seq(Thread)]
      /\ \A s \in Sched : IsInjective(pool[s])
      /\ \A s1, s2 \in Sched : s1 # s2 => Range(pool[s1]) \cap Range(pool[s2]) = {}
  BY <1>3, PoolFacts
<1>5. /\ old \in Seq(Thread) /\ IsInjective(old) /\ new \in Seq(Thread) /\ IsInjective(new)
      /\ Range(old) \cap Range(new) = {}
  BY <1>3, <1>4
<1>6. /\ IsInjective(b) /\ Range(b) = Runnable
      /\ Len(old) = left /\ Len(new) = done
      /\ t \in Range(old)
      /\ cur = "rr" =>
             /\ \A i \in 1 .. done : new[i] = b[i]
             /\ t = b[done + 1] /\ old[left] = t
             /\ \A i \in 1 .. left - 1 : old[i] = b[done + 1 + i]
  BY <1>1 DEF IndInv, AuxInv, TransferInv
<1>7. PICK n \in Choices(cur, q) :
           /\ pool' = [pool EXCEPT ![cur] = n.pool, ![to] = Append(@, t)]
           /\ xfer' = [xfer EXCEPT !.thread = n.thread, !.left = @ - 1]
  BY DEF set_scheduler_turn
<1>8. /\ xfer'.to = to /\ xfer'.thread = n.thread /\ xfer'.left = left - 1
      /\ xfer'.before = b
  BY <1>2, <1>7
<1>9. /\ pool'[cur] = n.pool /\ pool'[to] = Append(new, t)
      /\ \A s \in Sched \ {cur, to} : pool'[s] = pool[s]
  BY <1>3, <1>4, <1>7
<1>10. \A s \in Sched \ {cur, to} : pool[s] = <<>>
  BY DEF IndInv, AuxInv, PoolsInv
<1> HIDE DEF cur, to, t, left, b, old, new, done, q
<1>11. /\ q \in Seq(Thread) /\ Len(q) = left - 1 /\ Range(q) = Range(old) \ {t}
       /\ IsInjective(q)
  BY <1>5, <1>6, UnlinkQueue DEF q
<1>12. /\ n.pool \in Seq(Thread) /\ Range(n.pool) = Range(q) /\ Len(n.pool) = left - 1
       /\ IsInjective(n.pool)
       /\ q # <<>> => n.thread \in Range(n.pool)
       /\ cur = "rr" => n.pool = Rotate(q)
       /\ cur = "rr" /\ q # <<>> => n.thread = Head(q)
  BY <1>11, ChoiceMade
<1>13. t \in Thread /\ t \notin Range(new)
  BY <1>5, <1>6, QueueMembers
<1>14. /\ Append(new, t) \in Seq(Thread) /\ Len(Append(new, t)) = done + 1
       /\ \A i \in 1 .. done : Append(new, t)[i] = new[i]
       /\ Append(new, t)[done + 1] = t
       /\ Range(Append(new, t)) = Range(new) \cup {t} /\ IsInjective(Append(new, t))
  BY <1>5, <1>6, <1>13, AppendQueue
<1>15. Runnable' = Runnable
  <2>1. Runnable = Range(old) \cup Range(new)
    BY <1>3, <1>10, EmptyQueue DEF Runnable, old, new
  <2>2. Runnable' = Range(n.pool) \cup Range(Append(new, t))
    BY <1>3, <1>9, <1>10, EmptyQueue DEF Runnable
  <2> QED BY <1>6, <1>11, <1>12, <1>14, <2>1, <2>2
<1>16. PoolsInv'
  <2>1. Running'
    BY <1>1, <1>3 DEF Running
  <2>2. xfer' # <<>>
    <3>1. DOMAIN xfer' = {"to", "thread", "left", "before"}
      BY <1>2, <1>7
    <3> QED BY <3>1
  <2> QED BY <1>1, <1>3, <1>8, <1>9, <1>10, <2>1, <2>2 DEF PoolsInv
<1>17. done \in Nat /\ left - 1 \in Nat /\ Len(b) - (left - 1) = done + 1
  <2>1. Len(new) \in Nat /\ Len(b) \in Nat
    BY <1>3, <1>5, QueueMembers
  <2> QED BY <1>1, <1>3, <1>6, <2>1 DEF done
<1>18. q = <<>> <=> left - 1 = 0
  BY <1>11, QueueMembers
<1>19. TransferInv'
  <2>1. current_scheduler' = cur
    BY <1>1
  <2>2. /\ IsInjective(xfer'.before) /\ Range(xfer'.before) = Runnable'
        /\ Len(pool'[current_scheduler']) = xfer'.left
        /\ Len(pool'[xfer'.to]) = Len(xfer'.before) - xfer'.left
    BY <1>6, <1>8, <1>9, <1>12, <1>14, <1>15, <1>17, <2>1
  <2>3. xfer'.left > 0 => xfer'.thread \in Range(pool'[current_scheduler'])
    BY <1>8, <1>9, <1>12, <1>17, <1>18, <2>1
  <2>4. Len(xfer'.before) - xfer'.left = done + 1
    BY <1>8, <1>17
  <2>5. ASSUME cur = "rr"
        PROVE  /\ \A i \in 1 .. done + 1 : pool'[to][i] = b[i]
               /\ left - 1 > 0 => /\ n.thread = b[done + 1 + 1]
                                  /\ pool'[cur][left - 1] = n.thread
               /\ \A i \in 1 .. left - 1 - 1 : pool'[cur][i] = b[done + 1 + 1 + i]
    <3>1. \A i \in 1 .. done + 1 : pool'[to][i] = b[i]
      <4>1. \A i \in 1 .. done + 1 : i \in 1 .. done \/ i = done + 1
        BY <1>17
      <4> QED BY <1>6, <1>9, <1>14, <2>5, <4>1
    <3>2. /\ left - 1 > 0 => /\ Head(q) = b[done + 1 + 1]
                             /\ Rotate(q)[left - 1] = Head(q)
          /\ \A i \in 1 .. left - 1 - 1 : Rotate(q)[i] = b[done + 1 + 1 + i]
      <4>1. left > 0
        BY <1>1 DEF left
      <4>2. Aligned(b, old, done, left, t)
        BY <1>6, <2>5 DEF Aligned
      <4>3. Aligned(b, Rotate(q), done + 1, left - 1, Head(q))
        BY <1>3, <1>5, <1>6, <1>17, <4>1, <4>2, AlignedTurn DEF q
      <4> QED BY <4>3 DEF Aligned
    <3>3. n.pool = Rotate(q) /\ (left - 1 > 0 => n.thread = Head(q))
      BY <1>12, <1>17, <1>18, <2>5
    <3> QED BY <1>9, <3>1, <3>2, <3>3
  <2> QED BY <1>8, <2>1, <2>2, <2>3, <2>4, <2>5, Zenon DEF TransferInv
<1>20. \A s \in Sched : IsInjective(pool'[s])
  BY <1>4, <1>9, <1>12, <1>14
<1>21. \A s1, s2 \in Sched : s1 # s2 => Range(pool'[s1]) \cap Range(pool'[s2]) = {}
  <2>1. Range(n.pool) \cap Range(Append(new, t)) = {}
    BY <1>5, <1>11, <1>12, <1>14
  <2>2. \A s \in Sched \ {cur, to} : Range(pool'[s]) = {}
    BY <1>9, <1>10, EmptyQueue
  <2>3. Range(pool'[cur]) \cap Range(pool'[to]) = {}
    BY <1>9, <2>1
  <2> QED BY <2>2, <2>3
<1> QED BY <1>1, <1>3, <1>15, <1>16, <1>19, <1>20, <1>21, PoolsOnly

-----------------------------------------------------------------------------
\* Nothing is allocated at first.
LEMMA InitInv == Init => IndInv
<1> SUFFICES ASSUME Init PROVE IndInv
  OBVIOUS
<1>1. TypeOK
  BY EmptyQueue, TidAssumption
     DEF Init, TypeOK, Tids, NO_THREAD, LWP_LIVE, FIRST_TID
<1>2. PoolsInv /\ TransferInv
  BY DEF Init, PoolsInv, TransferInv
<1>3. /\ Allocated = {} /\ Range(live) = {} /\ Range(waiting) = {} /\ Range(zombies) = {}
      /\ waiting = <<>> /\ curr_thread = NULL
      /\ live = <<>> /\ zombies = <<>>
  BY EmptyQueue DEF Init, Allocated
<1>4. \A s \in Sched : pool[s] = <<>> /\ Range(pool[s]) = {}
  BY EmptyQueue DEF Init
<1>5. Runnable = {}
  BY <1>4 DEF Runnable
<1>6. \A p \in Range(pool) : p = <<>>
  BY DEF Init, Range
<1>7. QueuesPartition
  BY <1>3, <1>4, <1>5, <1>6, EmptyQueue DEF QueuesPartition
<1>8. WaitInv /\ TidInv /\ SystemInv /\ CurrentIsRunnable /\ NoLostWaiter
  BY <1>3 DEF WaitInv, TidInv, SystemInv, CurrentIsRunnable, NoLostWaiter
<1> QED BY <1>1, <1>2, <1>7, <1>8 DEF IndInv, AuxInv

\* Every library call keeps the invariant.
LEMMA InvariantStep == IndInv /\ [Next]_vars => IndInv'
<1> SUFFICES ASSUME IndInv, [Next]_vars PROVE IndInv'
  OBVIOUS
<1>1. TypeOK'
  BY TypeStep DEF IndInv, AuxInv
<1>2. CASE UNCHANGED vars
  <2>1. Runnable' = Runnable /\ Allocated' = Allocated /\ (Running' <=> Running)
    BY <1>2 DEF vars, contexts, Runnable, Allocated, Running
  <2>2. PoolsInv' /\ TransferInv' /\ WaitInv' /\ TidInv' /\ SystemInv'
    BY <1>2, <2>1
       DEF vars, contexts, queues, IndInv, AuxInv, PoolsInv, TransferInv, WaitInv, TidInv, SystemInv
  <2>3. QueuesPartition' /\ CurrentIsRunnable' /\ NoLostWaiter'
    BY <1>2, <2>1
       DEF vars, contexts, queues, IndInv, QueuesPartition, CurrentIsRunnable, NoLostWaiter
  <2> QED BY <1>1, <2>2, <2>3 DEF IndInv, AuxInv
<1>3. CASE Next
  BY <1>1, <1>3, CreateStep, StartStep, NothingStep, OutOfMemoryStep, YieldStep, ExitStep,
     BlockStep, ReapStep, ResumeStep, BeginStep, TurnStep, EndStep
     DEF Next, Call, Switch
<1> QED BY <1>2, <1>3

\* The invariant of the library.
THEOREM Invariance == Spec => []IndInv
BY InitInv, InvariantStep, PTL DEF Spec

-----------------------------------------------------------------------------
\* Every variable of lwp.c keeps its type.
THEOREM TypeCorrect == Spec => []TypeOK
<1>1. IndInv => TypeOK
  BY DEF IndInv
<1> QED BY Invariance, <1>1, PTL

\* No call loses a thread between the queues of lwp.c or puts it in two of them.
THEOREM QueuesArePartitioned == Spec => []QueuesPartition
<1>1. IndInv => QueuesPartition
  BY DEF IndInv
<1> QED BY Invariance, <1>1, PTL

\* Neither a terminated nor a blocked thread ever runs.
THEOREM CurrentRuns == Spec => []CurrentIsRunnable
<1>1. IndInv => CurrentIsRunnable
  BY DEF IndInv
<1> QED BY Invariance, <1>1, PTL

\* While threads are blocked in lwp_wait() somebody is runnable, and lwp_exit()
\* ends the process only when nobody is left.
THEOREM WaitersNotLost == Spec => []NoLostWaiter
<1>1. IndInv => NoLostWaiter
  BY DEF IndInv
<1> QED BY Invariance, <1>1, PTL

\* Which pools are in use and who waits for whom.
THEOREM Bookkeeping == Spec => []AuxInv
<1>1. IndInv => AuxInv
  BY DEF IndInv
<1> QED BY Invariance, <1>1, PTL

\* tid2thread() finds the allocated context that has the id, and no other.
LEMMA TidSearch ==
    ASSUME IndInv, Running, NEW id
    PROVE  /\ tid2thread(id) # NULL => tid2thread(id) \in Allocated /\ tid[tid2thread(id)] = id
           /\ (\E t \in Allocated : tid[t] = id) => tid2thread(id) # NULL
<1> DEFINE searched == live \o waiting \o zombies
           hits == {i \in DOMAIN searched : tid[searched[i]] = id}
           first == CHOOSE i \in hits : \A j \in hits : i <= j
<1>1. /\ live \in Seq(Thread) /\ waiting \in Seq(Thread) /\ zombies \in Seq(Thread)
      /\ Range(live) \cup Range(zombies) = Allocated /\ Range(waiting) \subseteq Range(live)
  BY DEF IndInv, TypeOK, QueuesPartition
<1>2. /\ searched \in Seq(Thread)
      /\ Range(searched) = Range(live) \cup Range(waiting) \cup Range(zombies)
  <2>1. /\ live \o waiting \in Seq(Thread)
        /\ Range(live \o waiting) = Range(live) \cup Range(waiting)
    BY <1>1, ConcatProperties, RangeConcatenation
  <2> DEFINE lw == live \o waiting
  <2>2. lw \in Seq(Thread) /\ Range(lw) = Range(live) \cup Range(waiting)
    BY <2>1
  <2> HIDE DEF lw
  <2>3. /\ lw \o zombies \in Seq(Thread)
        /\ Range(lw \o zombies) = Range(lw) \cup Range(zombies)
    BY <1>1, <2>2, ConcatProperties, RangeConcatenation
  <2> QED BY <2>2, <2>3 DEF lw
<1> HIDE DEF searched
<1>3. /\ DOMAIN searched = 1 .. Len(searched) /\ Len(searched) \in Nat
      /\ \A x : x \in Allocated <=> \E i \in 1 .. Len(searched) : searched[i] = x
      /\ \A i \in 1 .. Len(searched) : searched[i] \in Allocated
  BY <1>1, <1>2, QueueMembers
<1>4. tid2thread(id) = IF hits = {} THEN NULL ELSE searched[first]
  BY DEF tid2thread, searched
<1>5. ASSUME hits # {} PROVE first \in hits
  <2>1. hits \in SUBSET Nat
    BY <1>3
  <2> HIDE DEF hits
  <2>2. \E i \in hits : \A j \in hits : i <= j
    BY <1>5, <2>1, Least
  <2> QED BY <2>2, Zenon
<1> HIDE DEF first
<1>6. hits # {} => searched[first] \in Allocated /\ tid[searched[first]] = id
  BY <1>3, <1>5
<1>7. Allocated \subseteq Thread
  BY DEF Allocated
<1>8. (\E t \in Allocated : tid[t] = id) => hits # {}
  BY <1>3
<1> QED BY <1>4, <1>6, <1>7, <1>8, NullAssumption

\* An id finds its thread from lwp_create() until it is reaped, and nothing
\* afterwards, however often addresses are allocated again.
THEOREM IdsExact == Spec => []IdsAreExact
<1>1. IndInv => IdsAreExact
  <2> SUFFICES ASSUME IndInv, Running
               PROVE  /\ \A t \in Allocated : tid2thread(tid[t]) = t
                      /\ \A id \in Tids : tid2thread(id) # NULL => \E t \in Allocated : tid[t] = id
    BY DEF IdsAreExact
  <2>1. ASSUME NEW t \in Allocated PROVE tid2thread(tid[t]) = t
    <3>1. tid2thread(tid[t]) \in Allocated /\ tid[tid2thread(tid[t])] = tid[t]
      BY TidSearch
    <3>2. TidInv
      BY DEF IndInv, AuxInv
    <3> QED BY <3>1, <3>2 DEF TidInv
  <2>2. \A id \in Tids : tid2thread(id) # NULL => \E t \in Allocated : tid[t] = id
    BY TidSearch
  <2> QED BY <2>1, <2>2
<1> QED BY Invariance, <1>1, PTL

\* Where only the original thread waits, a waiter that was woken finds the zombie
\* it was woken for, and nobody else is to reap it.
THEOREM SystemWaiterFindsZombie == Spec => []SystemWaiterHasZombie
<1>1. IndInv => SystemWaiterHasZombie
  <2> SUFFICES ASSUME IndInv, only_system_waits, Running,
                      NEW t \in Runnable, at[t] = "wait"
               PROVE  /\ exited[t] \in Range(zombies)
                      /\ \A u \in Runnable \ {t} : exited[u] # exited[t]
    BY DEF SystemWaiterHasZombie, WokenHasZombie
  <2>1. /\ Runnable \subseteq Range(live) /\ Range(live) \subseteq Allocated
        /\ Allocated \subseteq Thread
        /\ SystemInv /\ WaitInv /\ zombies \in Seq(Thread)
        /\ at \in [Thread -> {"user", "wait"}]
    BY DEF IndInv, AuxInv, QueuesPartition, Allocated, TypeOK
  <2>2. ~stack[t] /\ zombies # <<>> /\ exited[t] = Head(zombies)
    BY <2>1 DEF SystemInv
  <2>3. Head(zombies) \in Range(zombies) /\ Head(zombies) \in Thread
    BY <2>1, <2>2, TailQueue
  <2>4. ASSUME NEW u \in Runnable \ {t} PROVE exited[u] # exited[t]
    <3>1. u \in Range(live) /\ u \in Allocated /\ t \in Allocated /\ u \in Thread
      BY <2>1
    <3>2. at[u] # "wait"
      BY <2>1, <2>2, <3>1 DEF SystemInv
    <3>3. exited[u] = NULL
      BY <2>1, <3>1, <3>2 DEF WaitInv
    <3> QED BY <2>2, <2>3, <3>3, NullAssumption
  <2> QED BY <2>2, <2>3, <2>4
<1> QED BY Invariance, <1>1, PTL

\* reap_and_remove() of the oldest zombie takes it from the head.
LEMMA ReapsHead ==
    ASSUME zombies \in Seq(Thread), NEW z, reap_and_remove(z),
           zombies # <<>> => z = Head(zombies) \/ z = NULL
    PROVE  Len(zombies') < Len(zombies) => zombies' = Tail(zombies)
<1>1. Len(zombies) \in Nat
  BY QueueMembers
<1>2. CASE z \in Range(zombies)
  <2>1. zombies # <<>> /\ z # NULL
    BY <1>2, QueueMembers, NullAssumption
  <2>2. zombies' = Unlink(zombies, Head(zombies))
    BY <1>2, <2>1 DEF reap_and_remove
  <2> QED BY <2>1, <2>2, UnlinkHead
<1>3. CASE z \notin Range(zombies)
  BY <1>1, <1>3 DEF reap_and_remove
<1> QED BY <1>2, <1>3

\* In a program whose original thread does all the waiting, zombies are reaped
\* oldest first.
THEOREM ReapsOldestFirst == Spec => ReapOldestFirst
<1>1. IndInv /\ [Next]_vars =>
          [only_system_waits /\ Len(zombies') < Len(zombies) => zombies' = Tail(zombies)]_vars
  <2> SUFFICES ASSUME IndInv, Next, only_system_waits, Len(zombies') < Len(zombies)
               PROVE  zombies' = Tail(zombies)
    OBVIOUS
  <2>1. zombies \in Seq(Thread) /\ Len(zombies) \in Nat /\ curr_thread \in Thread \cup {NULL}
    BY QueueMembers DEF IndInv, TypeOK
  <2>2. zombies' # zombies
    BY <2>1
  <2>3. WaitInv /\ SystemInv
    BY DEF IndInv, AuxInv
  <2>4. ASSUME Running, curr_thread # NULL
        PROVE  curr_thread \in Runnable /\ curr_thread \in Range(live)
    BY <2>4 DEF IndInv, CurrentIsRunnable, QueuesPartition
  <2>5. CASE lwp_wait_reap
    <3>1. Running /\ curr_thread # NULL /\ at[curr_thread] = "user"
      BY <2>5 DEF lwp_wait_reap, AtUser
    <3>2. exited[curr_thread] = NULL
      BY <2>3, <2>4, <3>1 DEF WaitInv
    <3>3. reap_and_remove(Head(zombies))
      BY <2>5, <3>2 DEF lwp_wait_reap
    <3> QED BY <2>1, <3>3, ReapsHead
  <2>6. CASE lwp_wait_resume
    <3>1. Running /\ curr_thread # NULL /\ at[curr_thread] = "wait"
      BY <2>6 DEF lwp_wait_resume
    <3>2. zombies # <<>> /\ exited[curr_thread] = Head(zombies)
      BY <2>3, <2>4, <3>1 DEF SystemInv
    <3>3. Head(zombies) # NULL
      BY <2>1, <3>2, TailQueue, NullAssumption
    <3>4. reap_and_remove(Head(zombies))
      BY <2>6, <3>2, <3>3 DEF lwp_wait_resume
    <3> QED BY <2>1, <3>4, ReapsHead
  <2>7. ASSUME NEW v \in ExitVals, lwp_exit(v) PROVE FALSE
    <3>1. curr_thread \in Thread
      BY <2>1, <2>7 DEF lwp_exit
    <3>2. zombies' = Append(zombies, curr_thread)
      BY <2>2, <2>7 DEF lwp_exit
    <3>3. Len(zombies') = Len(zombies) + 1
      BY <2>1, <3>1, <3>2, AppendQueue
    <3> QED BY <2>1, <3>3
  <2>8. CASE \/ lwp_create \/ lwp_create_no_stack \/ lwp_start \/ out_of_memory
             \/ lwp_yield \/ lwp_wait_block \/ lwp_wait_none
             \/ set_scheduler_begin \/ set_scheduler_turn \/ set_scheduler_end
    BY <2>2, <2>8
       DEF queues, lwp_create, lwp_create_no_stack, lwp_start, out_of_memory, lwp_yield,
           lwp_wait_block, lwp_wait_none, set_scheduler_begin, set_scheduler_turn,
           set_scheduler_end
  <2> QED BY <2>5, <2>6, <2>7, <2>8 DEF Next, Call, Switch
<1> QED BY Invariance, <1>1, PTL DEF Spec, ReapOldestFirst

\* lwp_set_scheduler() hands over the same threads, and those of RoundRobin in
\* the order of its queue.
THEOREM TransferInOrder == Spec => TransferKeepsOrder
<1> DEFINE Kept ==
        xfer # <<>> /\ xfer' = <<>> =>
           /\ current_scheduler = "rr" => pool'[xfer.to] = xfer.before
           /\ Range(pool'[xfer.to]) = Range(xfer.before)
           /\ Len(pool'[xfer.to]) = Len(xfer.before)
<1>1. IndInv /\ [Next]_vars => [Kept]_vars
  <2> SUFFICES ASSUME IndInv, Next, xfer # <<>>, xfer' = <<>>
               PROVE  /\ current_scheduler = "rr" => pool'[xfer.to] = xfer.before
                      /\ Range(pool'[xfer.to]) = Range(xfer.before)
                      /\ Len(pool'[xfer.to]) = Len(xfer.before)
    OBVIOUS
  <2>1. xfer \in [to : Sched, thread : Thread \cup {NULL}, left : Nat, before : Seq(Thread)]
    BY DEF IndInv, TypeOK
  <2>2. set_scheduler_end
    <3>1. CASE set_scheduler_turn
      <4>1. PICK x, y : xfer' = [xfer EXCEPT !.thread = x, !.left = y]
        BY <3>1 DEF set_scheduler_turn
      <4>2. DOMAIN xfer' = {"to", "thread", "left", "before"}
        BY <2>1, <4>1
      <4> QED BY <4>2
    <3>2. CASE \/ lwp_create \/ lwp_create_no_stack \/ lwp_start \/ out_of_memory
               \/ Switch \/ lwp_wait_reap \/ lwp_wait_none \/ lwp_wait_resume
               \/ set_scheduler_begin
      BY <3>2 DEF AtUser, lwp_create, lwp_create_no_stack, lwp_start, out_of_memory, Switch,
                  lwp_yield, lwp_exit, lwp_wait_block, lwp_wait_reap, lwp_wait_none,
                  lwp_wait_resume, set_scheduler_begin
    <3> QED BY <3>1, <3>2 DEF Next, Call
  <2>3. /\ xfer.left = 0 /\ pool' = [pool EXCEPT ![current_scheduler] = <<>>]
        /\ Running /\ current_scheduler \in Sched \ {xfer.to}
        /\ pool \in [Sched -> Seq(Thread)] /\ xfer.to \in Sched
        /\ xfer.before \in Seq(Thread)
    BY <2>1, <2>2 DEF set_scheduler_end, IndInv, AuxInv, PoolsInv, TypeOK
  <2> DEFINE b == xfer.before
             new == pool[xfer.to]
  <2>4. pool'[xfer.to] = new /\ new \in Seq(Thread) /\ Len(b) \in Nat
    BY <2>3, QueueMembers
  <2>5. /\ Range(b) = Runnable /\ Len(pool[current_scheduler]) = 0
        /\ Len(new) = Len(b) - 0
        /\ current_scheduler = "rr" => \A i \in 1 .. Len(b) - 0 : new[i] = b[i]
    BY <2>3 DEF IndInv, AuxInv, TransferInv
  <2>6. Range(new) = Range(b)
    <3>1. pool[current_scheduler] = <<>>
      BY <2>3, <2>5, QueueMembers
    <3>2. \A s \in Sched \ {xfer.to} : Range(pool[s]) = {}
      BY <3>1, EmptyQueue DEF IndInv, AuxInv, PoolsInv
    <3> QED BY <2>3, <2>5, <3>2 DEF Runnable
  <2>7. current_scheduler = "rr" => new = b
    <3> HIDE DEF new, b
    <3>1. Len(new) = Len(b) /\ Len(b) - 0 = Len(b)
      BY <2>4, <2>5
    <3>2. b \in Seq(Thread)
      BY <2>3 DEF b
    <3> QED BY <2>4, <2>5, <3>1, <3>2, SeqEqual
  <2>8. Len(new) = Len(b)
    <3> HIDE DEF new, b
    <3> QED BY <2>4, <2>5
  <2> QED BY <2>4, <2>6, <2>7, <2>8
<1> QED BY Invariance, <1>1, PTL DEF Spec, TransferKeepsOrder
=============================================================================
