-------------------------------- MODULE Dine --------------------------------
(***************************************************************************)
(* The dining philosophers of Asgn3/dine.c: NUM_PHILOSOPHERS pthreads, one *)
(* POSIX semaphore per fork, and one more, printing_lock, under which every*)
(* update of the shared philinfo array and every status row is made.       *)
(*                                                                         *)
(* philosopher() is a chain of sections of the same shape,                 *)
(*     [sem_wait(fork)]  sem_wait(printing_lock)  update  print  sem_post  *)
(* so a thread's control point is a pair: the section sec[p] and the phase *)
(* phase[p] inside it ("fork", "lock", "write", "print").  A thread that   *)
(* calls pthread_exit(THREAD_FAILURE) stays where it was, with whatever it *)
(* holds, and joins the set failed.                                        *)
(***************************************************************************)
EXTENDS Integers

CONSTANTS N,           \* NUM_PHILOSOPHERS
          MaxCycles,   \* bound on the command-line argument
          MaxFailures  \* bound on the library calls that fail in one run

ASSUME NAssumption == N \in Nat /\ N >= 2   \* the #error of dine.h
ASSUME BoundsAssumption == MaxCycles \in Nat /\ MaxFailures \in Nat

Phil == 0 .. N-1
Fork == 0 .. N-1

Left(p) == p
Right(p) == (p + 1) % N

\* Mutant of RightFirst: everybody reaches for the left fork first.
AllLeftFirst(p) == FALSE

\* Even philosophers reach for their right fork first, odd ones for the left.
RightFirst(p) == p % 2 = 0

First(p) == IF RightFirst(p) THEN Right(p) ELSE Left(p)
Second(p) == IF RightFirst(p) THEN Left(p) ELSE Right(p)

States == {"CHANGING", "EATING", "THINKING"}

VARIABLES
    forks,          \* value of each fork semaphore
    printing,       \* value of printing_lock
    state,          \* philinfo.state
    holding_left,   \* philinfo.holding_left
    holding_right,  \* philinfo.holding_right
    cycles_left,    \* philinfo.cycles_left
    sec, phase,     \* control point of each thread
    failed,         \* threads that returned THREAD_FAILURE
    main,           \* where main() is
    joined,         \* main's loop index i
    exit_code,      \* -1 while the process runs
    row,            \* the last status row printed
    failures        \* library calls that have failed so far

fields == <<state, holding_left, holding_right, cycles_left>>
proc == <<main, joined, exit_code>>
vars == <<forks, printing, fields, sec, phase, failed, proc, row, failures>>

StateSections == {"changing", "eat", "full", "think", "last"}
ForkSections == {"first", "second"}
ReleaseSections == {"right", "left"}
Sections == StateSections \cup ForkSections \cup ReleaseSections
Phases == {"fork", "lock", "write", "print"}

TypeOK ==
    /\ forks \in [Fork -> {0, 1}]
    /\ printing \in {0, 1}
    /\ state \in [Phil -> States]
    /\ holding_left \in [Phil -> BOOLEAN]
    /\ holding_right \in [Phil -> BOOLEAN]
    /\ cycles_left \in [Phil -> Nat]
    /\ sec \in [Phil -> Sections \cup {"unborn", "done"}]
    /\ phase \in [Phil -> Phases \cup {"none"}]
    /\ failed \in SUBSET Phil
    /\ main \in {"setup", "create", "join", "exited"}
    /\ joined \in 0 .. N
    /\ exit_code \in {-1, 0, 1}
    /\ row \in [Phil -> [state : States, forks : SUBSET Fork]]
    /\ failures \in Nat

-----------------------------------------------------------------------------
\* print_status_change: the cell of philosopher q, read from the shared array.
Cell(q) ==
    [state |-> state[q],
     forks |-> (IF holding_left[q] THEN {Left(q)} ELSE {}) \cup
               (IF holding_right[q] THEN {Right(q)} ELSE {})]

\* Where a section starts: only the two that take a fork wait for one.
Entry(s) == IF s \in ForkSections THEN "fork" ELSE IF s = "done" THEN "none" ELSE "lock"

\* The head of the while loop, for the cycles and the state it is reached with.
LoopHead(cycles, st) ==
    IF cycles = 0 THEN "last" ELSE IF st # "CHANGING" THEN "changing" ELSE "first"

\* The section that follows the one philosopher p completes.
Successor ==
    [changing |-> "first", first |-> "second", second |-> "eat", eat |-> "full",
     full |-> "right", right |-> "left", left |-> "think", last |-> "done"]

NextSec(p) ==
    IF sec[p] = "think" THEN LoopHead(cycles_left[p] - 1, state[p])
    ELSE Successor[sec[p]]

\* Mutant of NewState: full, but still shown eating.
StillEating ==
    [changing |-> "CHANGING", eat |-> "EATING", full |-> "EATING",
     think |-> "THINKING", last |-> "CHANGING"]

\* What the StateSections assign to philinfo.state.
NewState ==
    [changing |-> "CHANGING", eat |-> "EATING", full |-> "CHANGING",
     think |-> "THINKING", last |-> "CHANGING"]

\* The fork a thread in one of the ForkSections is after.
Wanted(p) == IF sec[p] = "first" THEN First(p) ELSE Second(p)

-----------------------------------------------------------------------------
\* The process before main() has set anything up.
Init ==
    /\ forks = [f \in Fork |-> 0]
    /\ printing = 0
    /\ state = [p \in Phil |-> "CHANGING"]
    /\ holding_left = [p \in Phil |-> FALSE]
    /\ holding_right = [p \in Phil |-> FALSE]
    /\ cycles_left = [p \in Phil |-> 0]
    /\ sec = [p \in Phil |-> "unborn"]
    /\ phase = [p \in Phil |-> "none"]
    /\ failed = {}
    /\ main = "setup"
    /\ joined = 0
    /\ exit_code = -1
    /\ row = [p \in Phil |-> [state |-> "CHANGING", forks |-> {}]]
    /\ failures = 0

\* main(): arguments, philinfo array, sem_init of all semaphores, first row.
Setup ==
    /\ main = "setup"
    /\ \E c \in 1 .. MaxCycles : cycles_left' = [p \in Phil |-> c]
    /\ forks' = [f \in Fork |-> 1]
    /\ printing' = 1
    /\ row' = [p \in Phil |-> Cell(p)]
    /\ main' = "create"
    /\ UNCHANGED <<state, holding_left, holding_right, sec, phase, failed,
                   joined, exit_code, failures>>

\* pthread_create of philosopher `joined`, which enters its while loop.
Create ==
    /\ main = "create" /\ joined < N
    /\ sec' = [sec EXCEPT ![joined] = LoopHead(cycles_left[joined], state[joined])]
    /\ phase' = [phase EXCEPT ![joined] = Entry(sec'[joined])]
    /\ IF joined + 1 = N
       THEN joined' = 0 /\ main' = "join"
       ELSE joined' = joined + 1 /\ main' = "create"
    /\ UNCHANGED <<forks, printing, fields, failed, exit_code, row, failures>>

\* Mutant of Join: the thread's result is not compared with THREAD_FAILURE.
JoinAnyResult ==
    /\ main = "join" /\ joined < N
    /\ sec[joined] = "done" \/ joined \in failed
    /\ joined' = joined + 1
    /\ UNCHANGED <<forks, printing, fields, sec, phase, failed, main, exit_code,
                   row, failures>>

\* pthread_join of philosopher `joined`: blocks until that thread has ended.
Join ==
    /\ main = "join" /\ joined < N
    /\ \/ /\ sec[joined] = "done"
          /\ joined' = joined + 1
          /\ UNCHANGED <<main, exit_code>>
       \/ /\ joined \in failed
          /\ main' = "exited" /\ exit_code' = 1
          /\ UNCHANGED joined
    /\ UNCHANGED <<forks, printing, fields, sec, phase, failed, row, failures>>

\* sem_destroy of every semaphore, the closing border and return 0.
Finish ==
    /\ main = "join" /\ joined = N
    /\ main' = "exited" /\ exit_code' = 0
    /\ UNCHANGED <<forks, printing, fields, sec, phase, failed, joined, row,
                   failures>>

\* A library call of main() fails, or its arguments are bad: exit(EXIT_FAILURE).
MainFail ==
    /\ main # "exited" /\ failures < MaxFailures
    /\ main' = "exited" /\ exit_code' = 1
    /\ failures' = failures + 1
    /\ UNCHANGED <<forks, printing, fields, sec, phase, failed, joined, row>>

-----------------------------------------------------------------------------
\* Thread p exists, has not ended, and the process is still there.
Running(p) == main # "exited" /\ p \notin failed

Goto(p, ph) == phase' = [phase EXCEPT ![p] = ph]

\* sem_wait(fork): the grab is not under the printing lock.
GrabFork(p) ==
    /\ Running(p) /\ phase[p] = "fork"
    /\ forks[Wanted(p)] > 0
    /\ forks' = [forks EXCEPT ![Wanted(p)] = @ - 1]
    /\ Goto(p, "lock")
    /\ UNCHANGED <<printing, fields, sec, failed, proc, row, failures>>

\* sem_wait(printing_lock)
LockPrinting(p) ==
    /\ Running(p) /\ phase[p] = "lock"
    /\ printing > 0
    /\ printing' = printing - 1
    /\ Goto(p, "write")
    /\ UNCHANGED <<forks, fields, sec, failed, proc, row, failures>>

\* The update of the sections that only change philinfo.state.
ChangeState(p) ==
    /\ Running(p) /\ phase[p] = "write" /\ sec[p] \in StateSections
    /\ state' = [state EXCEPT ![p] = NewState[sec[p]]]
    /\ Goto(p, "print")
    /\ UNCHANGED <<forks, printing, holding_left, holding_right, cycles_left,
                   sec, failed, proc, row, failures>>

\* Mutant of MarkFork: the left flag whichever fork was taken.
MarkLeft(p) ==
    /\ Running(p) /\ phase[p] = "write" /\ sec[p] \in ForkSections
    /\ holding_left' = [holding_left EXCEPT ![p] = TRUE]
    /\ Goto(p, "print")
    /\ UNCHANGED <<forks, printing, state, holding_right, cycles_left, sec, failed,
                   proc, row, failures>>

\* The update that shows the fork taken before the lock.
MarkFork(p) ==
    /\ Running(p) /\ phase[p] = "write" /\ sec[p] \in ForkSections
    /\ IF Wanted(p) = Right(p)
       THEN holding_right' = [holding_right EXCEPT ![p] = TRUE] /\ UNCHANGED holding_left
       ELSE holding_left' = [holding_left EXCEPT ![p] = TRUE] /\ UNCHANGED holding_right
    /\ Goto(p, "print")
    /\ UNCHANGED <<forks, printing, state, cycles_left, sec, failed, proc, row,
                   failures>>

\* Mutants of PutDownRight: the semaphore is posted `times` times.
PutDownRightTimes(p, times) ==
    /\ Running(p) /\ phase[p] = "write" /\ sec[p] = "right"
    /\ holding_right' = [holding_right EXCEPT ![p] = FALSE]
    /\ forks' = [forks EXCEPT ![Right(p)] = @ + times]
    /\ Goto(p, "print")
    /\ UNCHANGED <<printing, state, holding_left, cycles_left, sec, failed,
                   proc, row, failures>>
PutDownRightTwice(p) == PutDownRightTimes(p, 2)
KeepRight(p) == PutDownRightTimes(p, 0)

\* holding_right = false; sem_post(right_fork)
PutDownRight(p) ==
    /\ Running(p) /\ phase[p] = "write" /\ sec[p] = "right"
    /\ holding_right' = [holding_right EXCEPT ![p] = FALSE]
    /\ forks' = [forks EXCEPT ![Right(p)] = @ + 1]
    /\ Goto(p, "print")
    /\ UNCHANGED <<printing, state, holding_left, cycles_left, sec, failed,
                   proc, row, failures>>

\* holding_left = false; sem_post(left_fork)
PutDownLeft(p) ==
    /\ Running(p) /\ phase[p] = "write" /\ sec[p] = "left"
    /\ holding_left' = [holding_left EXCEPT ![p] = FALSE]
    /\ forks' = [forks EXCEPT ![Left(p)] = @ + 1]
    /\ Goto(p, "print")
    /\ UNCHANGED <<printing, state, holding_right, cycles_left, sec, failed,
                   proc, row, failures>>

\* Mutant of PrintRow: the cycle is not counted.
PrintRowUncounted(p) ==
    /\ Running(p) /\ phase[p] = "print"
    /\ row' = [q \in Phil |-> Cell(q)]
    /\ printing' = printing + 1
    /\ sec' = [sec EXCEPT ![p] = IF @ = "think" THEN LoopHead(cycles_left[p], state[p])
                                 ELSE Successor[@]]
    /\ phase' = [phase EXCEPT ![p] = Entry(sec'[p])]
    /\ UNCHANGED <<forks, fields, failed, proc, failures>>

\* print_status_change, sem_post(printing_lock), and on to the next section
\* (past the dawdle; after the think section that includes cycles_left -= 1).
PrintRow(p) ==
    /\ Running(p) /\ phase[p] = "print"
    /\ row' = [q \in Phil |-> Cell(q)]
    /\ printing' = printing + 1
    /\ cycles_left' = [cycles_left EXCEPT ![p] = IF sec[p] = "think" THEN @ - 1 ELSE @]
    /\ sec' = [sec EXCEPT ![p] = NextSec(p)]
    /\ phase' = [phase EXCEPT ![p] = Entry(NextSec(p))]
    /\ UNCHANGED <<forks, state, holding_left, holding_right, failed, proc,
                   failures>>

\* Mutant of ThreadFail: a thread that cannot release a fork unlocks the table.
FailUnlocked(p) ==
    /\ Running(p) /\ failures < MaxFailures
    /\ phase[p] = "write" /\ sec[p] = "right"
    /\ holding_right' = [holding_right EXCEPT ![p] = FALSE]
    /\ printing' = printing + 1
    /\ failed' = failed \cup {p}
    /\ failures' = failures + 1
    /\ UNCHANGED <<forks, state, holding_left, cycles_left, sec, phase, proc, row>>

\* A semaphore call of thread p returns -1: pthread_exit(THREAD_FAILURE), with
\* every semaphore the thread has taken still taken.  A failing sem_post of a
\* fork comes after the flag is cleared; one of the lock after the row.
ThreadFail(p) ==
    /\ Running(p) /\ failures < MaxFailures
    /\ \/ /\ phase[p] \in {"fork", "lock"}
          /\ UNCHANGED <<holding_left, holding_right, row>>
       \/ /\ phase[p] = "write" /\ sec[p] \in ReleaseSections
          /\ IF sec[p] = "right"
             THEN holding_right' = [holding_right EXCEPT ![p] = FALSE] /\ UNCHANGED holding_left
             ELSE holding_left' = [holding_left EXCEPT ![p] = FALSE] /\ UNCHANGED holding_right
          /\ UNCHANGED row
       \/ /\ phase[p] = "print"
          /\ row' = [q \in Phil |-> Cell(q)]
          /\ UNCHANGED <<holding_left, holding_right>>
    /\ failed' = failed \cup {p}
    /\ failures' = failures + 1
    /\ UNCHANGED <<forks, printing, state, cycles_left, sec, phase, proc>>

-----------------------------------------------------------------------------
Main == Setup \/ Create \/ Join \/ Finish

Philosopher(p) ==
    \/ GrabFork(p)
    \/ LockPrinting(p)
    \/ ChangeState(p)
    \/ MarkFork(p)
    \/ PutDownRight(p)
    \/ PutDownLeft(p)
    \/ PrintRow(p)

Next ==
    \/ Main
    \/ MainFail
    \/ \E p \in Phil : Philosopher(p) \/ ThreadFail(p)

Spec == Init /\ [][Next]_vars

\* Every thread is scheduled again and again (pthreads), and a semaphore that
\* stays positive lets its waiter through.
FairSpec == Spec /\ WF_vars(Main) /\ \A p \in Phil : WF_vars(Philosopher(p))

-----------------------------------------------------------------------------
\* Thread p has taken its first (second) fork from the semaphore and has not
\* yet put it back.
OwnsFirst(p) ==
    \/ sec[p] = "first" /\ phase[p] # "fork"
    \/ sec[p] \in {"second", "eat", "full"}

OwnsSecond(p) ==
    \/ sec[p] = "second" /\ phase[p] # "fork"
    \/ sec[p] \in {"eat", "full"}

OwnsRight(p) ==
    \/ IF RightFirst(p) THEN OwnsFirst(p) ELSE OwnsSecond(p)
    \/ sec[p] = "right" /\ phase[p] # "print"

OwnsLeft(p) ==
    \/ IF RightFirst(p) THEN OwnsSecond(p) ELSE OwnsFirst(p)
    \/ sec[p] = "right"
    \/ sec[p] = "left" /\ phase[p] # "print"

\* The semaphores have been initialised (and the process has not given up).
Live == main \in {"create", "join"} \/ exit_code = 0

\* Every fork is on the table exactly when neither neighbour has taken it, and
\* both never have it: the fork semaphores of dine.c (the sem_wait/sem_post
\* pairs of philosopher()) lose no fork and give none out twice.
ForksConserved ==
    \A p \in Phil :
        /\ ~(OwnsRight(p) /\ OwnsLeft(Right(p)))
        /\ Live => (forks[Right(p)] = 0 <=> OwnsRight(p) \/ OwnsLeft(Right(p)))

\* "must ensure that neighboring philosophers are never eating simultaneously"
\* (asgn3.pdf, p. 2), of the threads themselves and of what the rows show.
NeighboursNeverEat ==
    \A p \in Phil :
        /\ ~(state[p] = "EATING" /\ state[Right(p)] = "EATING")
        /\ ~(row[p].state = "EATING" /\ row[Right(p)].state = "EATING")

\* Some step of the program other than a failure can happen.
CanMove(p) ==
    /\ Running(p)
    /\ \/ phase[p] = "fork" /\ forks[Wanted(p)] > 0
       \/ phase[p] = "lock" /\ printing > 0
       \/ phase[p] \in {"write", "print"}

MainCanMove ==
    \/ main \in {"setup", "create"}
    \/ main = "join" /\ (joined = N \/ sec[joined] = "done" \/ joined \in failed)

\* "Your program must avoid deadlock" (asgn3.pdf, p. 2): as long as no library
\* call has failed in a thread, the even/odd order of the forks in philosopher()
\* leaves somebody a step until the process has exited.
DeadlockFree ==
    main # "exited" /\ failed = {} => MainCanMove \/ \E p \in Phil : CanMove(p)

\* main() returns 0 only after every philosopher has gone through all its
\* cycles, with every semaphore back at its initial value (so that sem_destroy
\* meets no waiter), and the last row shows an empty table.
ExitHonest ==
    exit_code = 0 =>
        /\ \A p \in Phil : sec[p] = "done" /\ cycles_left[p] = 0
        /\ \A f \in Fork : forks[f] = 1
        /\ printing = 1
        /\ \A p \in Phil : row[p] = [state |-> "CHANGING", forks |-> {}]

\* Unless a library call fails, every philosopher gets to eat and to finish its
\* cycles, however often its neighbours overtake it, and main() returns 0.
Termination == <>(exit_code = 0 \/ failures > 0)

\* "If it cannot complete its task, it should print an error message and exit
\* gracefully with non-zero exit status" (asgn3.pdf, p. 2): once a thread has
\* failed, the process exits with a failure.
FailureReported == (failed # {}) ~> (exit_code = 1)

-----------------------------------------------------------------------------
\* What the printed rows promise.  Full(p): p has eaten and not thought since.
\* A thread that failed to unlock has printed without leaving its section.
Full(p) == IF p \in failed /\ phase[p] = "print"
           THEN sec[p] \in {"full", "right", "left"}
           ELSE sec[p] \in {"right", "left", "think"}

Shown == INSTANCE Table WITH row <- row, full <- {p \in Phil : Full(p)}

\* The printed rows are a behaviour of Table: each differs from the one before
\* by one pick-up, one put-down or one state change of one philosopher, in the
\* order a philosopher's life prescribes ("Each status line should show only
\* one change", asgn3.pdf, p. 2).
ShownSpec == Shown!Spec

-----------------------------------------------------------------------------
(***************************************************************************)
(* The inductive invariant: what each control point of philosopher() and   *)
(* of main() says about the semaphores, the fields and the printed row.    *)
(***************************************************************************)
\* A section is in a phase it has, and only ForkSections wait for a fork.
PhaseInv ==
    \A p \in Phil :
        /\ sec[p] \in {"unborn", "done"} <=> phase[p] = "none"
        /\ phase[p] = "fork" => sec[p] \in ForkSections
        /\ p \in failed => phase[p] # "none"
        /\ p \in failed /\ phase[p] = "write" => sec[p] \in ReleaseSections

\* printing_lock is taken exactly while one thread is between its sem_wait and
\* its sem_post: every update and every row of dine.c is in mutual exclusion.
InLock(p) == phase[p] \in {"write", "print"}

LockInv ==
    /\ \A p, q \in Phil : InLock(p) /\ InLock(q) => p = q
    /\ Live => (printing = 0 <=> \E p \in Phil : InLock(p))

\* The flags of a thread follow its control point, one update behind the
\* semaphores (a thread whose sem_post of a fork failed has cleared its flag).
ShowsFirst(p) ==
    \/ sec[p] = "first" /\ phase[p] = "print"
    \/ sec[p] \in {"second", "eat", "full"}

ShowsSecond(p) ==
    \/ sec[p] = "second" /\ phase[p] = "print"
    \/ sec[p] \in {"eat", "full"}

ShowsRight(p) ==
    \/ IF RightFirst(p) THEN ShowsFirst(p) ELSE ShowsSecond(p)
    \/ sec[p] = "right" /\ phase[p] # "print" /\ ~(p \in failed /\ phase[p] = "write")

ShowsLeft(p) ==
    \/ IF RightFirst(p) THEN ShowsSecond(p) ELSE ShowsFirst(p)
    \/ sec[p] = "right"
    \/ sec[p] = "left" /\ phase[p] # "print" /\ ~(p \in failed /\ phase[p] = "write")

AtTable(p) ==
    \/ sec[p] = "eat" /\ phase[p] = "print"
    \/ sec[p] = "full" /\ phase[p] # "print"

AtRest(p) ==
    \/ sec[p] = "think" /\ phase[p] = "print"
    \/ sec[p] \in {"changing", "last"} /\ phase[p] # "print"

FieldsInv ==
    \A p \in Phil :
        /\ holding_right[p] <=> ShowsRight(p)
        /\ holding_left[p] <=> ShowsLeft(p)
        /\ state[p] = "EATING" <=> AtTable(p)
        /\ state[p] = "THINKING" <=> AtRest(p)

\* The last row shows each philosopher as it is, except for the one update that
\* is about to be printed: until then, the row is the one its section began with.
RowAtEntry(p) ==
    [state |-> IF sec[p] = "full" THEN "EATING"
               ELSE IF sec[p] \in {"changing", "last"} THEN "THINKING" ELSE "CHANGING",
     forks |-> IF sec[p] = "second" THEN {First(p)}
               ELSE IF sec[p] \in {"eat", "full", "right"} THEN {Left(p), Right(p)}
               ELSE IF sec[p] = "left" THEN {Left(p)} ELSE {}]

RowInv ==
    \A p \in Phil :
        row[p] = IF p \in failed /\ phase[p] = "print" THEN Cell(p) ELSE RowAtEntry(p)

\* The loop is inside while cycles_left > 0 and is left at exactly 0.
CyclesInv ==
    \A p \in Phil :
        /\ main = "create" /\ sec[p] = "unborn" => cycles_left[p] > 0
        /\ sec[p] \in Sections \ {"last"} => cycles_left[p] > 0
        /\ sec[p] \in {"last", "done"} => cycles_left[p] = 0

\* Which threads exist, and which have ended, at each point of main().
MainInv ==
    /\ exit_code = -1 <=> main # "exited"
    /\ main = "setup" => joined = 0 /\ \A p \in Phil : sec[p] = "unborn"
    /\ main = "create" => joined < N /\ \A p \in Phil : sec[p] = "unborn" <=> p >= joined
    /\ main = "join" =>
           \A p \in Phil : sec[p] # "unborn" /\ (p < joined => sec[p] = "done")
    /\ exit_code = 0 => \A p \in Phil : sec[p] = "done"

\* Holds initially and is preserved by every step of philosopher() and main(),
\* failing calls included: each control point of dine.c implies what the
\* semaphores, the philinfo fields and the last row are.
IndInv ==
    /\ TypeOK
    /\ PhaseInv
    /\ LockInv
    /\ ForksConserved
    /\ FieldsInv
    /\ RowInv
    /\ CyclesInv
    /\ MainInv
=============================================================================
