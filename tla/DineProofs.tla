----------------------------- MODULE DineProofs -----------------------------
(***************************************************************************)
(* Proofs about Dine for every number of philosophers, cycles and failures.*)
(***************************************************************************)
EXTENDS Dine, TLAPS

USE DEF RightFirst

\* The neighbour to the right: a fork has exactly two philosophers around it.
LEMMA RightFacts ==
    /\ \A p \in Phil : Right(p) = IF p + 1 = N THEN 0 ELSE p + 1
    /\ \A p \in Phil : Right(p) \in Phil /\ Right(p) # p
    /\ \A p, q \in Phil : Right(p) = Right(q) => p = q
    /\ \A q \in Phil : \E p \in Phil : Right(p) = q
<1>1. \A p \in Phil : Right(p) = IF p + 1 = N THEN 0 ELSE p + 1
  BY NAssumption DEF Phil, Right
<1>2. \A p \in Phil : Right(p) \in Phil /\ Right(p) # p
  BY <1>1, NAssumption DEF Phil
<1>3. \A p, q \in Phil : Right(p) = Right(q) => p = q
  BY <1>1, NAssumption DEF Phil
<1>4. ASSUME NEW q \in Phil PROVE \E p \in Phil : Right(p) = q
  <2>1. CASE q = 0
    <3>1. N - 1 \in Phil /\ Right(N - 1) = q
      BY <1>1, <2>1, NAssumption DEF Phil
    <3> QED BY <3>1
  <2>2. CASE q # 0
    <3>1. q - 1 \in Phil /\ Right(q - 1) = q
      BY <1>1, <2>2, NAssumption DEF Phil
    <3> QED BY <3>1
  <2> QED BY <2>1, <2>2
<1> QED BY <1>1, <1>2, <1>3, <1>4

\* The forks of a philosopher are its left and its right one, in either order.
LEMMA ForkChoice ==
    ASSUME NEW p \in Phil
    PROVE  /\ First(p) \in Fork /\ Second(p) \in Fork /\ Wanted(p) \in Fork
           /\ Left(p) \in Fork /\ Right(p) \in Fork /\ Left(p) # Right(p)
           /\ {First(p), Second(p)} = {Left(p), Right(p)}
BY RightFacts DEF First, Second, Wanted, Left, Phil, Fork

\* A thread that takes a step does so between its creation and the exit of the
\* process, when the semaphores are initialised.
LEMMA StepsWhileLive ==
    ASSUME IndInv, NEW p \in Phil, Running(p), phase[p] # "none"
    PROVE  /\ main \in {"create", "join"} /\ exit_code = -1 /\ Live
           /\ sec[p] \in Sections
BY DEF IndInv, TypeOK, MainInv, PhaseInv, Running, Live

\* The types hold at the start.
LEMMA InitType == Init => TypeOK
BY NAssumption DEF Init, TypeOK, States, Sections, StateSections, ForkSections,
                   ReleaseSections, Phases

\* Every step keeps the variables in their types.
LEMMA TypeStep == IndInv /\ [Next]_vars => TypeOK'
<1> SUFFICES ASSUME IndInv, [Next]_vars PROVE TypeOK'
  OBVIOUS
<1> USE NAssumption, BoundsAssumption
<1>0. TypeOK
  BY DEF IndInv
<1>c. ASSUME NEW q \in Phil
      PROVE  Cell(q) \in [state : States, forks : SUBSET Fork]
  BY <1>0, ForkChoice DEF Cell, TypeOK
<1>1. CASE Setup
  BY <1>0, <1>1, <1>c DEF Setup, TypeOK
<1>2. CASE Create
  <2>1. joined \in Phil
    BY <1>0, <1>2 DEF Create, TypeOK, Phil
  <2>2. LoopHead(cycles_left[joined], state[joined]) \in Sections
    BY DEF LoopHead, Sections, StateSections, ForkSections
  <2>3. Entry(sec'[joined]) \in Phases \cup {"none"}
    BY DEF Entry, Phases
  <2> QED
    BY <1>0, <1>2, <2>1, <2>2, <2>3 DEF Create, TypeOK, fields
<1>3. CASE Join
  BY <1>0, <1>3 DEF Join, TypeOK, fields
<1>4. CASE Finish
  BY <1>0, <1>4 DEF Finish, TypeOK, fields
<1>5. CASE MainFail
  BY <1>0, <1>5 DEF MainFail, TypeOK, fields
<1>6. ASSUME NEW p \in Phil, GrabFork(p) PROVE TypeOK'
  BY <1>0, <1>6, ForkChoice DEF GrabFork, Goto, TypeOK, fields, proc, Phases
<1>7. ASSUME NEW p \in Phil, LockPrinting(p) PROVE TypeOK'
  BY <1>0, <1>7 DEF LockPrinting, Goto, TypeOK, fields, proc, Phases
<1>8. ASSUME NEW p \in Phil, ChangeState(p) PROVE TypeOK'
  BY <1>0, <1>8 DEF ChangeState, Goto, TypeOK, proc, Phases, NewState, States, StateSections
<1>9. ASSUME NEW p \in Phil, MarkFork(p) PROVE TypeOK'
  BY <1>0, <1>9 DEF MarkFork, Goto, TypeOK, proc, Phases
<1>10. ASSUME NEW p \in Phil, PutDownRight(p) PROVE TypeOK'
  <2>1. forks[Right(p)] = 0
    BY <1>0, <1>10, ForkChoice, RightFacts
       DEF PutDownRight, IndInv, ForksConserved, Live, OwnsRight, TypeOK, Running, MainInv
  <2> QED BY <1>0, <1>10, <2>1, ForkChoice DEF PutDownRight, Goto, TypeOK, proc, Phases
<1>11. ASSUME NEW p \in Phil, PutDownLeft(p) PROVE TypeOK'
  <2>1. forks[Left(p)] = 0
    <3>1. PICK q \in Phil : Right(q) = p
      BY RightFacts
    <3> QED
      BY <1>0, <1>11, <3>1
         DEF PutDownLeft, IndInv, ForksConserved, Live, OwnsLeft, TypeOK, Running, MainInv, Left
  <2> QED BY <1>0, <1>11, <2>1, ForkChoice DEF PutDownLeft, Goto, TypeOK, proc, Phases
<1>12. ASSUME NEW p \in Phil, PrintRow(p) PROVE TypeOK'
  <2>1. /\ sec[p] \in Sections
        /\ cycles_left[p] > 0 \/ sec[p] = "last"
    BY <1>0, <1>12 DEF IndInv, PrintRow, PhaseInv, CyclesInv, TypeOK
  <2>2. NextSec(p) \in Sections \cup {"done"}
    BY <2>1 DEF NextSec, LoopHead, Successor, Sections, StateSections, ForkSections,
                ReleaseSections
  <2>3. Entry(NextSec(p)) \in Phases \cup {"none"}
    BY DEF Entry, Phases
  <2>4. printing' \in {0, 1}
    BY <1>0, <1>12, StepsWhileLive DEF PrintRow, IndInv, LockInv, InLock, TypeOK
  <2>5. row' \in [Phil -> [state : States, forks : SUBSET Fork]]
    BY <1>12, <1>c DEF PrintRow
  <2>6. cycles_left' \in [Phil -> Nat]
    BY <1>0, <1>12, <2>1 DEF PrintRow, TypeOK
  <2>7. sec' \in [Phil -> Sections \cup {"unborn", "done"}]
    BY <1>0, <1>12, <2>2 DEF PrintRow, TypeOK
  <2>8. phase' \in [Phil -> Phases \cup {"none"}]
    BY <1>0, <1>12, <2>3 DEF PrintRow, TypeOK
  <2> QED
    BY <1>0, <1>12, <2>4, <2>5, <2>6, <2>7, <2>8 DEF PrintRow, TypeOK, proc
<1>13. ASSUME NEW p \in Phil, ThreadFail(p) PROVE TypeOK'
  <2>1. row' \in [Phil -> [state : States, forks : SUBSET Fork]]
    BY <1>0, <1>13, <1>c DEF ThreadFail, TypeOK
  <2>2. /\ holding_left' \in [Phil -> BOOLEAN]
        /\ holding_right' \in [Phil -> BOOLEAN]
    BY <1>0, <1>13 DEF ThreadFail, TypeOK
  <2> QED
    BY <1>0, <1>13, <2>1, <2>2 DEF ThreadFail, TypeOK, proc
<1>14. CASE UNCHANGED vars
  BY <1>0, <1>14 DEF vars, fields, proc, TypeOK
<1> QED
  BY <1>1, <1>2, <1>3, <1>4, <1>5, <1>6, <1>7, <1>8, <1>9, <1>10, <1>11,
     <1>12, <1>13, <1>14 DEF Next, Main, Philosopher

-----------------------------------------------------------------------------
\* Who unlocks is the one who locked.
LEMMA LockStep == IndInv /\ TypeOK' /\ [Next]_vars => LockInv'
<1> SUFFICES ASSUME IndInv, TypeOK', [Next]_vars PROVE LockInv'
  OBVIOUS
<1>0. TypeOK /\ LockInv /\ PhaseInv /\ MainInv
  BY DEF IndInv
<1>1. CASE Setup
  <2>1. \A p \in Phil : phase[p] = "none"
    BY <1>0, <1>1 DEF Setup, MainInv, PhaseInv
  <2> QED BY <1>1, <2>1 DEF Setup, LockInv, InLock
<1>2. CASE Create
  <2>1. joined \in Phil /\ phase[joined] = "none"
    BY <1>0, <1>2, NAssumption DEF Create, MainInv, PhaseInv, TypeOK, Phil
  <2>2. /\ phase' = [phase EXCEPT ![joined] = Entry(sec'[joined])]
        /\ Entry(sec'[joined]) \notin {"write", "print"}
    BY <1>2 DEF Create, Entry
  <2>3. \A q \in Phil : InLock(q)' <=> InLock(q)
    BY <1>0, <2>1, <2>2 DEF InLock, TypeOK
  <2>4. Live' => Live
    BY <1>0, <1>2 DEF Create, Live, MainInv
  <2> QED BY <1>0, <1>2, <2>3, <2>4 DEF Create, LockInv
<1>3. CASE Join \/ Finish \/ MainFail
  BY <1>0, <1>3 DEF Join, Finish, MainFail, LockInv, InLock, Live, MainInv
<1>4. ASSUME NEW p \in Phil, GrabFork(p) PROVE LockInv'
  BY <1>0, <1>4 DEF GrabFork, Goto, LockInv, InLock, Live, proc, TypeOK
<1>5. ASSUME NEW p \in Phil, LockPrinting(p) PROVE LockInv'
  <2>1. \A q \in Phil : ~InLock(q)
    BY <1>0, <1>5, StepsWhileLive DEF LockPrinting, LockInv
  <2> QED BY <1>0, <1>5, <2>1 DEF LockPrinting, Goto, LockInv, InLock, TypeOK
<1>6. ASSUME NEW p \in Phil, ChangeState(p) \/ MarkFork(p) \/ PutDownRight(p) \/ PutDownLeft(p)
      PROVE  LockInv'
  <2>1. /\ phase[p] = "write" /\ phase' = [phase EXCEPT ![p] = "print"]
        /\ UNCHANGED <<printing, main, exit_code>>
    BY <1>6 DEF ChangeState, MarkFork, PutDownRight, PutDownLeft, Goto, proc
  <2> QED BY <1>0, <2>1 DEF LockInv, InLock, Live, TypeOK
<1>7. ASSUME NEW p \in Phil, PrintRow(p) PROVE LockInv'
  <2>1. Entry(NextSec(p)) \notin {"write", "print"}
    BY DEF Entry
  <2>2. \A q \in Phil : ~InLock(q)'
    BY <1>0, <1>7, <2>1 DEF PrintRow, LockInv, InLock, TypeOK
  <2>3. printing' = 1
    BY <1>0, <1>7 DEF PrintRow, TypeOK
  <2> QED BY <2>2, <2>3 DEF LockInv
<1>8. ASSUME NEW p \in Phil, ThreadFail(p) PROVE LockInv'
  BY <1>0, <1>8 DEF ThreadFail, LockInv, InLock, Live, proc
<1>9. CASE UNCHANGED vars
  BY <1>0, <1>9 DEF vars, proc, LockInv, InLock, Live
<1> QED
  BY <1>1, <1>2, <1>3, <1>4, <1>5, <1>6, <1>7, <1>8, <1>9 DEF Next, Main, Philosopher

-----------------------------------------------------------------------------
\* The sections follow one another; only the last one ends the thread.
LEMMA NextSecFacts ==
    ASSUME NEW p \in Phil, sec[p] \in Sections
    PROVE  /\ NextSec(p) \in Sections \cup {"done"}
           /\ NextSec(p) = "done" <=> sec[p] = "last"
           /\ sec[p] # "think" => NextSec(p) = Successor[sec[p]]
           /\ Entry(NextSec(p)) = "none" <=> sec[p] = "last"
           /\ Entry(NextSec(p)) = "fork" => NextSec(p) \in ForkSections
           /\ Entry(NextSec(p)) \in {"none", "fork", "lock"}
BY DEF NextSec, LoopHead, Successor, Entry, Sections, StateSections, ForkSections,
       ReleaseSections

\* A new thread starts at the head of its loop.
LEMMA CreateFacts ==
    ASSUME IndInv, Create
    PROVE  /\ joined \in Phil /\ sec[joined] = "unborn" /\ phase[joined] = "none"
           /\ sec' = [sec EXCEPT ![joined] = "first"]
           /\ phase' = [phase EXCEPT ![joined] = "fork"]
<1>1. /\ joined \in Phil /\ sec[joined] = "unborn" /\ phase[joined] = "none"
      /\ sec \in [Phil -> Sections \cup {"unborn", "done"}]
  BY NAssumption DEF IndInv, Create, MainInv, PhaseInv, TypeOK, Phil
<1>2. state[joined] = "CHANGING" /\ cycles_left[joined] > 0
  BY <1>1 DEF IndInv, Create, FieldsInv, AtTable, AtRest, CyclesInv, TypeOK, States
<1>3. LoopHead(cycles_left[joined], state[joined]) = "first"
  BY <1>1, <1>2 DEF LoopHead, IndInv, TypeOK
<1> QED BY <1>1, <1>3 DEF Create, Entry, ForkSections

\* No step takes a thread into a phase its section does not have.
LEMMA PhaseStep == IndInv /\ [Next]_vars => PhaseInv'
<1> SUFFICES ASSUME IndInv, [Next]_vars PROVE PhaseInv'
  OBVIOUS
<1>0. TypeOK /\ PhaseInv
  BY DEF IndInv
<1>1. CASE Setup \/ Join \/ Finish \/ MainFail
  BY <1>0, <1>1 DEF Setup, Join, Finish, MainFail, PhaseInv
<1>2. CASE Create
  BY <1>0, <1>2, CreateFacts DEF Create, PhaseInv, TypeOK, ForkSections
<1>3. ASSUME NEW p \in Phil, GrabFork(p) PROVE PhaseInv'
  BY <1>0, <1>3 DEF GrabFork, Goto, PhaseInv, TypeOK, Running
<1>4. ASSUME NEW p \in Phil, LockPrinting(p) PROVE PhaseInv'
  BY <1>0, <1>4 DEF LockPrinting, Goto, PhaseInv, TypeOK, Running
<1>5. ASSUME NEW p \in Phil, ChangeState(p) \/ MarkFork(p) \/ PutDownRight(p) \/ PutDownLeft(p)
      PROVE  PhaseInv'
  BY <1>0, <1>5 DEF ChangeState, MarkFork, PutDownRight, PutDownLeft, Goto, PhaseInv, TypeOK
<1>6. ASSUME NEW p \in Phil, PrintRow(p) PROVE PhaseInv'
  <2>1. sec[p] \in Sections
    BY <1>6, StepsWhileLive DEF PrintRow
  <2> QED
    BY <1>0, <1>6, <2>1, NextSecFacts DEF PrintRow, PhaseInv, TypeOK, Running, Sections,
       StateSections, ForkSections, ReleaseSections
<1>7. ASSUME NEW p \in Phil, ThreadFail(p) PROVE PhaseInv'
  BY <1>0, <1>7 DEF ThreadFail, PhaseInv
<1>8. CASE UNCHANGED vars
  BY <1>0, <1>8 DEF vars, PhaseInv
<1> QED
  BY <1>1, <1>2, <1>3, <1>4, <1>5, <1>6, <1>7, <1>8 DEF Next, Main, Philosopher

\* main() creates the threads in order and joins them in order.
LEMMA MainStep == IndInv /\ [Next]_vars => MainInv'
<1> SUFFICES ASSUME IndInv, [Next]_vars PROVE MainInv'
  OBVIOUS
<1>0. TypeOK /\ MainInv /\ PhaseInv
  BY DEF IndInv
<1>1. CASE Setup
  <2>1. main' = "create" /\ joined' = 0 /\ exit_code' = -1 /\ sec' = sec
    BY <1>0, <1>1 DEF Setup, MainInv, IndInv
  <2> QED BY <1>0, <1>1, <2>1, NAssumption DEF Setup, MainInv, Phil, TypeOK
<1>2. CASE Create
  BY <1>0, <1>2, CreateFacts, NAssumption DEF Create, MainInv, TypeOK, Phil
<1>3. CASE Join
  BY <1>0, <1>3 DEF Join, MainInv, TypeOK, Phil
<1>4. CASE Finish \/ MainFail
  <2>1. CASE Finish
    <3>1. \A q \in Phil : sec[q] = "done"
      BY <1>0, <2>1, NAssumption DEF Finish, MainInv, Phil, TypeOK
    <3> QED BY <1>0, <2>1, <3>1 DEF Finish, MainInv
  <2>2. CASE MainFail
    BY <1>0, <2>2 DEF MainFail, MainInv
  <2> QED BY <1>4, <2>1, <2>2
<1>5. ASSUME NEW p \in Phil, Philosopher(p) \/ ThreadFail(p) PROVE MainInv'
  <2>1. /\ UNCHANGED <<main, joined, exit_code>>
        /\ main \in {"create", "join"} /\ exit_code = -1
        /\ sec[p] \in Sections
    BY <1>5, StepsWhileLive DEF Philosopher, GrabFork, LockPrinting, ChangeState, MarkFork,
       PutDownRight, PutDownLeft, PrintRow, ThreadFail, proc
  <2>2. /\ \A q \in Phil : q # p => sec'[q] = sec[q]
        /\ sec'[p] \in Sections \cup {"done"}
    BY <1>0, <1>5, <2>1, NextSecFacts DEF Philosopher, GrabFork, LockPrinting, ChangeState,
       MarkFork, PutDownRight, PutDownLeft, PrintRow, ThreadFail, TypeOK
  <2> QED
    BY <1>0, <2>1, <2>2 DEF MainInv, Sections, StateSections, ForkSections, ReleaseSections
<1>6. CASE UNCHANGED vars
  BY <1>0, <1>6 DEF vars, proc, MainInv
<1> QED
  BY <1>1, <1>2, <1>3, <1>4, <1>5, <1>6 DEF Next, Main

\* The loop counter and the control point agree.
LEMMA CyclesStep == IndInv /\ TypeOK' /\ [Next]_vars => CyclesInv'
<1> SUFFICES ASSUME IndInv, TypeOK', [Next]_vars PROVE CyclesInv'
  OBVIOUS
<1>0. TypeOK /\ CyclesInv /\ MainInv
  BY DEF IndInv
<1>1. CASE Setup
  BY <1>0, <1>1, BoundsAssumption DEF Setup, CyclesInv, MainInv, Sections, StateSections,
     ForkSections, ReleaseSections
<1>2. CASE Create
  BY <1>0, <1>2, CreateFacts DEF Create, CyclesInv, MainInv, TypeOK, fields
<1>3. CASE Join \/ Finish \/ MainFail
  BY <1>0, <1>3 DEF Join, Finish, MainFail, CyclesInv, fields
<1>4. ASSUME NEW p \in Phil, PrintRow(p) PROVE CyclesInv'
  <2>1. sec[p] \in Sections
    BY <1>4, StepsWhileLive DEF PrintRow
  <2>2. CASE sec[p] = "think"
    BY <1>0, <1>4, <2>2 DEF PrintRow, NextSec, LoopHead, CyclesInv, TypeOK, proc, Sections,
       StateSections, ForkSections, ReleaseSections
  <2>3. CASE sec[p] # "think"
    BY <1>0, <1>4, <2>1, <2>3 DEF PrintRow, NextSec, Successor, CyclesInv, TypeOK, proc,
       Sections, StateSections, ForkSections, ReleaseSections
  <2> QED BY <2>2, <2>3
<1>5. ASSUME NEW p \in Phil, \/ GrabFork(p) \/ LockPrinting(p) \/ ChangeState(p) \/ MarkFork(p)
                             \/ PutDownRight(p) \/ PutDownLeft(p) \/ ThreadFail(p)
      PROVE  CyclesInv'
  <2>1. UNCHANGED <<sec, cycles_left, main>>
    BY <1>5 DEF GrabFork, LockPrinting, ChangeState, MarkFork, PutDownRight, PutDownLeft,
       ThreadFail, fields, proc
  <2> QED BY <1>0, <2>1 DEF CyclesInv
<1>6. CASE UNCHANGED vars
  BY <1>0, <1>6 DEF vars, fields, proc, CyclesInv
<1> QED
  BY <1>1, <1>2, <1>3, <1>4, <1>5, <1>6 DEF Next, Main, Philosopher

-----------------------------------------------------------------------------
\* A step of thread p that does not move another thread's forks.
LEMMA ForksOfOthers ==
    ASSUME NEW p \in Phil, NEW q \in Phil, q # p,
           sec'[q] = sec[q], phase'[q] = phase[q]
    PROVE  (OwnsRight(q)' <=> OwnsRight(q)) /\ (OwnsLeft(q)' <=> OwnsLeft(q))
BY DEF OwnsRight, OwnsLeft, OwnsFirst, OwnsSecond

\* If the owners and the semaphores stay as they are, so does the invariant.
LEMMA ForksFrame ==
    ASSUME ForksConserved, UNCHANGED forks, Live' => Live,
           \A q \in Phil : (OwnsRight(q)' <=> OwnsRight(q)) /\ (OwnsLeft(q)' <=> OwnsLeft(q))
    PROVE  ForksConserved'
BY RightFacts DEF ForksConserved

\* A step after which p alone has its right fork, or p alone has none of it,
\* and which leaves every other fork alone.
LEMMA RightForkMoves ==
    ASSUME NEW p \in Phil, NEW free \in {0, 1}, ForksConserved, Live,
           ~OwnsLeft(Right(p)), OwnsRight(p)' <=> free = 0,
           \A q \in Phil : OwnsLeft(q)' <=> OwnsLeft(q),
           \A q \in Phil : q # p => (OwnsRight(q)' <=> OwnsRight(q)),
           \A f \in Fork : forks'[f] = IF f = Right(p) THEN free ELSE forks[f]
    PROVE  ForksConserved'
<1> SUFFICES ASSUME NEW q \in Phil
             PROVE  /\ ~(OwnsRight(q)' /\ OwnsLeft(Right(q))')
                    /\ forks'[Right(q)] = 0 <=> OwnsRight(q)' \/ OwnsLeft(Right(q))'
  BY DEF ForksConserved
<1>1. Right(q) \in Phil /\ Right(q) \in Fork
  BY RightFacts DEF Phil, Fork
<1>2. CASE q = p
  BY <1>1, <1>2
<1>3. CASE q # p
  <2>1. Right(q) # Right(p)
    BY <1>3, RightFacts
  <2> QED BY <1>1, <1>3, <2>1 DEF ForksConserved
<1> QED BY <1>2, <1>3

\* The same for the left fork of p.
LEMMA LeftForkMoves ==
    ASSUME NEW p \in Phil, NEW free \in {0, 1}, ForksConserved, Live,
           \A q \in Phil : Right(q) = p => ~OwnsRight(q), OwnsLeft(p)' <=> free = 0,
           \A q \in Phil : OwnsRight(q)' <=> OwnsRight(q),
           \A q \in Phil : q # p => (OwnsLeft(q)' <=> OwnsLeft(q)),
           \A f \in Fork : forks'[f] = IF f = p THEN free ELSE forks[f]
    PROVE  ForksConserved'
<1> SUFFICES ASSUME NEW q \in Phil
             PROVE  /\ ~(OwnsRight(q)' /\ OwnsLeft(Right(q))')
                    /\ forks'[Right(q)] = 0 <=> OwnsRight(q)' \/ OwnsLeft(Right(q))'
  BY DEF ForksConserved
<1>1. Right(q) \in Phil /\ Right(q) \in Fork
  BY RightFacts DEF Phil, Fork
<1>2. CASE Right(q) = p
  BY <1>1, <1>2
<1>3. CASE Right(q) # p
  BY <1>1, <1>3 DEF ForksConserved
<1> QED BY <1>2, <1>3

\* Only sem_wait and sem_post of a fork change who owns it.
LEMMA ForksStep == IndInv /\ TypeOK' /\ [Next]_vars => ForksConserved'
<1> SUFFICES ASSUME IndInv, TypeOK', [Next]_vars PROVE ForksConserved'
  OBVIOUS
<1>0. TypeOK /\ ForksConserved /\ PhaseInv /\ MainInv
  BY DEF IndInv
<1>1. CASE Setup
  <2>1. \A p \in Phil : ~OwnsRight(p)' /\ ~OwnsLeft(p)'
    BY <1>0, <1>1 DEF Setup, MainInv, OwnsRight, OwnsLeft, OwnsFirst, OwnsSecond
  <2>2. \A f \in Fork : forks'[f] = 1
    BY <1>1 DEF Setup
  <2> QED BY <2>1, <2>2, RightFacts DEF ForksConserved, Phil, Fork
<1>2. CASE Create
  <2>1. \A q \in Phil : (OwnsRight(q)' <=> OwnsRight(q)) /\ (OwnsLeft(q)' <=> OwnsLeft(q))
    BY <1>0, <1>2, CreateFacts DEF TypeOK, OwnsRight, OwnsLeft, OwnsFirst, OwnsSecond
  <2>2. Live' => Live
    BY <1>0, <1>2 DEF Create, Live, MainInv
  <2> QED BY <1>0, <1>2, <2>1, <2>2, ForksFrame DEF Create
<1>3. CASE Join \/ Finish \/ MainFail
  BY <1>0, <1>3, ForksFrame DEF Join, Finish, MainFail, Live, MainInv, OwnsRight, OwnsLeft,
     OwnsFirst, OwnsSecond
<1>4. ASSUME NEW p \in Phil, GrabFork(p) PROVE ForksConserved'
  <2>0. sec[p] \in ForkSections /\ Live /\ Live'
    BY <1>0, <1>4, StepsWhileLive DEF GrabFork, PhaseInv, Live, proc
  <2>1. \A q \in Phil : q # p => /\ OwnsRight(q)' <=> OwnsRight(q)
                                 /\ OwnsLeft(q)' <=> OwnsLeft(q)
    BY <1>0, <1>4, ForksOfOthers DEF GrabFork, Goto, TypeOK
  <2>2. /\ \A f \in Fork : forks'[f] = IF f = Wanted(p) THEN 0 ELSE forks[f]
        /\ forks[Wanted(p)] = 1
    BY <1>0, <1>4, ForkChoice DEF GrabFork, TypeOK
  <2>3. CASE Wanted(p) = Right(p)
    <3>1. OwnsRight(p)' /\ (OwnsLeft(p)' <=> OwnsLeft(p))
      BY <1>0, <1>4, <2>0, <2>3, RightFacts DEF GrabFork, Goto, TypeOK, Wanted, First, Second,
         Left, OwnsRight, OwnsLeft, OwnsFirst, OwnsSecond, ForkSections
    <3>2. ~OwnsLeft(Right(p))
      BY <1>0, <2>0, <2>2, <2>3 DEF ForksConserved
    <3> QED
      BY <1>0, <2>0, <2>1, <2>2, <2>3, <3>1, <3>2, RightForkMoves
  <2>4. CASE Wanted(p) = Left(p)
    <3>1. OwnsLeft(p)' /\ (OwnsRight(p)' <=> OwnsRight(p))
      BY <1>0, <1>4, <2>0, <2>4, RightFacts DEF GrabFork, Goto, TypeOK, Wanted, First, Second,
         Left, OwnsRight, OwnsLeft, OwnsFirst, OwnsSecond, ForkSections
    <3>2. \A q \in Phil : Right(q) = p => ~OwnsRight(q)
      BY <1>0, <2>0, <2>2, <2>4 DEF ForksConserved, Left
    <3>3. \A f \in Fork : forks'[f] = IF f = p THEN 0 ELSE forks[f]
      BY <2>2, <2>4 DEF Left
    <3> QED
      BY <1>0, <2>0, <2>1, <3>1, <3>2, <3>3, LeftForkMoves
  <2> QED BY <2>3, <2>4 DEF Wanted, First, Second
<1>5. ASSUME NEW p \in Phil, LockPrinting(p) \/ ChangeState(p) \/ MarkFork(p) PROVE ForksConserved'
  <2>1. /\ phase[p] \in {"lock", "write"} /\ phase' = [phase EXCEPT ![p] = phase'[p]]
        /\ phase'[p] \in {"write", "print"}
        /\ sec[p] \in ReleaseSections => phase'[p] = "write"
        /\ UNCHANGED <<sec, forks, main, exit_code>>
    BY <1>0, <1>5 DEF LockPrinting, ChangeState, MarkFork, Goto, TypeOK, proc, StateSections,
       ForkSections, ReleaseSections
  <2>2. \A q \in Phil : (OwnsRight(q)' <=> OwnsRight(q)) /\ (OwnsLeft(q)' <=> OwnsLeft(q))
    BY <1>0, <2>1 DEF TypeOK, OwnsRight, OwnsLeft, OwnsFirst, OwnsSecond, ReleaseSections
  <2> QED BY <1>0, <2>1, <2>2, ForksFrame DEF Live
<1>6. ASSUME NEW p \in Phil, PutDownRight(p) PROVE ForksConserved'
  <2>0. Live
    BY <1>6, StepsWhileLive DEF PutDownRight
  <2>1. \A q \in Phil : q # p => /\ OwnsRight(q)' <=> OwnsRight(q)
                                 /\ OwnsLeft(q)' <=> OwnsLeft(q)
    BY <1>0, <1>6, ForksOfOthers DEF PutDownRight, Goto, TypeOK
  <2>2. OwnsRight(p) /\ ~OwnsRight(p)' /\ OwnsLeft(p) /\ OwnsLeft(p)'
    BY <1>0, <1>6 DEF PutDownRight, Goto, TypeOK, OwnsRight, OwnsLeft, OwnsFirst, OwnsSecond
  <2>3. \A f \in Fork : forks'[f] = IF f = Right(p) THEN 1 ELSE forks[f]
    BY <1>0, <1>6, <2>0, <2>2, RightFacts DEF PutDownRight, ForksConserved, TypeOK
  <2>4. ~OwnsLeft(Right(p))
    BY <1>0, <2>2 DEF ForksConserved
  <2> QED BY <1>0, <2>0, <2>1, <2>2, <2>3, <2>4, RightForkMoves
<1>7. ASSUME NEW p \in Phil, PutDownLeft(p) PROVE ForksConserved'
  <2>0. Live
    BY <1>7, StepsWhileLive DEF PutDownLeft
  <2>1. \A q \in Phil : q # p => /\ OwnsRight(q)' <=> OwnsRight(q)
                                 /\ OwnsLeft(q)' <=> OwnsLeft(q)
    BY <1>0, <1>7, ForksOfOthers DEF PutDownLeft, Goto, TypeOK
  <2>2. ~OwnsRight(p) /\ ~OwnsRight(p)' /\ OwnsLeft(p) /\ ~OwnsLeft(p)'
    BY <1>0, <1>7 DEF PutDownLeft, Goto, TypeOK, OwnsRight, OwnsLeft, OwnsFirst, OwnsSecond
  <2>3. \A f \in Fork : forks'[f] = IF f = p THEN 1 ELSE forks[f]
    BY <1>0, <1>7, <2>0, <2>2, RightFacts DEF PutDownLeft, ForksConserved, TypeOK, Left
  <2>4. \A q \in Phil : Right(q) = p => ~OwnsRight(q)
    BY <1>0, <2>2 DEF ForksConserved
  <2> QED BY <1>0, <2>0, <2>1, <2>2, <2>3, <2>4, LeftForkMoves
<1>8. ASSUME NEW p \in Phil, PrintRow(p) PROVE ForksConserved'
  <2>1. sec[p] \in Sections
    BY <1>8, StepsWhileLive DEF PrintRow
  <2>2. (OwnsRight(p)' <=> OwnsRight(p)) /\ (OwnsLeft(p)' <=> OwnsLeft(p))
    <3>1. CASE sec[p] = "think"
      BY <1>0, <1>8, <3>1 DEF PrintRow, NextSec, LoopHead, Entry, ForkSections, TypeOK,
         OwnsRight, OwnsLeft, OwnsFirst, OwnsSecond
    <3>2. CASE sec[p] # "think"
      BY <1>0, <1>8, <2>1, <3>2 DEF PrintRow, NextSec, Successor, Entry, TypeOK, OwnsRight,
         OwnsLeft, OwnsFirst, OwnsSecond, Sections, StateSections, ForkSections, ReleaseSections
    <3> QED BY <3>1, <3>2
  <2>3. \A q \in Phil : q # p => /\ OwnsRight(q)' <=> OwnsRight(q)
                                 /\ OwnsLeft(q)' <=> OwnsLeft(q)
    BY <1>0, <1>8, ForksOfOthers DEF PrintRow, TypeOK
  <2> QED BY <1>0, <1>8, <2>2, <2>3, ForksFrame DEF PrintRow, Live, proc
<1>9. ASSUME NEW p \in Phil, ThreadFail(p) PROVE ForksConserved'
  BY <1>0, <1>9, ForksFrame DEF ThreadFail, Live, proc, OwnsRight, OwnsLeft, OwnsFirst, OwnsSecond
<1>10. CASE UNCHANGED vars
  BY <1>0, <1>10, ForksFrame DEF vars, proc, Live, OwnsRight, OwnsLeft, OwnsFirst, OwnsSecond
<1> QED
  BY <1>1, <1>2, <1>3, <1>4, <1>5, <1>6, <1>7, <1>8, <1>9, <1>10 DEF Next, Main, Philosopher

-----------------------------------------------------------------------------
\* What FieldsInv says of one philosopher.
FieldsOf(q) ==
    /\ holding_right[q] <=> ShowsRight(q)
    /\ holding_left[q] <=> ShowsLeft(q)
    /\ state[q] = "EATING" <=> AtTable(q)
    /\ state[q] = "THINKING" <=> AtRest(q)

\* The fields of a philosopher depend on its own thread only.
LEMMA FieldsOfOthers ==
    ASSUME NEW q \in Phil, FieldsOf(q),
           sec'[q] = sec[q], phase'[q] = phase[q], q \in failed' <=> q \in failed,
           state'[q] = state[q], holding_left'[q] = holding_left[q],
           holding_right'[q] = holding_right[q]
    PROVE  FieldsOf(q)'
BY DEF FieldsOf, ShowsRight, ShowsLeft, ShowsFirst, ShowsSecond, AtTable, AtRest

\* Every update of the fields is the one its section calls for.
LEMMA FieldsStep == IndInv /\ [Next]_vars => FieldsInv'
<1> SUFFICES ASSUME IndInv, [Next]_vars, NEW q \in Phil PROVE FieldsOf(q)'
  BY DEF FieldsInv, FieldsOf
<1>0. TypeOK /\ PhaseInv /\ FieldsOf(q)
  BY DEF IndInv, FieldsInv, FieldsOf
<1> USE DEF ShowsRight, ShowsLeft, ShowsFirst, ShowsSecond, AtTable, AtRest
<1>1. CASE Setup \/ Join \/ Finish \/ MainFail
  BY <1>0, <1>1, FieldsOfOthers DEF Setup, Join, Finish, MainFail, fields
<1>2. CASE Create
  BY <1>0, <1>2, CreateFacts DEF Create, fields, FieldsOf, TypeOK
<1>3. ASSUME NEW p \in Phil, p # q, Philosopher(p) \/ ThreadFail(p) PROVE FieldsOf(q)'
  <2>1. /\ sec'[q] = sec[q] /\ phase'[q] = phase[q] /\ (q \in failed' <=> q \in failed)
        /\ state'[q] = state[q] /\ holding_left'[q] = holding_left[q]
        /\ holding_right'[q] = holding_right[q]
    BY <1>0, <1>3 DEF Philosopher, GrabFork, LockPrinting, ChangeState, MarkFork, PutDownRight,
       PutDownLeft, PrintRow, ThreadFail, Goto, TypeOK, fields
  <2> QED BY <1>0, <2>1, FieldsOfOthers
<1>4. CASE GrabFork(q) \/ LockPrinting(q)
  <2>1. /\ q \notin failed /\ failed' = failed /\ sec' = sec /\ UNCHANGED fields
        /\ phase[q] \in {"fork", "lock"} /\ phase'[q] \in {"lock", "write"}
    BY <1>0, <1>4 DEF GrabFork, LockPrinting, Goto, Running, TypeOK
  <2> QED BY <1>0, <2>1 DEF FieldsOf, fields
<1>5. CASE ChangeState(q)
  BY <1>0, <1>5 DEF ChangeState, Goto, NewState, StateSections, FieldsOf, TypeOK, Running
<1>6. CASE MarkFork(q)
  <2>1. CASE sec[q] = "first"
    BY <1>0, <1>6, <2>1, RightFacts DEF MarkFork, Goto, Wanted, First, Left, FieldsOf, TypeOK,
       Running, Phil
  <2>2. CASE sec[q] = "second"
    BY <1>0, <1>6, <2>2, RightFacts DEF MarkFork, Goto, Wanted, Second, Left, FieldsOf, TypeOK,
       Running, Phil
  <2> QED BY <1>6, <2>1, <2>2 DEF MarkFork, ForkSections
<1>7. CASE PutDownRight(q)
  BY <1>0, <1>7 DEF PutDownRight, Goto, FieldsOf, TypeOK, Running
<1>8. CASE PutDownLeft(q)
  BY <1>0, <1>8 DEF PutDownLeft, Goto, FieldsOf, TypeOK, Running
<1>9. CASE PrintRow(q)
  <2>1. sec[q] \in Sections
    BY <1>9, StepsWhileLive DEF PrintRow
  <2>2. /\ phase[q] = "print" /\ q \notin failed /\ failed' = failed
        /\ UNCHANGED <<state, holding_left, holding_right>>
        /\ sec'[q] = NextSec(q) /\ phase'[q] = Entry(NextSec(q))
    BY <1>0, <1>9 DEF PrintRow, Running, TypeOK
  <2>3. CASE sec[q] = "think"
    BY <1>0, <2>2, <2>3 DEF NextSec, LoopHead, Entry, ForkSections, FieldsOf
  <2>4. CASE sec[q] # "think"
    BY <1>0, <2>1, <2>2, <2>4 DEF NextSec, Successor, Entry, FieldsOf, Sections, StateSections,
       ForkSections, ReleaseSections
  <2> QED BY <2>3, <2>4
<1>10. CASE ThreadFail(q)
  <2>1. CASE phase[q] = "write" /\ sec[q] \in ReleaseSections
    BY <1>0, <1>10, <2>1 DEF ThreadFail, FieldsOf, TypeOK, Running, ReleaseSections
  <2>2. CASE phase[q] # "write"
    BY <1>0, <1>10, <2>2 DEF ThreadFail, FieldsOf, TypeOK, Running
  <2> QED BY <1>10, <2>1, <2>2 DEF ThreadFail
<1>11. CASE UNCHANGED vars
  BY <1>0, <1>11, FieldsOfOthers DEF vars, fields
<1> QED
  BY <1>1, <1>2, <1>3, <1>4, <1>5, <1>6, <1>7, <1>8, <1>9, <1>10, <1>11
     DEF Next, Main, Philosopher

-----------------------------------------------------------------------------
\* The forks a cell shows, by the section the philosopher is in.
ForksAtEntry(q) ==
    IF sec[q] = "second" THEN {First(q)}
    ELSE IF sec[q] \in {"eat", "full", "right"} THEN {Left(q), Right(q)}
    ELSE IF sec[q] = "left" THEN {Left(q)} ELSE {}

\* Outside the lock a philosopher's cell is the one its section began with.
LEMMA CellSettled ==
    ASSUME TypeOK, PhaseInv, FieldsInv, NEW q \in Phil, ~InLock(q)
    PROVE  Cell(q) = RowAtEntry(q)
<1> USE DEF FieldsInv, ShowsRight, ShowsLeft, ShowsFirst, ShowsSecond, AtTable, AtRest, InLock
<1>1. state[q] = IF sec[q] = "full" THEN "EATING"
                 ELSE IF sec[q] \in {"changing", "last"} THEN "THINKING" ELSE "CHANGING"
  BY DEF TypeOK, States
<1>2. Cell(q).forks = ForksAtEntry(q)
  BY DEF Cell, ForksAtEntry, First
<1> QED BY <1>1, <1>2 DEF Cell, RowAtEntry, ForksAtEntry

\* The cell a thread prints is the one the next section begins with.
LEMMA CellPrinted ==
    ASSUME TypeOK, TypeOK', FieldsInv, NEW p \in Phil, sec[p] \in Sections, PrintRow(p)
    PROVE  Cell(p) = RowAtEntry(p)'
<1> USE DEF FieldsInv, ShowsRight, ShowsLeft, ShowsFirst, ShowsSecond, AtTable, AtRest
<1>0. /\ phase[p] = "print" /\ sec'[p] = NextSec(p)
  BY DEF PrintRow, TypeOK
<1>1. CASE sec[p] = "think"
  <2>1. sec'[p] \in {"last", "changing"}
    BY <1>0, <1>1 DEF NextSec, LoopHead
  <2>2. Cell(p) = [state |-> "THINKING", forks |-> {}]
    BY <1>0, <1>1 DEF Cell
  <2> QED BY <2>1, <2>2 DEF RowAtEntry
<1>2. CASE sec[p] # "think"
  <2>1. sec'[p] = Successor[sec[p]]
    BY <1>0, <1>2 DEF NextSec
  <2>2. state[p] = IF sec[p] = "eat" THEN "EATING" ELSE "CHANGING"
    BY <1>0, <1>2 DEF TypeOK, States
  <2>3. Cell(p).forks = IF sec[p] = "first" THEN {First(p)}
                        ELSE IF sec[p] \in {"second", "eat", "full"} THEN {Left(p), Right(p)}
                        ELSE IF sec[p] = "right" THEN {Left(p)} ELSE {}
    BY <1>0, <1>2 DEF Cell, First
  <2>4. Cell(p).forks = ForksAtEntry(p)'
    BY <1>2, <2>1, <2>3 DEF ForksAtEntry, Successor, Sections, StateSections, ForkSections,
       ReleaseSections
  <2>5. state[p] = IF sec'[p] = "full" THEN "EATING"
                   ELSE IF sec'[p] \in {"changing", "last"} THEN "THINKING" ELSE "CHANGING"
    BY <1>2, <2>1, <2>2 DEF Successor, Sections, StateSections, ForkSections, ReleaseSections
  <2> QED BY <2>4, <2>5 DEF Cell, RowAtEntry, ForksAtEntry
<1> QED BY <1>1, <1>2

\* What RowInv says of one philosopher.
RowOf(q) == row[q] = IF q \in failed /\ phase[q] = "print" THEN Cell(q) ELSE RowAtEntry(q)

\* The printed row is never more than the one pending update behind.
LEMMA RowStep == IndInv /\ TypeOK' /\ [Next]_vars => RowInv'
<1> SUFFICES ASSUME IndInv, TypeOK', [Next]_vars, NEW q \in Phil PROVE RowOf(q)'
  BY DEF RowInv, RowOf
<1>0. TypeOK /\ PhaseInv /\ FieldsInv /\ LockInv /\ MainInv /\ RowOf(q)
  BY DEF IndInv, RowInv, RowOf
<1>1. CASE Setup
  <2>1. ~InLock(q)
    BY <1>0, <1>1 DEF Setup, MainInv, PhaseInv, InLock
  <2>2. row'[q] = RowAtEntry(q)
    BY <1>0, <1>1, <2>1, CellSettled DEF Setup
  <2>3. sec' = sec /\ phase' = phase
    BY <1>1 DEF Setup
  <2> QED BY <2>1, <2>2, <2>3 DEF RowOf, RowAtEntry, InLock
<1>2. CASE Create
  BY <1>0, <1>2, CreateFacts DEF Create, fields, RowOf, Cell, RowAtEntry, TypeOK
<1>3. CASE Join \/ Finish \/ MainFail
  BY <1>0, <1>3 DEF Join, Finish, MainFail, fields, RowOf, Cell, RowAtEntry
<1>4. ASSUME NEW p \in Phil, \/ GrabFork(p) \/ LockPrinting(p) \/ ChangeState(p) \/ MarkFork(p)
                             \/ PutDownRight(p) \/ PutDownLeft(p)
      PROVE  RowOf(q)'
  <2>1. /\ p \notin failed /\ failed' = failed /\ UNCHANGED <<sec, row>>
        /\ q # p => /\ phase'[q] = phase[q] /\ state'[q] = state[q]
                    /\ holding_left'[q] = holding_left[q] /\ holding_right'[q] = holding_right[q]
    BY <1>0, <1>4 DEF GrabFork, LockPrinting, ChangeState, MarkFork, PutDownRight, PutDownLeft,
       Goto, Running, fields, TypeOK
  <2>2. RowAtEntry(q)' = RowAtEntry(q)
    BY <2>1 DEF RowAtEntry
  <2>3. CASE q = p
    BY <1>0, <2>1, <2>2, <2>3 DEF RowOf
  <2>4. CASE q # p
    <3>1. Cell(q)' = Cell(q)
      BY <2>1, <2>4 DEF Cell
    <3> QED BY <1>0, <2>1, <2>2, <2>4, <3>1 DEF RowOf
  <2> QED BY <2>3, <2>4
<1>5. ASSUME NEW p \in Phil, PrintRow(p) PROVE RowOf(q)'
  <2>1. row'[q] = Cell(q) /\ failed' = failed /\ p \notin failed /\ InLock(p)
    BY <1>5 DEF PrintRow, Running, InLock
  <2>2. CASE q = p
    <3>1. sec[p] \in Sections
      BY <1>5, StepsWhileLive DEF PrintRow
    <3> QED BY <1>0, <1>5, <2>1, <2>2, <3>1, CellPrinted DEF RowOf
  <2>3. CASE q # p
    <3>1. ~InLock(q) /\ sec'[q] = sec[q] /\ phase'[q] = phase[q]
      BY <1>0, <1>5, <2>1, <2>3 DEF PrintRow, LockInv, TypeOK
    <3>2. row'[q] = RowAtEntry(q)
      BY <1>0, <2>1, <3>1, CellSettled
    <3> QED BY <3>1, <3>2 DEF RowOf, RowAtEntry, InLock
  <2> QED BY <2>2, <2>3
<1>6. ASSUME NEW p \in Phil, ThreadFail(p) PROVE RowOf(q)'
  <2>1. /\ p \notin failed /\ failed' = failed \cup {p} /\ UNCHANGED <<sec, phase, state>>
    BY <1>6 DEF ThreadFail, Running
  <2>2. CASE phase[p] = "print"
    <3>1. row'[q] = Cell(q) /\ UNCHANGED <<holding_left, holding_right>>
      BY <1>6, <2>2 DEF ThreadFail
    <3>2. CASE q = p
      BY <2>1, <2>2, <3>1, <3>2 DEF RowOf, Cell
    <3>3. CASE q # p
      <4>1. ~InLock(q)
        BY <1>0, <2>2, <3>3 DEF LockInv, InLock
      <4> QED BY <1>0, <2>1, <3>1, <4>1, CellSettled DEF RowOf, RowAtEntry, InLock
    <3> QED BY <3>2, <3>3
  <2>3. CASE phase[p] # "print"
    <3>1. /\ row' = row
          /\ q # p => /\ holding_left'[q] = holding_left[q]
                      /\ holding_right'[q] = holding_right[q]
      BY <1>0, <1>6, <2>3 DEF ThreadFail, TypeOK
    <3> QED BY <1>0, <2>1, <2>3, <3>1 DEF RowOf, Cell, RowAtEntry
  <2> QED BY <2>2, <2>3
<1>7. CASE UNCHANGED vars
  BY <1>0, <1>7 DEF vars, fields, RowOf, Cell, RowAtEntry
<1> QED
  BY <1>1, <1>2, <1>3, <1>4, <1>5, <1>6, <1>7 DEF Next, Main, Philosopher

-----------------------------------------------------------------------------
\* Before main() has done anything no thread owns, holds or shows anything.
LEMMA InitInv == Init => IndInv
<1> SUFFICES ASSUME Init PROVE IndInv
  OBVIOUS
<1>1. TypeOK
  BY InitType
<1>2. PhaseInv /\ LockInv
  BY DEF Init, PhaseInv, LockInv, InLock, Live
<1>3. ForksConserved
  BY RightFacts DEF Init, ForksConserved, Live, OwnsRight, OwnsLeft, OwnsFirst, OwnsSecond
<1>4. FieldsInv /\ RowInv
  BY DEF Init, FieldsInv, ShowsRight, ShowsLeft, ShowsFirst, ShowsSecond, AtTable, AtRest,
     RowInv, RowAtEntry
<1>5. CyclesInv /\ MainInv
  BY DEF Init, CyclesInv, MainInv, Sections, StateSections, ForkSections, ReleaseSections
<1> QED BY <1>1, <1>2, <1>3, <1>4, <1>5 DEF IndInv

\* Each part of the invariant survives every step, given all parts before it.
LEMMA NextInv == IndInv /\ [Next]_vars => IndInv'
BY TypeStep, LockStep, PhaseStep, MainStep, CyclesStep, ForksStep, FieldsStep, RowStep DEF IndInv

\* IndInv holds in every reachable state: the control points of philosopher()
\* and main() determine the semaphores, the fields and the printed row.
THEOREM Invariance == Spec => []IndInv
BY InitInv, NextInv, PTL DEF Spec

\* Types of all variables of dine.c, whatever fails.
THEOREM TypeCorrect == Spec => []TypeOK
<1>1. IndInv => TypeOK
  BY DEF IndInv
<1> QED BY <1>1, Invariance, PTL

\* The fork semaphores lose no fork and hand none out twice, for every N.
THEOREM ForkSafety == Spec => []ForksConserved
<1>1. IndInv => ForksConserved
  BY DEF IndInv
<1> QED BY <1>1, Invariance, PTL

-----------------------------------------------------------------------------
\* Whoever eats, or is shown eating, has taken both forks.
LEMMA EatersOwn ==
    ASSUME IndInv, NEW p \in Phil,
           state[p] = "EATING" \/ row[p].state = "EATING"
    PROVE  OwnsRight(p) /\ OwnsLeft(p)
<1>1. state[p] = "EATING" => sec[p] \in {"eat", "full"}
  BY DEF IndInv, FieldsInv, AtTable
<1>2. row[p].state = "EATING" => sec[p] \in {"eat", "full"}
  <2>1. row[p] = Cell(p) \/ row[p] = RowAtEntry(p)
    BY DEF IndInv, RowInv
  <2>2. Cell(p).state = state[p]
    BY DEF Cell
  <2>3. RowAtEntry(p).state = "EATING" => sec[p] = "full"
    BY DEF RowAtEntry
  <2> QED BY <1>1, <2>1, <2>2, <2>3
<1> QED BY <1>1, <1>2 DEF OwnsRight, OwnsLeft, OwnsFirst, OwnsSecond

\* "must ensure that neighboring philosophers are never eating simultaneously",
\* for every number of philosophers and whatever semaphore calls fail.
THEOREM MutualExclusion == Spec => []NeighboursNeverEat
<1>1. IndInv => NeighboursNeverEat
  <2> SUFFICES ASSUME IndInv, NEW p \in Phil
               PROVE  /\ ~(state[p] = "EATING" /\ state[Right(p)] = "EATING")
                      /\ ~(row[p].state = "EATING" /\ row[Right(p)].state = "EATING")
    BY DEF NeighboursNeverEat
  <2>1. Right(p) \in Phil /\ ~(OwnsRight(p) /\ OwnsLeft(Right(p)))
    BY RightFacts DEF IndInv, ForksConserved
  <2> QED BY <2>1, EatersOwn
<1> QED BY <1>1, Invariance, PTL

\* main() returns 0 only over a table that has been cleared by everybody.
THEOREM ExitIsHonest == Spec => []ExitHonest
<1>1. IndInv => ExitHonest
  <2> SUFFICES ASSUME IndInv, exit_code = 0 PROVE ExitHonest
    BY DEF ExitHonest
  <2>1. \A p \in Phil : sec[p] = "done" /\ phase[p] = "none" /\ cycles_left[p] = 0
    BY DEF IndInv, MainInv, PhaseInv, CyclesInv
  <2>2. \A p \in Phil : ~OwnsRight(p) /\ ~OwnsLeft(p)
    BY <2>1 DEF OwnsRight, OwnsLeft, OwnsFirst, OwnsSecond
  <2>3. ASSUME NEW f \in Fork PROVE forks[f] = 1
    <3>1. PICK p \in Phil : Right(p) = f
      BY RightFacts DEF Phil, Fork
    <3>2. f \in Phil
      BY DEF Phil, Fork
    <3>3. forks[f] # 0
      BY <2>2, <3>1, <3>2 DEF IndInv, ForksConserved, Live
    <3> QED BY <3>3 DEF IndInv, TypeOK
  <2>4. printing = 1
    BY <2>1 DEF IndInv, LockInv, InLock, Live, TypeOK
  <2>5. \A p \in Phil : row[p] = [state |-> "CHANGING", forks |-> {}]
    BY <2>1 DEF IndInv, RowInv, RowAtEntry
  <2> QED BY <2>1, <2>3, <2>4, <2>5 DEF ExitHonest
<1> QED BY <1>1, Invariance, PTL

-----------------------------------------------------------------------------
\* Who keeps whom waiting: if p waits for its second fork, the neighbour that
\* has it took it as its own first fork, unless that neighbour can move.
LEMMA SecondForkBlocked ==
    ASSUME IndInv, Live, NEW p \in Phil, sec[p] = "second", phase[p] = "fork",
           forks[Second(p)] = 0,
           \A q \in Phil : phase[q] \in {"fork", "none"}
    PROVE  \E q \in Phil : /\ sec[q] = "second" /\ phase[q] = "fork"
                           /\ First(q) = Second(p) /\ q # p
<1>0. \A q \in Phil : /\ OwnsRight(q) => sec[q] = "second" /\ q % 2 = 0
                      /\ OwnsLeft(q) => sec[q] = "second" /\ q % 2 = 1
                      /\ sec[q] = "second" => phase[q] = "fork"
  <2> SUFFICES ASSUME NEW q \in Phil
               PROVE  /\ OwnsRight(q) => sec[q] = "second" /\ q % 2 = 0
                      /\ OwnsLeft(q) => sec[q] = "second" /\ q % 2 = 1
                      /\ sec[q] = "second" => phase[q] = "fork"
    OBVIOUS
  <2>1. q % 2 = 0 \/ q % 2 = 1
    BY NAssumption DEF Phil
  <2>2. sec[q] \in {"unborn", "done", "first", "second"}
    BY DEF IndInv, PhaseInv, ForkSections, TypeOK
  <2>3. sec[q] \in {"unborn", "done"} <=> phase[q] = "none"
    BY DEF IndInv, PhaseInv
  <2> QED BY <2>1, <2>2, <2>3 DEF OwnsRight, OwnsLeft, OwnsFirst, OwnsSecond
<1>1. CASE p % 2 = 0
  <2>1. PICK q \in Phil : Right(q) = p
    BY RightFacts
  <2>2. OwnsRight(q) \/ OwnsLeft(p)
    BY <1>1, <2>1 DEF IndInv, ForksConserved, Second, Left
  <2>3. OwnsRight(q)
    BY <1>0, <1>1, <2>2
  <2> QED BY <1>0, <1>1, <2>1, <2>3, RightFacts DEF First, Second, Left
<1>2. CASE p % 2 # 0
  <2>1. OwnsRight(p) \/ OwnsLeft(Right(p))
    BY <1>2 DEF IndInv, ForksConserved, Second
  <2>2. Right(p) \in Phil /\ OwnsLeft(Right(p)) /\ Right(p) # p
    BY <1>0, <1>2, <2>1, RightFacts
  <2>3. First(Right(p)) = Right(p)
    BY <1>0, <2>2 DEF First, Left
  <2> QED BY <1>0, <1>2, <2>2, <2>3 DEF Second
<1> QED BY <1>1, <1>2

\* Two neighbours whose first fork is the other's second are both even and sit
\* across the wrap of an odd table.
LEMMA OrderOfForks ==
    ASSUME NEW p \in Phil, NEW q \in Phil, First(q) = Second(p), q # p
    PROVE  p = 0 /\ q = N - 1 /\ q % 2 = 0
<1>1. /\ Right(p) = IF p + 1 = N THEN 0 ELSE p + 1
      /\ Right(q) = IF q + 1 = N THEN 0 ELSE q + 1
  BY RightFacts
<1> QED BY <1>1, NAssumption DEF First, Second, Left, Phil

\* "Your program must avoid deadlock": no number of philosophers and no
\* interleaving stops the program before it exits, as long as no thread fails.
THEOREM NoDeadlock == Spec => []DeadlockFree
<1>1. IndInv => DeadlockFree
  <2> SUFFICES ASSUME IndInv, main # "exited", failed = {}, ~MainCanMove,
                      \A p \in Phil : ~CanMove(p)
               PROVE  FALSE
    BY DEF DeadlockFree
  <2>1. main = "join" /\ joined \in Phil /\ sec[joined] \notin {"done", "unborn"} /\ Live
    BY NAssumption DEF MainCanMove, IndInv, TypeOK, MainInv, Phil, Live
  <2>2. \A p \in Phil : phase[p] \notin {"write", "print"}
    BY DEF CanMove, Running
  <2>3. printing = 1
    BY <2>1, <2>2 DEF IndInv, LockInv, InLock, TypeOK
  <2>4. \A p \in Phil : phase[p] \in {"fork", "none"}
    BY <2>2, <2>3 DEF CanMove, Running, IndInv, TypeOK, Phases
  <2>5. \A p \in Phil : phase[p] = "fork" => forks[Wanted(p)] = 0 /\ sec[p] \in ForkSections
    BY ForkChoice DEF CanMove, Running, IndInv, TypeOK, PhaseInv
  <2>6. ASSUME NEW p \in Phil, sec[p] = "second" PROVE FALSE
    <3>0. phase[p] = "fork" /\ forks[Second(p)] = 0
      BY <2>4, <2>5, <2>6 DEF IndInv, PhaseInv, Wanted
    <3>1. PICK q \in Phil : sec[q] = "second" /\ phase[q] = "fork" /\ First(q) = Second(p) /\ q # p
      BY <2>1, <2>4, <2>6, <3>0, SecondForkBlocked
    <3>2. forks[Second(q)] = 0
      BY <2>5, <3>1 DEF Wanted
    <3>3. PICK r \in Phil : sec[r] = "second" /\ phase[r] = "fork" /\ First(r) = Second(q) /\ r # q
      BY <2>1, <2>4, <3>1, <3>2, SecondForkBlocked
    <3>4. p = 0 /\ q = N - 1
      BY <3>1, OrderOfForks
    <3>5. q = 0
      BY <3>3, OrderOfForks
    <3> QED BY <3>4, <3>5, NAssumption
  <2>7. \A p \in Phil : ~OwnsRight(p) /\ ~OwnsLeft(p)
    BY <2>4, <2>5, <2>6 DEF IndInv, PhaseInv, ForkSections, OwnsRight, OwnsLeft, OwnsFirst,
       OwnsSecond
  <2>8. ASSUME NEW f \in Fork PROVE forks[f] # 0
    <3>1. PICK p \in Phil : Right(p) = f
      BY RightFacts DEF Phil, Fork
    <3> QED BY <2>1, <2>7, <3>1, RightFacts DEF IndInv, ForksConserved
  <2>9. phase[joined] = "fork"
    BY <2>1, <2>4 DEF IndInv, PhaseInv
  <2> QED BY <2>1, <2>5, <2>8, <2>9, ForkChoice
<1> QED BY <1>1, Invariance, PTL

-----------------------------------------------------------------------------
\* A fork shown in a settled row is owned by the philosopher it is shown with.
LEMMA ShownForksOwned ==
    ASSUME IndInv, NEW q \in Phil, ~InLock(q)
    PROVE  /\ Right(q) \in row[q].forks => OwnsRight(q)
           /\ Left(q) \in row[q].forks => OwnsLeft(q)
           /\ row[q].forks \subseteq {Left(q), Right(q)}
<1>1. row[q].forks = ForksAtEntry(q)
  <2>1. row[q] = RowAtEntry(q)
    BY DEF IndInv, RowInv, InLock
  <2> QED BY <2>1 DEF RowAtEntry, ForksAtEntry
<1>2. Left(q) # Right(q) /\ (First(q) = Left(q) <=> q % 2 # 0) /\ (First(q) = Right(q) <=> q % 2 = 0)
  BY ForkChoice DEF First
<1> QED BY <1>1, <1>2 DEF InLock, ForksAtEntry, First, OwnsRight, OwnsLeft, OwnsFirst, OwnsSecond

\* A philosopher about to be shown with a fork is the only one with it.
LEMMA WantedIsFree ==
    ASSUME IndInv, NEW p \in Phil, sec[p] \in ForkSections, phase[p] = "print", p \notin failed
    PROVE  Shown!Free(Wanted(p))
<1> SUFFICES ASSUME NEW q \in Phil PROVE Wanted(p) \notin row[q].forks
  BY DEF Shown!Free, Shown!Seat, Phil
<1>0. IF Wanted(p) = Right(p) THEN OwnsRight(p) ELSE OwnsLeft(p)
  BY RightFacts DEF Wanted, First, Second, Left, ForkSections, OwnsRight, OwnsLeft, OwnsFirst,
     OwnsSecond
<1>1. CASE q = p
  <2>1. row[p] = RowAtEntry(p)
    BY DEF IndInv, RowInv
  <2> QED BY <1>1, <2>1, ForkChoice DEF RowAtEntry, Wanted, First, Second, ForkSections
<1>2. CASE q # p
  <2>1. ~InLock(q)
    BY <1>2 DEF IndInv, LockInv, InLock
  <2>2. /\ Right(q) \in row[q].forks => OwnsRight(q)
        /\ q \in row[q].forks => OwnsLeft(q)
        /\ row[q].forks \subseteq {q, Right(q)}
    BY <2>1, ShownForksOwned DEF Left
  <2>3. CASE Wanted(p) = Right(p)
    <3>1. ~OwnsLeft(Right(p)) /\ Right(q) # Right(p)
      BY <1>0, <1>2, <2>3, RightFacts DEF IndInv, ForksConserved
    <3> QED BY <2>2, <2>3, <3>1
  <2>4. CASE Wanted(p) = p
    <3>1. Right(q) = p => ~OwnsRight(q)
      BY <1>0, <2>4, RightFacts DEF IndInv, ForksConserved
    <3> QED BY <1>2, <2>2, <2>4, <3>1
  <2> QED BY <2>3, <2>4 DEF Wanted, First, Second, Left
<1> QED BY <1>1, <1>2

\* The cells of a row before and after thread p prints.
LEMMA PrintChangesOneCell ==
    ASSUME IndInv, NEW p \in Phil, p \notin failed, phase[p] = "print",
           row' = [q \in Phil |-> Cell(q)]
    PROVE  /\ row' = [row EXCEPT ![p] = Cell(p)]
           /\ row[p] = RowAtEntry(p)
<1>1. \A q \in Phil : q # p => row[q] = Cell(q)
  <2> SUFFICES ASSUME NEW q \in Phil, q # p PROVE row[q] = Cell(q)
    OBVIOUS
  <2>1. ~InLock(q)
    BY DEF IndInv, LockInv, InLock
  <2> QED BY <2>1, CellSettled DEF IndInv, RowInv, InLock
<1>2. row \in [Phil -> [state : States, forks : SUBSET Fork]]
  BY DEF IndInv, TypeOK
<1>3. row[p] = RowAtEntry(p)
  BY DEF IndInv, RowInv
<1> QED BY <1>1, <1>2, <1>3

\* The cell of thread p before and after it prints, by its section.
LEMMA CellOfPrinter ==
    ASSUME IndInv, NEW p \in Phil, p \notin failed, phase[p] = "print"
    PROVE  LET Moves(st1, fs1, st2, fs2) == /\ RowAtEntry(p) = [state |-> st1, forks |-> fs1]
                                            /\ Cell(p) = [state |-> st2, forks |-> fs2]
               Both == {Left(p), Right(p)}
           IN  /\ sec[p] = "first" => Moves("CHANGING", {}, "CHANGING", {First(p)})
               /\ sec[p] = "second" => Moves("CHANGING", {First(p)}, "CHANGING", Both)
               /\ sec[p] = "eat" => Moves("CHANGING", Both, "EATING", Both)
               /\ sec[p] = "full" => Moves("EATING", Both, "CHANGING", Both)
               /\ sec[p] = "right" => Moves("CHANGING", Both, "CHANGING", {Left(p)})
               /\ sec[p] = "left" => Moves("CHANGING", {Left(p)}, "CHANGING", {})
               /\ sec[p] = "think" => Moves("CHANGING", {}, "THINKING", {})
               /\ sec[p] \in {"changing", "last"} => Moves("THINKING", {}, "CHANGING", {})
<1> USE DEF FieldsInv, ShowsRight, ShowsLeft, ShowsFirst, ShowsSecond, AtTable, AtRest
<1>1. /\ state[p] = IF sec[p] = "eat" THEN "EATING"
                    ELSE IF sec[p] = "think" THEN "THINKING" ELSE "CHANGING"
      /\ holding_right[p] <=> ShowsRight(p)
      /\ holding_left[p] <=> ShowsLeft(p)
  BY ForkChoice DEF IndInv, TypeOK, States
<1>2. Cell(p) = [state |-> state[p], forks |-> Cell(p).forks]
  BY DEF Cell
<1>3. Cell(p).forks = IF sec[p] = "first" THEN {First(p)}
                      ELSE IF sec[p] \in {"second", "eat", "full"} THEN {Left(p), Right(p)}
                      ELSE IF sec[p] = "right" THEN {Left(p)} ELSE {}
  BY <1>1 DEF Cell, First
<1> QED BY <1>1, <1>2, <1>3 DEF RowAtEntry

\* One print of thread p (whether or not its unlock then fails) is one step of
\* Table.
LEMMA PrintIsTableStep ==
    ASSUME IndInv, NEW p \in Phil, p \notin failed, phase[p] = "print",
           row' = [q \in Phil |-> Cell(q)],
           \A q \in Phil : q # p => (Full(q)' <=> Full(q)),
           Full(p)' <=> sec[p] \in {"full", "right", "left"}
    PROVE  Shown!Next
<1> DEFINE full == {q \in Phil : Full(q)}
           both == {Left(p), Right(p)}
<1>0. /\ row' = [row EXCEPT ![p] = Cell(p)]
      /\ row[p] = RowAtEntry(p)
      /\ p \in Shown!Seat
      /\ Shown!LeftFork(p) = Left(p) /\ Shown!RightFork(p) = Right(p)
  BY PrintChangesOneCell DEF Shown!Seat, Phil, Shown!LeftFork, Shown!RightFork, Left, Right
<1>1. p \in full <=> sec[p] \in {"right", "left", "think"}
  BY DEF Full
<1>2. sec[p] \in {"first", "second", "eat", "right", "left", "changing", "last"} => full' = full
  BY <1>1
<1>3. sec[p] = "full" => full' = full \cup {p}
  OBVIOUS
<1>4. sec[p] = "think" => full' = full \ {p}
  OBVIOUS
<1>5. CASE sec[p] \in ForkSections
  <2>1. Shown!Free(Wanted(p)) /\ Wanted(p) \in {Shown!LeftFork(p), Shown!RightFork(p)}
    BY <1>0, <1>5, WantedIsFree DEF Wanted, First, Second
  <2>2. row[p].state = "CHANGING" /\ Cell(p) = [state |-> "CHANGING",
                                                forks |-> row[p].forks \cup {Wanted(p)}]
    BY <1>0, <1>5, CellOfPrinter DEF ForkSections, Wanted, First, Second
  <2>3. Shown!PickUp(p)
    BY <1>0, <1>1, <1>2, <1>5, <2>1, <2>2 DEF Shown!PickUp, Shown!Show, ForkSections
  <2> QED BY <1>0, <2>3 DEF Shown!Next
<1>6. CASE sec[p] = "eat"
  <2>0. /\ row[p] = [state |-> "CHANGING", forks |-> both]
        /\ Cell(p) = [state |-> "EATING", forks |-> both]
    BY <1>0, <1>6, CellOfPrinter
  <2>1. row[p].state = "CHANGING" /\ Cell(p) = [state |-> "EATING", forks |-> row[p].forks]
    BY <2>0
  <2>2. Shown!Show(p, "EATING", row[p].forks)
    BY <1>0, <2>1 DEF Shown!Show
  <2>3. Shown!Eat(p)
    BY <1>0, <1>1, <1>2, <1>6, <2>0, <2>1, <2>2 DEF Shown!Eat
  <2> QED BY <1>0, <2>3 DEF Shown!Next
<1>7. CASE sec[p] = "full"
  <2>0. /\ row[p] = [state |-> "EATING", forks |-> both]
        /\ Cell(p) = [state |-> "CHANGING", forks |-> both]
    BY <1>0, <1>7, CellOfPrinter
  <2>1. row[p].state = "EATING" /\ Cell(p) = [state |-> "CHANGING", forks |-> row[p].forks]
    BY <2>0
  <2>2. Shown!Show(p, "CHANGING", row[p].forks)
    BY <1>0, <2>1 DEF Shown!Show
  <2>3. Shown!Leave(p)
    BY <1>0, <1>3, <1>7, <2>0, <2>1, <2>2 DEF Shown!Leave
  <2> QED BY <1>0, <2>3 DEF Shown!Next
<1>8. CASE sec[p] \in ReleaseSections
  <2>1. \E f \in row[p].forks : Cell(p) = [state |-> "CHANGING", forks |-> row[p].forks \ {f}]
    <3>1. CASE sec[p] = "right"
      <4>1. /\ Right(p) \in row[p].forks
            /\ Cell(p) = [state |-> "CHANGING", forks |-> row[p].forks \ {Right(p)}]
        BY <1>0, <3>1, CellOfPrinter, ForkChoice
      <4> QED BY <4>1
    <3>2. CASE sec[p] = "left"
      <4>1. /\ Left(p) \in row[p].forks
            /\ Cell(p) = [state |-> "CHANGING", forks |-> row[p].forks \ {Left(p)}]
        BY <1>0, <3>2, CellOfPrinter
      <4> QED BY <4>1
    <3> QED BY <1>8, <3>1, <3>2 DEF ReleaseSections
  <2>2. row[p].state = "CHANGING"
    BY <1>0, <1>8, CellOfPrinter DEF ReleaseSections
  <2>3. Shown!PutDown(p)
    BY <1>0, <1>1, <1>2, <1>8, <2>1, <2>2 DEF Shown!PutDown, Shown!Show, ReleaseSections
  <2> QED BY <1>0, <2>3 DEF Shown!Next
<1>9. CASE sec[p] = "think"
  <2>0. /\ row[p] = [state |-> "CHANGING", forks |-> {}]
        /\ Cell(p) = [state |-> "THINKING", forks |-> {}]
    BY <1>0, <1>9, CellOfPrinter
  <2>1. row[p].state = "CHANGING" /\ Cell(p) = [state |-> "THINKING", forks |-> row[p].forks]
    BY <2>0
  <2>2. Shown!Show(p, "THINKING", row[p].forks)
    BY <1>0, <2>1 DEF Shown!Show
  <2>3. Shown!Think(p)
    BY <1>0, <1>1, <1>4, <1>9, <2>0, <2>1, <2>2 DEF Shown!Think
  <2> QED BY <1>0, <2>3 DEF Shown!Next
<1>10. CASE sec[p] \in {"changing", "last"}
  <2>0. /\ row[p] = [state |-> "THINKING", forks |-> {}]
        /\ Cell(p) = [state |-> "CHANGING", forks |-> {}]
    BY <1>0, <1>10, CellOfPrinter
  <2>1. row[p].state = "THINKING" /\ Cell(p) = [state |-> "CHANGING", forks |-> row[p].forks]
    BY <2>0
  <2>2. Shown!Show(p, "CHANGING", row[p].forks)
    BY <1>0, <2>1 DEF Shown!Show
  <2>3. Shown!Change(p)
    BY <1>0, <1>2, <1>10, <2>0, <2>1, <2>2 DEF Shown!Change
  <2> QED BY <1>0, <2>3 DEF Shown!Next
<1>11. sec[p] \in Sections
  BY DEF IndInv, TypeOK, PhaseInv
<1> QED
  BY <1>5, <1>6, <1>7, <1>8, <1>9, <1>10, <1>11 DEF Sections, StateSections

\* dine.c implements Table: whatever the interleaving, and whatever semaphore
\* calls fail, each printed row is one legal change away from the row before.
THEOREM RowsAreLegal == Spec => ShownSpec
<1>1. Init => Shown!Init
  <2> SUFFICES ASSUME Init PROVE Shown!Init
    OBVIOUS
  <2>1. \A p \in Phil : ~Full(p)
    BY DEF Init, Full
  <2> QED BY <2>1 DEF Init, Shown!Init, Shown!Seat, Phil
<1>2. IndInv /\ [Next]_vars => [Shown!Next]_<<row, {p \in Phil : Full(p)}>>
  <2> SUFFICES ASSUME IndInv, [Next]_vars
               PROVE  Shown!Next \/ UNCHANGED <<row, {p \in Phil : Full(p)}>>
    OBVIOUS
  <2>0. TypeOK /\ PhaseInv /\ MainInv
    BY DEF IndInv
  <2>1. CASE Setup
    <3>1. \A q \in Phil : Full(q)' <=> Full(q)
      BY <2>1 DEF Setup, Full
    <3>2. \A q \in Phil : row'[q] = row[q]
      <4> SUFFICES ASSUME NEW q \in Phil PROVE row'[q] = row[q]
        OBVIOUS
      <4>1. ~InLock(q)
        BY <2>0, <2>1 DEF Setup, MainInv, PhaseInv, InLock
      <4>2. row[q] = RowAtEntry(q) /\ Cell(q) = RowAtEntry(q)
        BY <4>1, CellSettled DEF IndInv, RowInv, InLock
      <4> QED BY <2>1, <4>2 DEF Setup
    <3>3. row' = row
      BY <2>0, <2>1, <3>2 DEF Setup, TypeOK
    <3> QED BY <3>1, <3>3
  <2>2. CASE Create
    BY <2>0, <2>2, CreateFacts DEF Create, Full, TypeOK
  <2>3. CASE Join \/ Finish \/ MainFail
    BY <2>3 DEF Join, Finish, MainFail, Full
  <2>4. ASSUME NEW p \in Phil, PrintRow(p) PROVE Shown!Next
    <3>0. /\ p \notin failed /\ failed' = failed /\ phase[p] = "print" /\ sec[p] \in Sections
          /\ row' = [q \in Phil |-> Cell(q)]
          /\ sec'[p] = NextSec(p) /\ phase'[p] = Entry(NextSec(p))
          /\ \A q \in Phil : q # p => sec'[q] = sec[q] /\ phase'[q] = phase[q]
      BY <2>0, <2>4, StepsWhileLive DEF PrintRow, Running, TypeOK
    <3>1. \A q \in Phil : q # p => (Full(q)' <=> Full(q))
      BY <3>0 DEF Full
    <3>2. Full(p)' <=> sec[p] \in {"full", "right", "left"}
      BY <3>0 DEF Full, NextSec, LoopHead, Successor, Sections, StateSections, ForkSections,
         ReleaseSections
    <3> QED BY <3>0, <3>1, <3>2, PrintIsTableStep
  <2>5. ASSUME NEW p \in Phil, \/ GrabFork(p) \/ LockPrinting(p) \/ ChangeState(p) \/ MarkFork(p)
                               \/ PutDownRight(p) \/ PutDownLeft(p)
        PROVE  UNCHANGED <<row, {q \in Phil : Full(q)}>>
    <3>1. /\ p \notin failed /\ UNCHANGED <<row, sec, failed>>
          /\ \A q \in Phil : q # p => phase'[q] = phase[q]
      BY <2>0, <2>5 DEF GrabFork, LockPrinting, ChangeState, MarkFork, PutDownRight,
         PutDownLeft, Goto, Running, TypeOK
    <3> QED BY <3>1 DEF Full
  <2>6. ASSUME NEW p \in Phil, ThreadFail(p), phase[p] = "print" PROVE Shown!Next
    <3>0. /\ p \notin failed /\ failed' = failed \cup {p} /\ UNCHANGED <<sec, phase>>
          /\ row' = [q \in Phil |-> Cell(q)]
      BY <2>6 DEF ThreadFail, Running
    <3>1. \A q \in Phil : q # p => (Full(q)' <=> Full(q))
      BY <3>0 DEF Full
    <3>2. Full(p)' <=> sec[p] \in {"full", "right", "left"}
      BY <2>6, <3>0 DEF Full
    <3> QED BY <2>6, <3>0, <3>1, <3>2, PrintIsTableStep
  <2>7. ASSUME NEW p \in Phil, ThreadFail(p), phase[p] # "print"
        PROVE  UNCHANGED <<row, {q \in Phil : Full(q)}>>
    <3>1. failed' = failed \cup {p} /\ UNCHANGED <<row, sec, phase>>
      BY <2>7 DEF ThreadFail
    <3> QED BY <2>7, <3>1 DEF Full
  <2>8. CASE UNCHANGED vars
    BY <2>8 DEF vars, Full
  <2> QED
    BY <2>1, <2>2, <2>3, <2>4, <2>5, <2>6, <2>7, <2>8 DEF Next, Main, Philosopher
<1> QED BY <1>1, <1>2, Invariance, PTL DEF Spec, ShownSpec, Shown!Spec
=============================================================================
