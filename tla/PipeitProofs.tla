---------------------------- MODULE PipeitProofs ----------------------------
(***************************************************************************)
(* Proofs about Pipeit for every number of lines and every size of pipe.   *)
(***************************************************************************)
EXTENDS Pipeit, TLAPS

USE DEF Child, SIGNALED

\* The invariant holds when main() starts.
LEMMA InitInv == Init => IndInv
BY LinesAssumption
   DEF Init, IndInv, TypeOK, ChildrenInv, DataInv, WaitInv, Forked

\* What the end of a child leaves behind has the right type.
LEMMA EndType ==
    ASSUME TypeOK, NEW c \in Child, NEW s \in {0, 1, SIGNALED}, End(c, s)
    PROVE  /\ child' \in [Child -> {"none", "close", "exec", "run", "ended"}]
           /\ status' \in [Child -> {-1, 0, 1, SIGNALED}]
           /\ readers' \subseteq Child \cup {"parent"}
           /\ writers' \subseteq Child \cup {"parent"}
<1>1. status' \in [Child -> {-1, 0, 1, SIGNALED}]
  BY DEF TypeOK, End
<1> QED BY <1>1 DEF TypeOK, End

\* So has what a fork makes.
LEMMA ForkType ==
    ASSUME TypeOK, NEW c \in Child, NEW next, Fork(c, next)
    PROVE  /\ child' \in [Child -> {"none", "close", "exec", "run", "ended"}]
           /\ readers' \subseteq Child \cup {"parent"}
           /\ writers' \subseteq Child \cup {"parent"}
           /\ parent' = next /\ code' = code
<1>1. child' \in [Child -> {"none", "close", "exec", "run", "ended"}]
  BY DEF TypeOK, Fork
<1>2. readers' \subseteq Child \cup {"parent"} /\ writers' \subseteq Child \cup {"parent"}
  BY DEF TypeOK, Fork
<1> QED BY <1>1, <1>2 DEF Fork

\* The variables keep their types; the pipe never holds more than it can.
LEMMA TypeStep == TypeOK /\ [Next]_vars => TypeOK'
<1> SUFFICES ASSUME TypeOK, [Next]_vars PROVE TypeOK'
  OBVIOUS
<1> USE LinesAssumption DEF TypeOK, ends, data, Others
<1>1. CASE MakePipe
  BY <1>1 DEF MakePipe, Exit
<1>2. CASE ForkLs
  <2>1. CASE Fork("ls", "fork_sort")
    BY <1>2, <2>1, ForkType DEF ForkLs
  <2>2. CASE Exit(1) /\ UNCHANGED child
    BY <1>2, <2>2 DEF ForkLs, Exit
  <2> QED BY <1>2, <2>1, <2>2 DEF ForkLs
<1>3. CASE ForkSort
  <2>1. CASE Fork("sort", "close")
    BY <1>3, <2>1, ForkType DEF ForkSort
  <2>2. CASE parent' = "close" /\ UNCHANGED <<child, code, ends>>
    BY <1>3, <2>2 DEF ForkSort
  <2> QED BY <1>3, <2>1, <2>2 DEF ForkSort
<1>4. CASE ClosePipe
  BY <1>4 DEF ClosePipe
<1>5. CASE Wait
  BY <1>5 DEF Wait, Exit, Forked
<1>6. ASSUME NEW c \in Child, CloseUnused(c) PROVE TypeOK'
  BY <1>6 DEF CloseUnused
<1>7. ASSUME NEW c \in Child, Exec(c) PROVE TypeOK'
  <2>1. outfile' \in -1 .. Lines
    BY <1>7 DEF Exec
  <2>2. CASE End(c, 1)
    BY <1>7, <2>1, <2>2, EndType DEF Exec
  <2>3. CASE child' = [child EXCEPT ![c] = "run"] /\ UNCHANGED <<status, ends>>
    BY <1>7, <2>1, <2>3 DEF Exec
  <2> QED BY <1>7, <2>2, <2>3 DEF Exec
<1>8. CASE LsWrites
  <2>1. CASE readers = {}
    BY <1>8, <2>1, EndType DEF LsWrites
  <2>2. CASE readers # {}
    <3>1. /\ UNCHANGED <<parent, code, ignored, reaped, child, status, readers, writers>>
          /\ UNCHANGED <<received, outfile>>
          /\ sent' = sent + 1 /\ sent < Lines /\ sent - received < PipeSize
      BY <1>8, <2>2 DEF LsWrites
    <3>2. sent' \in 0 .. Lines /\ sent' - received' \in 0 .. PipeSize
      BY <3>1
    <3> QED BY <3>1, <3>2
  <2> QED BY <2>1, <2>2
<1>9. CASE LsEnds
  BY <1>9, EndType DEF LsEnds
<1>10. CASE SortReads
  BY <1>10 DEF SortReads
<1>11. CASE SortEnds
  BY <1>11, EndType DEF SortEnds
<1>12. ASSUME NEW c \in Child, GivesUp(c) PROVE TypeOK'
  BY <1>12, EndType DEF GivesUp
<1>13. CASE WaitFails
  BY <1>13 DEF WaitFails, Exit
<1>14. CASE UNCHANGED vars
  BY <1>14 DEF vars
<1> QED
  BY <1>1, <1>2, <1>3, <1>4, <1>5, <1>6, <1>7, <1>8, <1>9, <1>10, <1>11, <1>12, <1>13,
     <1>14 DEF Next, Parent, Ls, Sort

\* A step of the parent keeps the invariant.
LEMMA ParentStep == IndInv /\ TypeOK' /\ Parent => ChildrenInv' /\ DataInv' /\ WaitInv'
<1> SUFFICES ASSUME IndInv, TypeOK', Parent PROVE ChildrenInv' /\ DataInv' /\ WaitInv'
  OBVIOUS
<1> USE DEF IndInv, TypeOK, ends, data, ChildrenInv, DataInv, WaitInv, Forked
<1>1. CASE MakePipe
  BY <1>1 DEF MakePipe, Exit
<1>2. CASE ForkLs
  BY <1>2 DEF ForkLs, Fork, Exit
<1>3. CASE ForkSort
  BY <1>3 DEF ForkSort, Fork
<1>4. CASE ClosePipe
  BY <1>4 DEF ClosePipe
<1>5. CASE Wait
  BY <1>5 DEF Wait, Exit
<1>6. CASE WaitFails
  BY <1>6 DEF WaitFails, Exit
<1> QED
  BY <1>1, <1>2, <1>3, <1>4, <1>5, <1>6 DEF Parent

\* So does a step of a child.
LEMMA ChildStep ==
    ASSUME IndInv, TypeOK', Ls \/ Sort \/ \E c \in Child : GivesUp(c)
    PROVE  ChildrenInv' /\ DataInv' /\ WaitInv'
<1> USE DEF IndInv, TypeOK, ends, data, Others, ChildrenInv, DataInv, WaitInv, Forked
<1>1. ASSUME NEW c \in Child, CloseUnused(c)
      PROVE  ChildrenInv' /\ DataInv' /\ WaitInv'
  BY <1>1 DEF CloseUnused
<1>2. ASSUME NEW c \in Child, Exec(c)
      PROVE  ChildrenInv' /\ DataInv' /\ WaitInv'
  BY <1>2 DEF Exec, End
<1>3. CASE LsWrites
  BY <1>3, LinesAssumption DEF LsWrites, End
<1>4. CASE LsEnds
  BY <1>4 DEF LsEnds, End
<1>5. CASE SortReads
  BY <1>5 DEF SortReads
<1>6. CASE SortEnds
  \* End of file: ls, which would hold the write end, is through.
  <2>1. child["ls"] = "ended"
    BY <1>6 DEF SortEnds
  <2> QED BY <1>6, <2>1 DEF SortEnds, End
<1>7. ASSUME NEW c \in Child, GivesUp(c)
      PROVE  ChildrenInv' /\ DataInv' /\ WaitInv'
  BY <1>7 DEF GivesUp, End
<1> QED
  BY <1>1, <1>2, <1>3, <1>4, <1>5, <1>6, <1>7 DEF Ls, Sort

\* The invariant of the pipeline, for every number of lines and size of pipe.
THEOREM Invariance == Spec => []IndInv
<1>1. IndInv /\ [Next]_vars => IndInv'
  <2> SUFFICES ASSUME IndInv, [Next]_vars PROVE IndInv'
    OBVIOUS
  <2>1. TypeOK'
    BY TypeStep DEF IndInv
  <2>2. CASE UNCHANGED vars
    BY <2>1, <2>2 DEF IndInv, vars, ends, data, ChildrenInv, DataInv, WaitInv, Forked
  <2> QED
    BY <2>1, <2>2, ParentStep, ChildStep DEF IndInv, Next
<1> QED BY InitInv, <1>1, PTL DEF Spec

\* Every variable keeps its type; the parent's status is 0 or 1 once it exits.
THEOREM TypeCorrect == Spec => []TypeOK
<1>1. IndInv => TypeOK
  BY DEF IndInv
<1> QED BY Invariance, <1>1, PTL

\* When pipeit exits with status 0, both children have ended well and outfile
\* holds every line that ls had to list, whatever failed on the way.
THEOREM SuccessComplete == Spec => []SuccessIsComplete
<1>1. IndInv => SuccessIsComplete
  BY DEF IndInv, ChildrenInv, DataInv, WaitInv, SuccessIsComplete
<1> QED BY Invariance, <1>1, PTL
=============================================================================
