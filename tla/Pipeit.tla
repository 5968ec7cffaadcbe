------------------------------- MODULE Pipeit -------------------------------
(***************************************************************************)
(* The pipeline "ls | sort -r > outfile" of Lab01/pipeit.c: the parent, its*)
(* two children and the pipe between them.  A process holds an end of the  *)
(* pipe until it closes it or ends; end of file and SIGPIPE depend on who  *)
(* still holds the other end.  The programs ls and sort are external: ls   *)
(* writes some of its lines and ends, sort reads until end of file, writes *)
(* outfile and ends, and either may end with a status of its own.          *)
(***************************************************************************)
EXTENDS Integers

CONSTANTS Lines,      \* what ls has to list
          PipeSize    \* lines the pipe holds

ASSUME LinesAssumption == Lines \in Nat /\ PipeSize \in Nat \ {0}

Child == {"ls", "sort"}

\* The status of a child that was killed by SIGPIPE (not WIFEXITED).
SIGNALED == 13

VARIABLES
    parent,             \* where main() is
    code,               \* the parent's exit status, -1 before it exits
    ignored,            \* SIGCHLD was ignored by whoever started pipeit
    child,              \* where each child is
    status,             \* 0, 1 or SIGNALED once a child has ended
    reaped,             \* children the parent has waited for
    readers, writers,   \* who holds which end of the pipe
    sent, received,     \* lines that went into and out of the pipe
    outfile             \* lines in outfile, -1 while it is the old one

ends == <<readers, writers>>
data == <<sent, received, outfile>>
vars == <<parent, code, ignored, child, status, reaped, ends, data>>

TypeOK ==
    /\ parent \in {"pipe", "fork_ls", "fork_sort", "close", "waits", "exited"}
    /\ code \in {-1, 0, 1} /\ ignored \in BOOLEAN
    /\ child \in [Child -> {"none", "close", "exec", "run", "ended"}]
    /\ status \in [Child -> {-1, 0, 1, SIGNALED}]
    /\ reaped \subseteq Child
    /\ readers \subseteq Child \cup {"parent"} /\ writers \subseteq Child \cup {"parent"}
    /\ sent \in 0 .. Lines /\ received \in 0 .. Lines /\ sent - received \in 0 .. PipeSize
    /\ outfile \in -1 .. Lines

Init ==
    /\ parent = "pipe" /\ code = -1 /\ ignored \in BOOLEAN
    /\ child = [c \in Child |-> "none"]
    /\ status = [c \in Child |-> -1]
    /\ reaped = {}
    /\ readers = {} /\ writers = {}
    /\ sent = 0 /\ received = 0 /\ outfile = -1

-----------------------------------------------------------------------------
\* exit(): the ends of the pipe the parent still holds are closed.
Exit(c) ==
    /\ parent' = "exited" /\ code' = c
    /\ readers' = readers \ {"parent"} /\ writers' = writers \ {"parent"}

MakePipe ==
    /\ parent = "pipe"
    /\ \/ /\ parent' = "fork_ls"
          /\ readers' = {"parent"} /\ writers' = {"parent"}
          /\ UNCHANGED code
       \/ Exit(1)
    /\ UNCHANGED <<ignored, child, status, reaped, data>>

\* fork(): the child has what the parent has; main() goes on at `next`.
Fork(c, next) ==
    /\ parent' = next
    /\ child' = [child EXCEPT ![c] = "close"]
    /\ readers' = readers \cup {c} /\ writers' = writers \cup {c}
    /\ UNCHANGED code

ForkLs ==
    /\ parent = "fork_ls"
    /\ Fork("ls", "fork_sort") \/ (Exit(1) /\ UNCHANGED child)
    /\ UNCHANGED <<ignored, status, reaped, data>>

\* When the second fork fails, the parent closes the pipe and waits for ls.
ForkSort ==
    /\ parent = "fork_sort"
    /\ \/ Fork("sort", "close")
       \/ parent' = "close" /\ UNCHANGED <<child, code, ends>>
    /\ UNCHANGED <<ignored, status, reaped, data>>

\* Mutant of ClosePipe: the parent keeps the read end.
KeepReadEnd ==
    /\ parent = "close"
    /\ writers' = writers \ {"parent"}
    /\ parent' = "waits"
    /\ UNCHANGED <<code, ignored, child, status, reaped, readers, data>>

ClosePipe ==
    /\ parent = "close"
    /\ IF "parent" \in readers
       THEN readers' = readers \ {"parent"} /\ UNCHANGED <<parent, writers>>
       ELSE writers' = writers \ {"parent"} /\ parent' = "waits" /\ UNCHANGED readers
    /\ UNCHANGED <<code, ignored, child, status, reaped, data>>

Forked == {c \in Child : child[c] # "none"}

\* Mutant of Wait: the result of the child is not looked at.
WaitAnyResult ==
    /\ parent = "waits" /\ ~ignored
    /\ \E c \in Forked \ reaped :
           /\ child[c] = "ended"
           /\ reaped' = reaped \cup {c}
           /\ IF reaped' = Forked THEN Exit(IF Forked = Child THEN 0 ELSE 1)
              ELSE UNCHANGED <<parent, code, ends>>
    /\ UNCHANGED <<ignored, child, status, data>>

\* Mutant of Wait: the raw status of the child is passed on.
WaitPassesStatus ==
    /\ parent = "waits" /\ ~ignored
    /\ \E c \in Forked \ reaped :
           /\ child[c] = "ended"
           /\ reaped' = reaped \cup {c}
           /\ IF status[c] # 0 THEN Exit(status[c])
              ELSE IF Forked # Child THEN Exit(1)
              ELSE IF reaped' = Child THEN Exit(0)
              ELSE UNCHANGED <<parent, code, ends>>
    /\ UNCHANGED <<ignored, child, status, data>>

\* wait() for whichever child ends first.  The parent exits with 1 after a child
\* that failed, or after ls when there is no sort; with 0 after two good ones.
Wait ==
    /\ parent = "waits" /\ ~ignored
    /\ \E c \in Forked \ reaped :
           /\ child[c] = "ended"
           /\ reaped' = reaped \cup {c}
           /\ IF status[c] # 0 \/ Forked # Child THEN Exit(1)
              ELSE IF reaped' = Child THEN Exit(0)
              ELSE UNCHANGED <<parent, code, ends>>
    /\ UNCHANGED <<ignored, child, status, data>>

\* wait() fails only when there is no child to wait for.  That is so once the
\* children have ended, when the kernel reaps them because SIGCHLD is ignored:
\* the first wait() then blocks until none is left.
WaitFails ==
    /\ parent = "waits" /\ ignored
    /\ \A c \in Forked : child[c] = "ended"
    /\ Exit(1)
    /\ UNCHANGED <<ignored, child, status, reaped, data>>

-----------------------------------------------------------------------------
\* Child c ends with status s and lets go of the pipe.
End(c, s) ==
    /\ child' = [child EXCEPT ![c] = "ended"]
    /\ status' = [status EXCEPT ![c] = s]
    /\ readers' = readers \ {c} /\ writers' = writers \ {c}

Others == <<parent, code, ignored, reaped>>

\* Mutant of CloseUnused: ls closes the end it is going to write to.
ClosesWrongEnd(c) ==
    /\ child[c] = "close"
    /\ writers' = writers \ {c} /\ UNCHANGED readers
    /\ child' = [child EXCEPT ![c] = "exec"]
    /\ UNCHANGED <<Others, status, data>>

\* Each child closes the end it does not use.
CloseUnused(c) ==
    /\ child[c] = "close"
    /\ IF c = "ls" THEN readers' = readers \ {c} /\ UNCHANGED writers
       ELSE writers' = writers \ {c} /\ UNCHANGED readers
    /\ child' = [child EXCEPT ![c] = "exec"]
    /\ UNCHANGED <<Others, status, data>>

\* dup2 and execlp, for sort after outfile was opened and truncated.
Exec(c) ==
    /\ child[c] = "exec"
    /\ outfile' \in IF c = "sort" THEN {0, outfile} ELSE {outfile}
    /\ \/ /\ c = "sort" => outfile' = 0
          /\ child' = [child EXCEPT ![c] = "run"] /\ UNCHANGED <<status, ends>>
       \/ End(c, 1)
    /\ UNCHANGED <<Others, sent, received>>

\* ls writes a line, unless the pipe is full; with no reader it is killed.
LsWrites ==
    /\ child["ls"] = "run" /\ sent < Lines
    /\ IF readers = {} THEN End("ls", SIGNALED) /\ UNCHANGED sent
       ELSE /\ sent - received < PipeSize
            /\ sent' = sent + 1 /\ UNCHANGED <<child, status, ends>>
    /\ UNCHANGED <<Others, received, outfile>>

\* ls is through, with an error or without.
LsEnds ==
    /\ child["ls"] = "run" /\ sent = Lines
    /\ \E s \in {0, 1} : End("ls", s)
    /\ UNCHANGED <<Others, data>>

SortReads ==
    /\ child["sort"] = "run" /\ received < sent
    /\ received' = received + 1
    /\ UNCHANGED <<Others, child, status, ends, sent, outfile>>

\* At end of file (an empty pipe that nobody can write to) sort writes outfile.
SortEnds ==
    /\ child["sort"] = "run" /\ received = sent /\ writers = {}
    /\ \/ outfile' = received /\ End("sort", 0)
       \/ outfile' \in {0, received} /\ End("sort", 1)
    /\ UNCHANGED <<Others, sent, received>>

\* ls or sort may give up half way on an error of its own, but it need not.
GivesUp(c) ==
    /\ child[c] = "run" /\ End(c, 1)
    /\ UNCHANGED <<Others, data>>

Parent == MakePipe \/ ForkLs \/ ForkSort \/ ClosePipe \/ Wait \/ WaitFails
Ls == CloseUnused("ls") \/ Exec("ls") \/ LsWrites \/ LsEnds
Sort == CloseUnused("sort") \/ Exec("sort") \/ SortReads \/ SortEnds

Next == Parent \/ Ls \/ Sort \/ \E c \in Child : GivesUp(c)

Spec == Init /\ [][Next]_vars

\* Every process that can run is run, and goes on with its work: giving up is
\* left out, so a child that is blocked on the pipe stays blocked until the other
\* end moves or closes.
FairSpec == Spec /\ WF_vars(Parent) /\ WF_vars(Ls) /\ WF_vars(Sort)

-----------------------------------------------------------------------------
\* Status 0 means that the pipeline was done: both children ended well, and
\* outfile has every line that ls had to list.
SuccessIsComplete ==
    code = 0 => /\ \A c \in Child : status[c] = 0
                /\ outfile = Lines

\* The children exist in the order in which main() forks them, ls holds the write
\* end as long as it lives, and a child has a status exactly when it has ended.
ChildrenInv ==
    /\ parent \in {"pipe", "fork_ls"} => Forked = {}
    /\ parent = "fork_sort" => Forked = {"ls"}
    /\ child["sort"] # "none" => child["ls"] # "none"
    /\ child["ls"] \in {"close", "exec", "run"} => "ls" \in writers
    /\ \A c \in Child : child[c] = "ended" <=> status[c] # -1

\* A good status says what happened to the data: ls has written every line, and
\* sort, which ends at end of file only, came after ls and stored what it wrote.
DataInv ==
    /\ status["ls"] = 0 => sent = Lines
    /\ status["sort"] = 0 => child["ls"] = "ended" /\ received = sent /\ outfile = sent

\* While the parent waits it has seen good children only.
WaitInv ==
    /\ reaped # {} => parent \in {"waits", "exited"}
    /\ parent = "waits" => \A c \in reaped : status[c] = 0
    /\ code # -1 <=> parent = "exited"
    /\ code = 0 => \A c \in Child : status[c] = 0

\* Why status 0 can be relied on: the inductive invariant of the pipeline, from
\* the ends of the pipe through the data to what the parent has waited for.
IndInv == TypeOK /\ ChildrenInv /\ DataInv /\ WaitInv

\* Nothing hangs, whatever failed on the way: the parent exits and neither
\* child is left behind for ever, waiting for input or for room in the pipe.
AllEnd == <>(code # -1 /\ \A c \in Child : child[c] \in {"none", "ended"})

\* "The parent waits for both children" (pipeit.c:6): when it exits, no child that
\* it has forked is still running.
WaitsForBoth == code # -1 => \A c \in Forked : child[c] = "ended"
=============================================================================
