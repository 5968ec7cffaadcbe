# TLA+ models of the csc453 programs

The repository holds five small systems programs (`lwp.c` comes with a scheduler),
each in a directory of its own and independent of the others. This project models
them in TLA+, checks them with TLC on small instances and proves, with TLAPS and for
instances of every size, the safety of all of them.

## 1. Inventory

| Program | State | Operations | What makes it hard |
|---|---|---|---|
| `Asgn3/dine.c`, dining philosophers | one semaphore per fork, the printing lock, an array of `philinfo` shared by all threads, main's join index | the sections of `philosopher()`, `print_status_change`, set-up / create / join / destroy in `main` | real threads: forks are taken outside the lock under which they are shown; threads can fail while holding semaphores |
| `Asgn2/lwp.c`, lightweight processes | contexts on the live, waiting and zombie queues, the current thread, the id counter, the current scheduler | `lwp_create`, `lwp_start`, `lwp_yield`, `lwp_exit`, `lwp_wait`, `lwp_set_scheduler`, `tid2thread` | a call resumes long after it yielded; contexts are freed and allocated again; schedulers are replaced while threads run |
| `Asgn2/scheduler.c`, round robin | a doubly linked list through the contexts, a count | `init`, `shutdown`, `admit`, `remove`, `next`, `qlen` | pointer updates at both ends of lists of one and two members |
| `Asgn4/secret.c`, MINIX driver for `/dev/Secret` | owner, buffer, two cursors, open counter, read flag | `open`, `close`, `ioctl`, `transfer`, live-update save and restore, restart | state moved field by field through a store that can fail at any call; clearing depends on a counter; signed/unsigned comparison |
| `Lab01/pipeit.c`, `ls \| sort -r > outfile` | who holds which end of the pipe, which children were waited for | pipe, two forks, close, wait twice | end of file and SIGPIPE depend on every process having closed its copies; each call can fail |
| `Asgn1/malloc.c`, heap allocator | a list of block headers laid over the memory between the first chunk and the program break | `malloc`, `free`, `calloc`, `realloc`, split, merge | arithmetic in `size_t` at both ends, adjacency of merged blocks, an `sbrk` that fails between two steps, contents kept over `realloc` of any pointer into a region |

Interactions: `lwp.c` calls the scheduler through the six function pointers of
`lwp.h`, and the scheduler keeps its links inside the contexts of `lwp.c`. The
other programs do not interact with each other; they interact with the operating
system (semaphores and threads, processes and pipes, the MINIX file system, data
store and reincarnation server), which is modelled only from how they use it.

What makes each correct is stated by the properties of section 3; the `hazards`
list of `PROJECT.json`, each at its line, is what they were chosen for.

### Not modelled

* `magic64.S` and `fp.h`: register moves and a constant; `Lwp` takes
  `swap_rfiles` as the change of `curr_thread`.
* `trivial_pt.c`: a supplied sample, part of none of the programs.
* The test drivers (`tests.c`, `lwp_test.c`, `grant_secret.c`, `tryLab01`):
  sequential callers. Every call sequence they make is among the behaviours of
  the models, `grant_secret` for instance as open, write, ioctl, close of a file.
* Debug and error output: it reads state and changes none.
* `realloc()` of a pointer that was freed already, and a second `lwp_start()`:
  errors of the caller that the code does not handle.

## 2. Modules

```
Dine ------- implements --> Table         Secret ----- implements --> Vault
Lwp -------- uses --------> Queue         Heap ------- implements --> Arena
RoundRobin - implements --> ReadyQueue    Pipeit
                            (over Queue)
```

`MCLwp` and `MCSecret` give TLC sets of requests and symmetries. The theorems about
a module `M` are in `MProofs`, which extends it: `DineProofs`, `LwpProofs`,
`RoundRobinProofs`, `SecretProofs`, `PipeitProofs`, `HeapProofs`. `HeapArenaProofs` extends
`HeapProofs` with the refinement of `Arena`; `QueueProofs` has the lemmas on sequences
that `LwpProofs`, `RoundRobinProofs` and `HeapProofs` share.

Definitions whose comment starts with "Mutant" are not part of the models. Each is
a plausible bug in one definition; `PROJECT.json` names the property that it
breaks, which shows that the property depends on the code.

### Dine and Table (`Asgn3/dine.c`)

`philosopher()` is a chain of sections of one shape: wait for a fork (two of them
only), wait for the printing lock, update, print a row, post the lock. A thread's
control point is therefore a section `sec[p]` and a phase `phase[p]`; the actions
`GrabFork`, `LockPrinting`, `ChangeState` / `MarkFork` / `PutDownRight` /
`PutDownLeft`, and `PrintRow` are the phases. `main()` is `Setup`, `Create`,
`Join`, `Finish`. `ThreadFail` is a semaphore call of a thread returning -1 (the
thread ends with everything it holds still taken), `MainFail` any failing call or
bad argument in `main()`. `row` is the last row printed, as a state and a set of
forks per philosopher; columns and labels are left out, and `dawdle()` is the
time that may pass between any two steps.

`Table` says what a reader of the rows is promised: each row differs from the one
before by one legal change of one philosopher, and a fork is picked up only when
the row shows it free. `ShownSpec` states that `Dine` implements it.

### Lwp, RoundRobin and ReadyQueue (`Asgn2`)

Threads are cooperative, so between two context switches a call is one step. A
call that switches ends with another thread in `curr_thread`; `at[t]` says
whether `t` goes on in its own code or inside `lwp_wait()`, whose second half is
`lwp_wait_resume`. The system thread before `lwp_start()` is `curr_thread = NULL`;
a `lwp_yield()` at that point abandons it (`sys = "lost"`). Threads are named by
the address of their context, which is reused after a reap. The loop of
`lwp_set_scheduler()` is one step per turn, although nothing can come between,
so that its turns are visible. `only_system_waits` is a choice of the program
that is made at the start: whether all its threads call `lwp_wait()` or, as in the
repository's tests, only the original one.

The scheduler is a sequence per scheduler: `"rr"` rotates, any other may answer
any thread of its pool, which is all `lwp.h` promises. `RoundRobin` is
`scheduler.c` with its actual pointers, and `IsReadyQueue` shows that it
implements `ReadyQueue`, the same sequence operators (`Queue`) that `Lwp` uses.
`rr_admit` is modelled for a thread that is in no pool: `QueuesPartition` of `Lwp`
is why its callers satisfy that. `Walk` is the list as the code finds it, by following
`sched_next` from `sched_head`; every property of the list is stated of it.

### Secret and Vault (`Asgn4/secret.c`)

Every callback is one step, since a MINIX driver serves one message at a time.
A live update is many: `sef_cb_lu_state_save` publishes one field per step, then
`lu_state_restore` retrieves and deletes one per step into the new instance
(`fresh`), which takes over after the last. `lu_fails` may happen at any of these
calls; the old instance then goes on and what was published stays in the store.
`restart` clears the state and lets any subset of the open files survive. Refused
opens, failed copies and unknown ioctls change nothing and are stuttering steps.
External, from how the driver uses it: files are read and written only in the mode
they were opened in, and a failed update keeps the old instance.

The header of `secret.c` (lines 13-14) says that the driver "lets only the owner read it,
lets the owner give it to another user". The code checks the owner in `secret_open()`
only. A grant takes nothing from files that are already open: who has given the secret
away reads on, and may grant it again, to himself for instance, since neither
`secret_transfer()` nor `secret_ioctl()` (lines 216-224) looks at the owner. The model
and `Vault` do what the code does, so `Vault` promises less than the header there. What
is left of the header is `ReadersOwned`: who has a file open for reading has owned the
present secret. No run is made of the header's own claim.

`Vault` is the device without counter, cursors or updates: a queue of bytes that
is dropped when the last file closes after an open for reading. A crash drops it
too; afterwards any close may drop a later secret that was opened for reading,
because files that survived the crash are closed without having been counted. A write that does
not fit is stored in part, as the code does it; `ENOSPC` is the answer only when
nothing fits.

### Pipeit (`Lab01/pipeit.c`)

The parent, the two children and the set of processes that hold each end of the
pipe. `ls` and `sort` are external: `ls` writes its lines and ends well or not, waits
while the pipe is full, and is killed when nobody can read; `sort` reads until the pipe
is empty and nobody can write. Either may give up half way with status 1 (`GivesUp`).
`wait()` fails only when there is no child to wait for. `pipeit` installs no handler, so
that happens in one way: SIGCHLD was ignored by whoever started it (`ignored`), the kernel
reaps the children itself, and the first `wait()` blocks until all have ended and then
fails (`WaitFails`).

### Heap and Arena (`Asgn1/malloc.c`)

The allocator is single-threaded: `malloc`, `calloc` and `free` are one step each,
and `realloc` is one step with a disjunct per strategy (`realloc_shrink`,
`realloc_last`, `realloc_expand`, `realloc_move`). The header list is the sequence
`blocks` of address, capacity and free flag; the helpers keep their names and are
functions on such sequences (`merge_free_nodes` is a recursive function whose turn is
`Absorb`). `Grow` has both calls of `sbrk()` and what stays
behind when the second fails. Headers lie in `mem`, so that a split or a merge at
a wrong place would overwrite what a client wrote. A client writes `offset + 1`
into each byte it is given, which makes every misplaced or forgotten byte of a
copy visible, and leaves `calloc`'s zeros. Calls that change nothing (`free(NULL)`,
an unknown pointer, a double free, `calloc` overflow) are stuttering steps. `held`
records what the caller counts on, for `calloc` the number of elements times their size
before any reduction to a `size_t`.

Sizes are on a smaller scale: alignment 2 for 16, a header of 3 (rounded to 4) for
24 (32), chunks of 14 bytes for 64k, `size_t` of 7 bits. The break starts at an
address that need not be aligned, since `foreign_sbrk`, other code in the process,
may have taken a byte; with `SharedBreak` it may do so later too.

`Arena` is a set of aligned, disjoint regions with their bytes. A step gives one,
takes one back, or resizes one, which keeps its bytes up to the smaller size, and
touches no other.

## 3. Runs

| Run | Question | Bounds | Result |
|---|---|---|---|
| `dine` | forks conserved, no eating neighbours, no deadlock, honest status, legal rows, termination; the invariant that is proved | 3 philosophers, up to 2 cycles, 2 failures | holds |
| `dine_failure_reported` | is a failure of a thread reported | 3 philosophers, 1 failure | violated, see findings |
| `lwp` | queues, waiters, ids and transfers between schedulers; when only the system thread waits, does a woken waiter find its zombie, and the order of reaping | 4 addresses, 5 ids, 2 schedulers | holds |
| `lwp_stolen_zombie` | does a woken waiter find its zombie when any thread may wait | 4 addresses, 4 ids | violated, see findings |
| `lwp_live` | does every runnable thread run, does every blocked `lwp_wait()` return | 3 addresses, 4 ids | holds |
| `round_robin` | do the pointers implement a queue | 4 threads | holds |
| `secret` | cursors, counter, whose files can read; are live updates invisible and what is left of the promise after a crash | 2 files, 2 users, 3 bytes, 2 updates or crashes | holds |
| `pipeit` | does nothing hang, is success complete, whatever fails and with SIGCHLD ignored or not | 3 lines, a pipe of 2 | holds |
| `pipeit_waits` | does the parent wait for both children | same | violated, see findings |
| `heap` | blocks tile the heap, free neighbours are merged, no leak, enough room, contents kept | 5 sizes from 0 to beyond the limit, 31 bytes of memory | holds |
| `heap_huge` | enough room for a size of `SIZE_MAX` | 3 sizes | violated, see findings |
| `heap_foreign` | does a block ever contain others' memory, as when `realloc()` extends the last one | 3 sizes, a break shared with other code | violated, see findings |

Why the bounds are enough. Three philosophers are the smallest ring where one can
eat while another fails and a third waits, and an odd one, with two even neighbours
(0 and 2), like the default of five; two cycles let neighbours be in different
ones. The ring of two, where both neighbours coincide, five and every other size
are covered by the proofs. Four contexts are a runner, two waiters and a
zombie at once, and a fifth id makes an address be reused; the exit value 263
exceeds eight bits. Four list members have a head, a tail and two in between. Two
updates are needed for the second to meet what a failed first one left in the
store; a request of two bytes in a buffer of three fits once and then in part, and
so do the reads. Two replacements are also an update after a crash and a crash
after a failed update. One crash with two files leaves an old file whose close the
counter does not expect while a new one is open. Three lines fill a pipe of two. The heap of 31 bytes
holds two chunks, or one that was extended, and then refuses; among the sizes are
0, one that is rounded, one that leaves a remainder just too small to split, one
larger than what a chunk has room for and one that never fits; `calloc` with 26 fits
for size 1 and overflows for the larger ones, for size 5 by one element and to a product
that is small again. The passing run leaves out a break that moves after the first
allocation, and sizes at the top of `size_t`, where the code fails in three ways: a size
within 15 (here: 1) of `SIZE_MAX` is rounded to 0 (`heap_huge`); a size a little smaller
wraps when the header is added to it; and a size for which the argument of `sbrk()`, which
is signed, is negative but stays within the heap takes memory back that clients use. No
run is made of the last two: with a size of 120, `HeapTiled` fails at the second `malloc`.
The size 64 of the run is a negative increment too, one that leaves the heap and is refused. The driver's
unsigned word is 2^16 in `Secret` instead of 2^32: only that it exceeds the buffer
(`SizeAssumption`; 8192 bytes in `secret.h`) matters. Deadlock checking is off because every program ends (or its environment
may stop asking), except in `round_robin`; that nobody hangs is stated by
`DeadlockFree`, `Termination`, `NoLostWaiter`, `WaiterReturns` and `AllEnd`.

Symmetry is used for addresses of contexts and for open files, in safety runs
only.

Fairness. `Dine`: each thread and `main()` runs again and again (weak fairness per
thread). Semaphores need no strong fairness here, because every philosopher has
finitely many cycles and so a waiting neighbour cannot be overtaken for ever.
`Lwp`: `FairSpec` assumes only that whoever runs gives up the processor and that
library calls return, the contract of cooperative threads. `WaiterReturns` assumes
in addition (`FunctionsReturn`) that a thread function returns if it is run often
enough, without which no `lwp_wait()` can be expected to return. `Pipeit`: weak fairness of the
parent and of the work of each child, but not of `GivesUp`: a child may give up, and need
not. So `AllEnd` depends on a blocked child being released by the others: with a parent
that keeps the read end after a failed second fork, `ls` stays in a full pipe for ever
(the mutant `KeepReadEnd`).

### Findings

* `dine_failure_reported`: a thread that fails keeps its semaphores, the others
  block behind it and `main()`, which joins in index order, never gets to the
  failed thread: the program hangs instead of exiting with a failure.
* `lwp_stolen_zombie`: the zombie that a woken waiter was told to reap stays at
  the head of the zombie queue, and another thread's `lwp_wait()` can free it
  first. The waiter is left with a dangling `exited`. It needs two threads that
  wait; with one (`SystemWaiterHasZombie` in run `lwp`) the comment in the code holds.
* `heap_huge`: `round_up_16()` wraps, so `malloc(SIZE_MAX)` succeeds with a block
  that has no room instead of returning `NULL`. (`calloc` checks its own product,
  but reaches the same rounding.)
* `heap_foreign`: `realloc()` takes the last node of the list for the end of the heap and
  adds to it what `sbrk()` gives, wherever that is. After another user of `sbrk()` has
  taken memory behind the last block, that memory becomes part of the client's region: the
  run ends with a client that owns a foreign byte. (`merge_free_nodes()` takes list
  neighbours for memory neighbours in the same way, malloc.c:519; that takes more calls
  than the shortest trace, which the run stops at.)
* `pipeit_waits`: after a failed child the parent exits without waiting for the
  other one, unlike its header comment says.

## 4. Proofs

Each theorem holds for every value of the constants that satisfies the named
`ASSUME`s of its module, and those of `HeapProofs` and `HeapArenaProofs` under `Modest` in addition.
Where a property is not inductive, the proof strengthens it; TLC checks the strengthening
too, on the run of the module. (That of `HeapProofs` says of the set of blocks in use what
the invariants of the run `heap` say index by index.)

| Module | Theorem | Statement |
|---|---|---|
| `DineProofs` | `Invariance` | `Spec => []IndInv` |
| | `TypeCorrect` | `Spec => []TypeOK` |
| | `ForkSafety` | `Spec => []ForksConserved` |
| | `MutualExclusion` | `Spec => []NeighboursNeverEat` |
| | `ExitIsHonest` | `Spec => []ExitHonest` |
| | `NoDeadlock` | `Spec => []DeadlockFree` |
| | `RowsAreLegal` | `Spec => ShownSpec` (refinement of `Table`) |
| `LwpProofs` | `Invariance`, `Bookkeeping` | `Spec => []IndInv`, `Spec => []AuxInv` |
| | `TypeCorrect` | `Spec => []TypeOK` |
| | `QueuesArePartitioned` | `Spec => []QueuesPartition` |
| | `CurrentRuns` | `Spec => []CurrentIsRunnable` |
| | `WaitersNotLost` | `Spec => []NoLostWaiter` |
| | `IdsExact` | `Spec => []IdsAreExact` |
| | `SystemWaiterFindsZombie` | `Spec => []SystemWaiterHasZombie` |
| | `ReapsOldestFirst` | `Spec => ReapOldestFirst` (action property) |
| | `TransferInOrder` | `Spec => TransferKeepsOrder` (action property) |
| `RoundRobinProofs` | `TypeCorrect` | `Spec => []TypeOK` |
| | `ListWellLinked` | `Spec => []WellLinked` |
| | `ListIsReadyQueue` | `Spec => IsReadyQueue` (refinement of `ReadyQueue`) |
| `SecretProofs` | `Invariance` | `Spec => []IndInv` |
| | `TypeCorrect` | `Spec => []TypeOK` |
| | `CursorsStayInBounds` | `Spec => []CursorInBounds` |
| | `CounterCountsFiles` | `Spec => []CounterIsExact` |
| | `UpdateLosesNothing` | `Spec => []StoreAgrees` |
| | `ReadersHaveOwned` | `Spec => []ReadersOwned` |
| | `DriverIsVault` | `Spec => IsVault` (refinement of `Vault`) |
| `PipeitProofs` | `Invariance` | `Spec => []IndInv` |
| | `TypeCorrect` | `Spec => []TypeOK` |
| | `SuccessComplete` | `Spec => []SuccessIsComplete` |
| `HeapProofs` | `Invariance` | `Modest => (Spec => []IndInv)` |
| | `TypeCorrect` | `Modest => (Spec => []TypeOK)` |
| | `HeapStaysTiled` | `Modest => (Spec => []HeapTiled)` |
| | `FreeBlocksMerged` | `Modest => (Spec => []NoFreeNeighbours)` |
| | `NothingLeaks` | `Modest => (Spec => []NoLeak)` |
| | `RoomEnough` | `Modest => (Spec => []EnoughRoom)` |
| | `OwnMemoryOnly` | `Modest => (Spec => []OnlyOwnMemory)` |
| `HeapArenaProofs` | `HeapIsArena` | `Modest => (Spec => IsArena)` (refinement of `Arena`) |

### DineProofs

For every number of philosophers `N >= 2` (the `#error` of `dine.h`) and every bound
on cycles and failures.

None of the properties is inductive: that neighbours do not eat
together depends on semaphores taken earlier, and a row on updates made earlier.
`IndInv` says what each control point implies: which phases a section has
(`PhaseInv`), that the printing lock is 0 exactly while one thread is inside it
(`LockInv`), that a fork is taken exactly when one neighbour's control point is
between its wait and its post (`ForksConserved`), that flags and state follow the
control point one update behind the semaphores (`FieldsInv`), that the last row
shows everybody at the beginning of the current section (`RowInv`), and where
`main()` is (`CyclesInv`, `MainInv`). Every part is preserved by every step given
the parts before it, one lemma each.

`NoDeadlock` follows from the order of the forks: if nobody can move, everybody
in the loop waits for a fork; a thread that waits for its second fork is blocked
by a neighbour that owns it, and by the even/odd rule that neighbour holds it as
its second, so it has both and does not wait. `RowsAreLegal` uses that only the
printing thread's cell changes (`PrintChangesOneCell`) and that the fork it newly
shows is shown by nobody else, because it owns the semaphore (`WantedIsFree`).

### QueueProofs, LwpProofs and RoundRobinProofs

`QueueProofs` says what the operators of `Queue` do to a sequence without duplicates:
`Append`, `Tail`, `Unlink` and `Rotate` keep it free of duplicates and have the
members one expects. `Position` is the first occurrence; that there is one is the
lemma `Least` (a nonempty set of naturals has a least element), which also takes the
place of induction wherever a proof needs one.

`LwpProofs` assumes only that `NULL` is no context and that `"rr"` is a scheduler; the
number of contexts, ids, schedulers and exit values is arbitrary. That a thread is on
one queue only (`QueuesPartition`), that the current one may run, and that a waiter is
never left alone depend on one another and on four facts in `AuxInv`: which
schedulers' pools may have members (`PoolsInv`), how far the loop of
`lwp_set_scheduler()` is, with the old and the new pool as the two parts of the order
it started from (`TransferInv`), that only threads inside `lwp_wait()` wait and only
woken ones know a zombie (`WaitInv`), and that ids are distinct and below the counter
(`TidInv`). `SystemInv` is about programs where only the original thread waits: it
blocks when there is no zombie and is woken for the head of the queue, so it finds that
zombie and zombies are reaped in order. There is one lemma per library call and
conjunct. `TransferInv` is what makes the order of a transfer inductive: before each
turn the thread that `next()` returned is at the end of the old pool, because
RoundRobin has rotated it there, and the ones before it are the rest of the old order.

`RoundRobinProofs` states that the pointers hold a sequence (`Holds`): no duplicates,
head and tail at its ends, both links of every pair of neighbours. The pointer
updates of `rr_admit`, `rr_remove` and `rr_next` keep that for the sequence with a
member appended, unlinked or rotated, with lists of one and two members, where
neighbours coincide, as cases of their own. Only one sequence can be held
(`ChainIsWalk`), the one the walk finds, hence `WellLinked` and the refinement.

### SecretProofs

For any finite set of files, any users and requests, any buffer smaller than the
unsigned word and any number of updates and crashes. `IndInv` is the conjunction of the
invariants that the run checks. `StoreAgrees` is the part that makes live update
provable: while a save is under way the fields published so far equal those of the
running instance, and during a restore each field is right in the store or in the new
instance, depending on whether its turn has come. The last step of the restore then
makes the new instance equal to the old one in all seven fields (`RestoreStep`), so
that no invariant of the old is lost and `Vault` stutters. `CounterIsExact` goes
through the cardinality of the set of open files before and after an open and a close.
The unsigned comparison in `secret_transfer()` is exact because the cursors are in
order (`GatherStep`), so a read takes a prefix of the bytes between them and a write
appends to them: the two sequence equations of `Vault`.

### PipeitProofs

For any number of lines and any pipe. `IndInv` follows the evidence that the parent
relies on: a child that has not been created has no status (`ChildrenInv`), `sort` can
end well only at end of file, which it sees only when `ls`, the other holder of the
write end, has ended (`DataInv`), and while the parent waits every child it has reaped
was good (`WaitInv`). `ls` holds the write end as long as it lives (`ChildrenInv`), which
is what ties end of file to the end of `ls`.

### HeapProofs

For any alignment, header, chunk, word and heap that satisfy `AlignAssumption` and
`BreakAssumption`, and any sizes and counts that satisfy `Modest`: a size (or a product
that `calloc` lets through) plus alignment, header and the end of the heap must be a
`size_t`, and nobody else moves the break once there are blocks. The first leaves out the
top of `size_t`, where a size is rounded to 0 (the finding `heap_huge`), wraps with its
header, or is a negative increment of `sbrk()` that stays within the heap; the second
leaves out the finding `heap_foreign`. Nothing is claimed of the code there, and it does
fail there. Requests that `sbrk()` refuses, for want of memory or with a negative increment
that leaves the heap, are included. The run `heap` satisfies `Modest`. `AlignAssumption` has the
relations of `malloc.c:17-18`: the minimum payload is at most the alignment, so every
rounded size that is not 0 is a payload.

The lemmas build up in layers. First, arithmetic: sums and differences of multiples are
multiples, `round_up_16` is the next multiple, `%` of the word does nothing to numbers that
fit. Then `Laid(list, F, end)`: the list tiles the memory up to `end`, above the addresses
`F` of others. It gives the order of addresses (`Ordered`), hence that no byte is in two
blocks (`Separate`) and that `findblock` finds the block of any byte of a payload
(`FindBlock`). Each helper then gets one lemma saying that it keeps `Laid`, leaves no free
neighbours and does to the set of blocks in use (`Used`) exactly what it should:
`merge_free_nodes` nothing (`MergeLaid`), `splitblock` resizes one (`SplitLaid`), a flag
adds or removes one (`FlagLaid`), `realloc` stretches the last or joins the next
(`StretchLaid`, `JoinLaid`). `AllocateServes` and `ReleaseLaid` are `malloc` and `free` of
these. The recursion in `merge_free_nodes` needs no induction theorem: among the turns
at which its result is not as claimed there would be a least one.

`IndInv` is `Laid` and no free neighbours for `blocks` and the break, and `Owned`: the
payloads of the blocks in use are the addresses of the regions, each region with a size
between 1 and the capacity. There is one lemma per call, and per way of `realloc`.

### HeapArenaProofs

The regions of `Arena` are `Regions`, what `mem` has at the addresses of `held`. The
invariant is that of `HeapProofs`. By it a region lies within the payload of its block, so
no header, no other region and no byte of others is in it (`RegionApart`). `Settle` writes
headers last; none of them falls into a region, and after a call a region reads what the
call's own writes left there (`AfterSettle`). A region that the call does not name
is as before (`Untouched`, `Elsewhere`). On these rest one lemma for calls that give a region
(`Gives`: `malloc` with the client's bytes, `calloc` with zeros), one for `free`
(`FreeTakes`), one for calls that fail (`NothingSeen`) and one for `realloc` (`Resizes`),
where it stays (the bytes are in place) and where it moves. A move copies the whole old
payload, and what makes that harmless is that the old capacity is a multiple of
the alignment below the rounded new size, hence below the new size itself: the copy ends
within the new region. The block that `malloc` finds is none of the regions, the one
that is copied included (`ServedApart`).

### Only model-checked

* Liveness: `Termination`, `RunnableRuns`, `WaiterReturns`, `AllEnd`. Fairness and
  `ENABLED` are outside the prover's reach.

## 5. Plan

1. `Dine`, `Table` and their proofs - done.
2. `Lwp` over `Queue`; `RoundRobin` implementing `ReadyQueue`; their proofs - done.
3. `Secret` implementing `Vault`, and its proofs - done.
4. `Pipeit` and its proofs - done.
5. `Heap` implementing `Arena` - modelled, checked; its invariants proved for requests
   that do not wrap around (`HeapProofs`) - done.
6. `Heap` implements `Arena`, for the same requests (`HeapArenaProofs`) - done.
7. What of the heap survives a shared break (`SharedBreak`). `OnlyOwnMemory` does not (the
   finding `heap_foreign`), and `HeapTiled` and `IsArena` fail with it. A weaker
   `Laid`, in which gaps may lie between the blocks, should carry `NoFreeNeighbours`,
   `NoLeak`, `EnoughRoom` and the disjointness of the blocks without `~SharedBreak`.
