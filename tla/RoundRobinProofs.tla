-------------------------- MODULE RoundRobinProofs --------------------------
(***************************************************************************)
(* Proofs about RoundRobin for every set of threads: the doubly linked     *)
(* list stays well linked and implements the queue of ReadyQueue.          *)
(***************************************************************************)
EXTENDS RoundRobin, QueueProofs

\* The contexts of w are chained by the pointers, from head to tail and back.
Chain(w, prev, next, head, tail, n) ==
    /\ w \in Seq(Thread) /\ Len(w) = n /\ IsInjective(w)
    /\ n = 0 => head = NULL /\ tail = NULL
    /\ n > 0 => /\ head = w[1] /\ tail = w[n]
                /\ prev[head] = NULL /\ next[tail] = NULL
    /\ \A i \in 1 .. n - 1 : next[w[i]] = w[i + 1] /\ prev[w[i + 1]] = w[i]

\* Only one sequence is chained: the one the walk from the head finds.
LEMMA ChainIsWalk ==
    ASSUME NEW w, NEW prev, NEW next, NEW head, NEW tail, NEW n \in Nat,
           Chain(w, prev, next, head, tail, n)
    PROVE  WalkFrom(head, next, n) = w
<1> DEFINE F(f) == [i \in 1 .. n |-> IF i = 1 THEN head ELSE next[f[i - 1]]]
           W == CHOOSE f : f = F(f)
<1>1. WalkFrom(head, next, n) = W
  BY DEF WalkFrom
<1>2. w = F(w)
  <2>1. w \in [1 .. n -> Thread]
    BY LenProperties DEF Chain
  <2>2. ASSUME NEW i \in 1 .. n PROVE w[i] = F(w)[i]
    <3>1. CASE i = 1
      BY <3>1 DEF Chain
    <3>2. CASE i # 1
      <4>1. i - 1 \in 1 .. n - 1 /\ (i - 1) + 1 = i
        BY <3>2
      <4>2. next[w[i - 1]] = w[(i - 1) + 1]
        BY <4>1 DEF Chain
      <4> QED BY <3>2, <4>1, <4>2
    <3> QED BY <3>1, <3>2
  <2> QED BY <2>1, <2>2
<1>3. W = F(W)
  BY <1>2
<1> HIDE DEF W
<1>4. ASSUME NEW i \in 1 .. n PROVE W[i] = w[i]
  <2> DEFINE T == {k \in Nat : k \in 1 .. n /\ W[k] # w[k]}
  <2> SUFFICES ASSUME T # {} PROVE FALSE
    OBVIOUS
  <2>1. PICK k \in T : \A j \in T : k <= j
    <3>1. T \in SUBSET Nat
      OBVIOUS
    <3> HIDE DEF T
    <3> QED BY <3>1, Least
  <2>2. k \in 1 .. n /\ W[k] # w[k]
    BY <2>1
  <2>3. W[k] = F(W)[k] /\ w[k] = F(w)[k]
    BY <1>2, <1>3
  <2>4. CASE k = 1
    BY <2>2, <2>3, <2>4
  <2>5. CASE k # 1
    <3>1. k - 1 \in 1 .. n /\ ~(k <= k - 1)
      BY <2>2, <2>5
    <3>2. k - 1 \notin T
      BY <2>1, <3>1
    <3>3. W[k - 1] = w[k - 1]
      BY <3>1, <3>2
    <3> QED BY <2>2, <2>3, <2>5, <3>3
  <2> QED BY <2>4, <2>5
<1>5. W \in [1 .. n -> {W[i] : i \in 1 .. n}] /\ DOMAIN w = 1 .. n
  <2>1. DOMAIN W = 1 .. n
    BY <1>3
  <2> QED BY <1>3, <2>1, LenProperties DEF Chain
<1>6. W = [i \in 1 .. n |-> W[i]] /\ w = [i \in 1 .. n |-> w[i]]
  <2>1. w \in [1 .. n -> Thread]
    BY LenProperties DEF Chain
  <2> QED BY <1>5, <2>1
<1> QED BY <1>1, <1>4, <1>6

\* The list holds w.
Holds(w) ==
    Chain(w, sched_prev, sched_next, sched_head, sched_tail, scheduler_thread_count)

IndInv == TypeOK /\ Holds(Walk)

\* What the walk has to do with the list, in the state before and after a step.
LEMMA HoldsWalk ==
    ASSUME NEW w, TypeOK, Holds(w)
    PROVE  /\ Walk = w /\ Members = Range(w)
           /\ w \in Seq(Thread) /\ Len(w) = scheduler_thread_count
           /\ DOMAIN w = 1 .. scheduler_thread_count
           /\ \A i \in 1 .. scheduler_thread_count : w[i] \in Thread
           /\ \A i, j \in 1 .. scheduler_thread_count : w[i] = w[j] => i = j
           /\ sched_head = NULL <=> scheduler_thread_count = 0
           /\ sched_tail = NULL <=> scheduler_thread_count = 0
           /\ sched_head = sched_tail <=> scheduler_thread_count <= 1
<1>1. scheduler_thread_count \in Nat
  BY DEF TypeOK
<1>2. Walk = w
  BY <1>1, ChainIsWalk DEF Holds, Walk
<1>3. w \in Seq(Thread) /\ Len(w) = scheduler_thread_count /\ IsInjective(w)
  BY DEF Holds, Chain
<1>4. /\ DOMAIN w = 1 .. scheduler_thread_count
      /\ \A i \in 1 .. scheduler_thread_count : w[i] \in Thread
      /\ \A i, j \in 1 .. scheduler_thread_count : w[i] = w[j] => i = j
  BY <1>3, QueueMembers, Injective
<1>5. Members = Range(w)
  BY <1>2, <1>4 DEF Members, Range
<1>6. /\ sched_head = NULL <=> scheduler_thread_count = 0
      /\ sched_tail = NULL <=> scheduler_thread_count = 0
  BY <1>1, <1>4, NullAssumption DEF Holds, Chain
<1>7. sched_head = sched_tail <=> scheduler_thread_count <= 1
  BY <1>1, <1>4, <1>6 DEF Holds, Chain
<1> QED BY <1>2, <1>3, <1>4, <1>5, <1>6, <1>7

\* The same after a step, for the walk.
LEMMA HoldsWalkPrime ==
    ASSUME NEW w, TypeOK', Holds(w)'
    PROVE  Walk' = w
BY ChainIsWalk DEF Holds, Walk, TypeOK

\* rr_init() and rr_shutdown() leave an empty list.
LEMMA ResetStep ==
    ASSUME TypeOK, Reset
    PROVE  TypeOK' /\ Holds(<<>>)'
BY EmptyQueue DEF Reset, links, TypeOK, Pointer, Holds, Chain

\* rr_admit() links the new thread behind the tail.
LEMMA AdmitStep ==
    ASSUME NEW w, NEW new \in Thread, TypeOK, Holds(w), rr_admit(new)
    PROVE  TypeOK' /\ Holds(Append(w, new))'
<1> DEFINE n == scheduler_thread_count
           r == Append(w, new)
<1>1. n \in Nat /\ n' = n + 1
  BY DEF TypeOK, rr_admit
<1>2. /\ w \in Seq(Thread) /\ Len(w) = n /\ Members = Range(w)
      /\ \A i \in 1 .. n : w[i] \in Thread
      /\ \A i, j \in 1 .. n : w[i] = w[j] => i = j
      /\ sched_head = NULL <=> n = 0
  BY HoldsWalk
<1>3. /\ n > 0 => /\ sched_head = w[1] /\ sched_tail = w[n]
                  /\ sched_prev[sched_head] = NULL
      /\ \A i \in 1 .. n - 1 : sched_next[w[i]] = w[i + 1] /\ sched_prev[w[i + 1]] = w[i]
      /\ IsInjective(w)
  BY DEF Holds, Chain
<1>4. \A i \in 1 .. n : w[i] # new
  BY <1>2, QueueMembers DEF rr_admit
<1>5. /\ r \in Seq(Thread) /\ Len(r) = n + 1 /\ IsInjective(r)
      /\ \A i \in 1 .. n : r[i] = w[i]
      /\ r[n + 1] = new
  BY <1>2, <1>3, AppendQueue DEF rr_admit
<1> HIDE DEF n, r
<1>6. CASE n = 0
  <2>1. /\ sched_prev' = [sched_prev EXCEPT ![new] = NULL]
        /\ sched_next' = [sched_next EXCEPT ![new] = NULL]
        /\ sched_head' = new /\ sched_tail' = new /\ answer' = answer
    BY <1>2, <1>6 DEF rr_admit
  <2>2. TypeOK'
    BY <1>1, <2>1 DEF TypeOK, Pointer, n
  <2>3. sched_prev'[new] = NULL /\ sched_next'[new] = NULL
    BY <2>1 DEF TypeOK
  <2> QED BY <1>1, <1>5, <1>6, <2>1, <2>2, <2>3 DEF Holds, Chain, n, r
<1>7. CASE n > 0
  <2>1. /\ sched_next' = [sched_next EXCEPT ![sched_tail] = new, ![new] = NULL]
        /\ sched_prev' = [sched_prev EXCEPT ![new] = sched_tail]
        /\ sched_head' = sched_head /\ sched_tail' = new /\ answer' = answer
    BY <1>1, <1>2, <1>7 DEF rr_admit
  <2>2. sched_tail = w[n] /\ w[n] \in Thread /\ sched_head = w[1] /\ w[1] \in Thread
    BY <1>1, <1>2, <1>3, <1>7
  <2>3. TypeOK'
    BY <1>1, <2>1, <2>2 DEF TypeOK, Pointer, n
  <2>4. /\ sched_next'[new] = NULL /\ sched_prev'[new] = w[n]
        /\ sched_next'[w[n]] = new
        /\ \A t \in Thread : t # new => sched_prev'[t] = sched_prev[t]
        /\ \A t \in Thread : t # new /\ t # w[n] => sched_next'[t] = sched_next[t]
    BY <1>1, <1>4, <1>7, <2>1, <2>2 DEF TypeOK
  <2>5. sched_head' = r[1] /\ sched_tail' = r[n + 1] /\ sched_prev'[sched_head'] = NULL
    BY <1>1, <1>3, <1>4, <1>5, <1>7, <2>1, <2>2, <2>4
  <2>6. ASSUME NEW i \in 1 .. n
        PROVE  sched_next'[r[i]] = r[i + 1] /\ sched_prev'[r[i + 1]] = r[i]
    <3>1. CASE i = n
      BY <1>5, <2>4, <3>1
    <3>2. CASE i # n
      <4>1. i \in 1 .. n - 1 /\ i + 1 \in 1 .. n /\ n \in 1 .. n
        BY <1>1, <3>2
      <4>2. w[i] # w[n] /\ w[i] # new /\ w[i + 1] # new
        BY <1>2, <1>4, <3>2, <4>1
      <4> QED BY <1>2, <1>3, <1>5, <2>4, <4>1, <4>2
    <3> QED BY <3>1, <3>2
  <2>7. Chain(r, sched_prev', sched_next', sched_head', sched_tail', n + 1)
    <3>1. (n + 1) - 1 = n /\ n + 1 # 0 /\ sched_next'[sched_tail'] = NULL
      BY <1>1, <2>1, <2>4
    <3> QED BY <1>5, <2>5, <2>6, <3>1, Zenon DEF Chain
  <2> QED BY <1>1, <2>3, <2>7 DEF Holds, n, r
<1> QED BY <1>1, <1>6, <1>7

\* rr_remove() takes a victim out from wherever it is on the list.
LEMMA RemoveStep ==
    ASSUME NEW w, NEW victim \in Thread, TypeOK, Holds(w), rr_remove(victim)
    PROVE  TypeOK' /\ Holds(Unlink(w, victim))'
<1> DEFINE n == scheduler_thread_count
           p == Position(w, victim)
           r == Unlink(w, victim)
           before == sched_prev[victim]
           after == sched_next[victim]
<1>1. /\ n \in Nat
      /\ w \in Seq(Thread) /\ Len(w) = n /\ Members = Range(w)
      /\ \A i \in 1 .. n : w[i] \in Thread
      /\ \A i, j \in 1 .. n : w[i] = w[j] => i = j
  BY HoldsWalk DEF TypeOK
<1>2. CASE victim \notin Members
  <2>1. r = w /\ UNCHANGED vars
    BY <1>1, <1>2, UnlinkQueue DEF rr_remove, vars
  <2> HIDE DEF r
  <2>2. TypeOK' /\ Holds(w)'
    BY <2>1 DEF vars, links, TypeOK, Holds
  <2> QED BY <2>1, <2>2 DEF r
<1>3. CASE victim \in Members
  <2>1. /\ p \in 1 .. n /\ w[p] = victim
    BY <1>1, <1>3, PositionFound
  <2>2. /\ r \in Seq(Thread) /\ IsInjective(r) /\ Len(r) = n - 1
        /\ \A i \in 1 .. n - 1 : r[i] = IF i < p THEN w[i] ELSE w[i + 1]
    BY <1>1, <1>3, UnlinkQueue DEF Holds, Chain
  <2> HIDE DEF n, p, r
  <2>3. /\ sched_head = w[1] /\ sched_tail = w[n]
        /\ sched_prev[sched_head] = NULL /\ sched_next[sched_tail] = NULL
        /\ \A i \in 1 .. n - 1 : sched_next[w[i]] = w[i + 1] /\ sched_prev[w[i + 1]] = w[i]
    BY <2>1, <1>1 DEF Holds, Chain, n
  <2>4. /\ unlink(victim) /\ n' = n - 1 /\ answer' = answer
    BY <1>3 DEF rr_remove, n
  <2>5. /\ p > 1 => before = w[p - 1] /\ before \in Thread
        /\ p < n => after = w[p + 1] /\ after \in Thread
    <3>1. ASSUME p > 1 PROVE before = w[p - 1] /\ before \in Thread
      <4>1. p - 1 \in 1 .. n - 1 /\ (p - 1) + 1 = p /\ p - 1 \in 1 .. n
        BY <1>1, <2>1, <3>1
      <4> QED BY <1>1, <2>1, <2>3, <4>1
    <3>2. ASSUME p < n PROVE after = w[p + 1] /\ after \in Thread
      <4>1. p \in 1 .. n - 1 /\ p + 1 \in 1 .. n
        BY <1>1, <2>1, <3>2
      <4> QED BY <1>1, <2>1, <2>3, <4>1
    <3> QED BY <3>1, <3>2
  <2>6. /\ victim = sched_head <=> p = 1
        /\ victim = sched_tail <=> p = n
    <3>1. 1 \in 1 .. n /\ n \in 1 .. n
      BY <1>1, <2>1
    <3> QED BY <1>1, <2>1, <2>3, <3>1
  <2> HIDE DEF before, after
  <2>7. /\ sched_prev' \in [Thread -> Pointer] /\ sched_next' \in [Thread -> Pointer]
        /\ p < n => sched_prev'[after] = IF p = 1 THEN NULL ELSE before
        /\ p > 1 => sched_next'[before] = IF p = n THEN NULL ELSE after
        /\ \A t \in Thread : t # victim /\ (p = n \/ t # after) => sched_prev'[t] = sched_prev[t]
        /\ \A t \in Thread : t # victim /\ (p = 1 \/ t # before) => sched_next'[t] = sched_next[t]
        /\ sched_head' = IF p # 1 THEN sched_head ELSE IF p = n THEN NULL ELSE after
        /\ sched_tail' = IF p # n THEN sched_tail ELSE IF p = 1 THEN NULL ELSE before
    <3>1. /\ p < n => after # victim
          /\ p > 1 => before # victim
      BY <1>1, <2>1, <2>5
    <3>2. CASE p = 1 /\ p = n
      BY <2>1, <2>4, <2>6, <3>2 DEF unlink, TypeOK, Pointer
    <3>3. CASE p = 1 /\ p # n
      BY <1>1, <2>1, <2>4, <2>5, <2>6, <3>1, <3>3 DEF unlink, TypeOK, Pointer, after
    <3>4. CASE p # 1 /\ p = n
      BY <1>1, <2>1, <2>4, <2>5, <2>6, <3>1, <3>4 DEF unlink, TypeOK, Pointer, before
    <3>5. CASE p # 1 /\ p # n
      BY <1>1, <2>1, <2>4, <2>5, <2>6, <3>1, <3>5
         DEF unlink, TypeOK, Pointer, before, after
    <3> QED BY <3>2, <3>3, <3>4, <3>5
  <2>8. TypeOK'
    <3>1. sched_head' \in Pointer /\ sched_tail' \in Pointer /\ n' \in Nat
      BY <1>1, <2>1, <2>4, <2>5, <2>7 DEF TypeOK, Pointer
    <3> QED BY <2>4, <2>7, <3>1 DEF TypeOK, n
  <2>9. ASSUME NEW i \in 1 .. n - 2
        PROVE  sched_next'[r[i]] = r[i + 1] /\ sched_prev'[r[i + 1]] = r[i]
    <3>1. i \in 1 .. n - 1 /\ i + 1 \in 1 .. n - 1 /\ i + 1 \in 1 .. n /\ i + 2 \in 1 .. n
          /\ (i + 1) + 1 = i + 2 /\ i \in 1 .. n
      BY <1>1
    <3>2. CASE i + 1 < p
      <4>1. /\ w[i] # victim /\ w[i + 1] # victim
            /\ w[i] # before
            /\ p < n => w[i + 1] # after
        BY <1>1, <2>1, <2>5, <3>1, <3>2
      <4>2. r[i] = w[i] /\ r[i + 1] = w[i + 1]
        BY <2>1, <2>2, <3>1, <3>2
      <4> QED BY <1>1, <2>1, <2>3, <2>7, <3>1, <4>1, <4>2
    <3>3. CASE i + 1 = p
      <4>1. /\ r[i] = w[i] /\ r[i + 1] = w[i + 2]
        BY <2>1, <2>2, <3>1, <3>3
      <4>2. p > 1 /\ p < n /\ before = w[i] /\ after = w[i + 2]
        BY <1>1, <2>5, <3>1, <3>3
      <4> QED BY <1>1, <2>1, <2>7, <4>1, <4>2
    <3>4. CASE i + 1 > p
      <4>1. /\ w[i + 1] # victim /\ w[i + 2] # victim
            /\ p > 1 => w[i + 1] # before
            /\ p < n => w[i + 2] # after
        BY <1>1, <2>1, <2>5, <3>1, <3>4
      <4>2. r[i] = w[i + 1] /\ r[i + 1] = w[i + 2]
        BY <2>1, <2>2, <3>1, <3>4
      <4> QED BY <1>1, <2>1, <2>3, <2>7, <3>1, <4>1, <4>2
    <3> QED BY <2>1, <3>2, <3>3, <3>4
  <2>10. n = 1 => sched_head' = NULL /\ sched_tail' = NULL
    BY <2>1, <2>7
  <2>11. ASSUME n > 1
         PROVE  /\ sched_head' = r[1] /\ sched_tail' = r[n - 1]
                /\ sched_prev'[sched_head'] = NULL /\ sched_next'[sched_tail'] = NULL
    <3>1. 1 \in 1 .. n - 1 /\ n - 1 \in 1 .. n - 1 /\ 1 \in 1 .. n /\ 2 \in 1 .. n
          /\ n - 1 \in 1 .. n /\ n \in 1 .. n /\ (n - 1) + 1 = n /\ 1 + 1 = 2
      BY <1>1, <2>11
    <3>2. sched_head' = r[1] /\ sched_prev'[sched_head'] = NULL
      <4>1. CASE p = 1
        BY <2>2, <2>5, <2>7, <2>11, <3>1, <4>1
      <4>2. CASE p # 1
        <5>1. r[1] = w[1] /\ w[1] # victim
          BY <1>1, <2>1, <2>2, <3>1, <4>2
        <5>2. p < n => w[1] # after
          BY <1>1, <2>1, <2>5, <3>1, <4>2
        <5> QED BY <1>1, <2>1, <2>3, <2>7, <3>1, <4>2, <5>1, <5>2
      <4> QED BY <4>1, <4>2
    <3>3. sched_tail' = r[n - 1] /\ sched_next'[sched_tail'] = NULL
      <4>1. CASE p = n
        BY <2>1, <2>2, <2>5, <2>7, <2>11, <3>1, <4>1
      <4>2. CASE p # n
        <5>1. r[n - 1] = w[n] /\ w[n] # victim
          BY <1>1, <2>1, <2>2, <3>1, <4>2
        <5>2. p > 1 => w[n] # before
          BY <1>1, <2>1, <2>5, <3>1, <4>2
        <5> QED BY <1>1, <2>1, <2>3, <2>7, <3>1, <4>2, <5>1, <5>2
      <4> QED BY <4>1, <4>2
    <3> QED BY <3>2, <3>3
  <2>12. Chain(r, sched_prev', sched_next', sched_head', sched_tail', n - 1)
    <3>1. (n - 1) - 1 = n - 2 /\ (n - 1 = 0 <=> n = 1) /\ (n - 1 > 0 <=> n > 1)
      BY <1>1
    <3> QED BY <2>2, <2>9, <2>10, <2>11, <3>1, Zenon DEF Chain
  <2> QED BY <2>4, <2>8, <2>12 DEF Holds, n, r
<1> QED BY <1>2, <1>3

\* rr_next() moves the head to the tail and answers it.
LEMMA NextStep ==
    ASSUME NEW w, TypeOK, Holds(w), rr_next
    PROVE  TypeOK' /\ Holds(Rotate(w))'
<1> DEFINE n == scheduler_thread_count
           r == Rotate(w)
<1>1. /\ n \in Nat
      /\ w \in Seq(Thread) /\ Len(w) = n
      /\ \A i \in 1 .. n : w[i] \in Thread
      /\ \A i, j \in 1 .. n : w[i] = w[j] => i = j
      /\ sched_head = sched_tail <=> n <= 1
  BY HoldsWalk DEF TypeOK
<1>2. /\ r \in Seq(Thread) /\ Len(r) = n /\ IsInjective(r)
      /\ n > 0 => /\ \A i \in 1 .. n - 1 : r[i] = w[i + 1]
                  /\ r[n] = w[1]
  <2>1. n > 0 => w # <<>>
    BY <1>1, QueueMembers
  <2> QED BY <1>1, <2>1, RotateQueue DEF Holds, Chain
<1>3. n' = n /\ answer' = sched_head
  BY DEF rr_next
<1> HIDE DEF n, r
<1>4. CASE n <= 1
  <2>1. r = w
    <3>1. \A i \in 1 .. n : r[i] = w[i]
      BY <1>1, <1>2, <1>4
    <3> QED BY <1>1, <1>2, <3>1, SeqEqual
  <2>2. UNCHANGED <<links, sched_head, sched_tail, scheduler_thread_count>>
    BY <1>1, <1>4 DEF rr_next
  <2> QED BY <1>3, <2>1, <2>2 DEF links, TypeOK, Holds, r
<1>5. CASE n > 1
  <2>1. 1 \in 1 .. n /\ 2 \in 1 .. n /\ n \in 1 .. n /\ 1 \in 1 .. n - 1 /\ 1 + 1 = 2
    BY <1>1, <1>5
  <2>2. /\ sched_head = w[1] /\ sched_tail = w[n]
        /\ sched_next[w[1]] = w[2]
        /\ \A i \in 1 .. n - 1 : sched_next[w[i]] = w[i + 1] /\ sched_prev[w[i + 1]] = w[i]
    BY <1>1, <1>5, <2>1 DEF Holds, Chain, n
  <2>3. /\ sched_next' = [sched_next EXCEPT ![w[n]] = w[1], ![w[1]] = NULL]
        /\ sched_prev' = [sched_prev EXCEPT ![w[1]] = w[n], ![w[2]] = NULL]
        /\ sched_tail' = w[1] /\ sched_head' = w[2]
    BY <1>1, <1>5, <2>2 DEF rr_next
  <2>4. w[1] # w[n] /\ w[1] # w[2] /\ w[1] \in Thread /\ w[2] \in Thread /\ w[n] \in Thread
    BY <1>1, <1>5, <2>1
  <2>5. TypeOK'
    BY <1>1, <1>3, <2>2, <2>3, <2>4 DEF TypeOK, Pointer, n
  <2>6. /\ sched_next'[w[n]] = w[1] /\ sched_next'[w[1]] = NULL
        /\ sched_prev'[w[1]] = w[n] /\ sched_prev'[w[2]] = NULL
        /\ \A t \in Thread : t # w[1] /\ t # w[n] => sched_next'[t] = sched_next[t]
        /\ \A t \in Thread : t # w[1] /\ t # w[2] => sched_prev'[t] = sched_prev[t]
    BY <2>3, <2>4 DEF TypeOK
  <2>7. ASSUME NEW i \in 1 .. n - 1
        PROVE  sched_next'[r[i]] = r[i + 1] /\ sched_prev'[r[i + 1]] = r[i]
    <3>1. CASE i = n - 1
      <4>1. r[i] = w[n] /\ r[i + 1] = w[1]
        BY <1>1, <1>2, <1>5, <3>1
      <4> QED BY <2>6, <4>1
    <3>2. CASE i # n - 1
      <4>1. i + 1 \in 1 .. n - 1 /\ i + 1 \in 1 .. n /\ i + 2 \in 1 .. n /\ (i + 1) + 1 = i + 2
        BY <1>1, <3>2
      <4>2. r[i] = w[i + 1] /\ r[i + 1] = w[i + 2]
        BY <1>1, <1>2, <1>5, <4>1
      <4>3. w[i + 1] # w[1] /\ w[i + 1] # w[n] /\ w[i + 2] # w[1] /\ w[i + 2] # w[2]
        BY <1>1, <2>1, <4>1
      <4>4. w[i + 1] \in Thread /\ w[i + 2] \in Thread
        BY <1>1, <4>1
      <4> QED BY <2>2, <2>6, <4>1, <4>2, <4>3, <4>4
    <3> QED BY <3>1, <3>2
  <2>8. /\ sched_head' = r[1] /\ sched_tail' = r[n]
        /\ sched_prev'[sched_head'] = NULL /\ sched_next'[sched_tail'] = NULL
    BY <1>1, <1>2, <1>5, <2>1, <2>3, <2>6
  <2>9. Chain(r, sched_prev', sched_next', sched_head', sched_tail', n)
    <3>1. n # 0
      BY <1>5
    <3> QED BY <1>2, <2>7, <2>8, <3>1, Zenon DEF Chain
  <2> QED BY <1>3, <2>5, <2>9 DEF Holds, n, r
<1> QED BY <1>1, <1>4, <1>5

-----------------------------------------------------------------------------
\* Every step keeps the list chained.
LEMMA InvariantStep == IndInv /\ [Next]_vars => IndInv'
<1> SUFFICES ASSUME IndInv, [Next]_vars PROVE IndInv'
  OBVIOUS
<1>1. PICK w : w = Walk
  OBVIOUS
<1>2. TypeOK /\ Holds(w)
  BY <1>1 DEF IndInv
<1>3. \E v : TypeOK' /\ Holds(v)'
  <2>1. CASE Reset
    BY <1>2, <2>1, ResetStep
  <2>2. CASE rr_next
    BY <1>2, <2>2, NextStep
  <2>3. ASSUME NEW t \in Thread, rr_admit(t) PROVE \E v : TypeOK' /\ Holds(v)'
    BY <1>2, <2>3, AdmitStep
  <2>4. ASSUME NEW t \in Thread, rr_remove(t) PROVE \E v : TypeOK' /\ Holds(v)'
    BY <1>2, <2>4, RemoveStep
  <2>5. CASE UNCHANGED vars
    BY <1>2, <2>5 DEF vars, links, TypeOK, Holds
  <2> QED BY <2>1, <2>2, <2>3, <2>4, <2>5 DEF Next
<1> QED BY <1>3, HoldsWalkPrime DEF IndInv

\* The list is empty at first.
LEMMA InitInv == Init => IndInv /\ Walk = <<>>
<1> SUFFICES ASSUME Init PROVE IndInv /\ Walk = <<>>
  OBVIOUS
<1>1. TypeOK /\ Holds(<<>>)
  BY EmptyQueue DEF Init, TypeOK, Pointer, Holds, Chain
<1> QED BY <1>1, HoldsWalk DEF IndInv

\* The invariant of the list.
LEMMA Invariance == Spec => []IndInv
BY InitInv, InvariantStep, PTL DEF Spec

\* Every pointer of scheduler.c is a context or null.
THEOREM TypeCorrect == Spec => []TypeOK
<1>1. IndInv => TypeOK
  BY DEF IndInv
<1> QED BY Invariance, <1>1, PTL

\* The list reads the same in both directions, visits every member once and
\* ends where the globals say, however many threads there are.
THEOREM ListWellLinked == Spec => []WellLinked
<1>1. IndInv => WellLinked
  <2> SUFFICES ASSUME IndInv PROVE WellLinked
    OBVIOUS
  <2> DEFINE n == scheduler_thread_count
  <2>1. /\ n \in Nat /\ Members = Range(Walk) /\ Walk \in Seq(Thread)
        /\ \A i, j \in 1 .. n : Walk[i] = Walk[j] => i = j
        /\ sched_head = NULL <=> n = 0
        /\ sched_tail = NULL <=> n = 0
    BY HoldsWalk DEF IndInv, TypeOK
  <2>2. Members \subseteq Thread
    BY <2>1, QueueMembers
  <2>3. /\ n > 0 => /\ sched_prev[sched_head] = NULL
                    /\ sched_next[sched_tail] = NULL
                    /\ Walk[n] = sched_tail
    BY DEF IndInv, Holds, Chain
  <2>4. ASSUME NEW i \in 2 .. n PROVE sched_prev[Walk[i]] = Walk[i - 1]
    <3>1. i - 1 \in 1 .. n - 1 /\ (i - 1) + 1 = i
      BY <2>1
    <3>2. sched_prev[Walk[(i - 1) + 1]] = Walk[i - 1]
      BY <3>1, Zenon DEF IndInv, Holds, Chain
    <3> QED BY <3>1, <3>2
  <2> QED BY <2>1, <2>2, <2>3, <2>4 DEF WellLinked
<1> QED BY Invariance, <1>1, PTL

\* The doubly linked list implements the queue that Lwp works with: admit()
\* appends, remove() takes out one member and keeps the order of the others, and
\* next() answers the head and sends it to the tail.
THEOREM ListIsReadyQueue == Spec => IsReadyQueue
<1>1. Init => Ready!Init
  BY InitInv DEF Init, Ready!Init
<1>2. IndInv /\ [Next]_vars => [Ready!Next]_<<Walk, answer>>
  <2> SUFFICES ASSUME IndInv, [Next]_vars
               PROVE  Ready!Next \/ UNCHANGED <<Walk, answer>>
    OBVIOUS
  <2>1. PICK w : w = Walk
    OBVIOUS
  <2>2. TypeOK /\ Holds(w) /\ Members = Range(w) /\ w \in Seq(Thread)
    BY <2>1, HoldsWalk DEF IndInv
  <2>3. CASE Reset
    <3>1. Walk' = <<>>
      BY <2>2, <2>3, ResetStep, HoldsWalkPrime
    <3> QED BY <2>3, <3>1 DEF Reset, Ready!Next, Ready!Reset
  <2>4. CASE rr_next
    <3>1. Walk' = Rotate(w)
      BY <2>2, <2>4, NextStep, HoldsWalkPrime
    <3>2. answer' = IF w = <<>> THEN NULL ELSE Head(w)
      <4>1. CASE w = <<>>
        BY <2>2, <2>4, <4>1, EmptyQueue DEF rr_next, Holds, Chain
      <4>2. CASE w # <<>>
        <5>1. Len(w) \in Nat /\ Len(w) # 0 /\ Head(w) = w[1]
          BY <2>2, <4>2, QueueMembers, TailQueue
        <5>2. sched_head = w[1]
          BY <2>2, <5>1 DEF Holds, Chain
        <5> QED BY <2>4, <4>2, <5>1, <5>2 DEF rr_next
      <4> QED BY <4>1, <4>2
    <3> QED BY <2>1, <3>1, <3>2, Zenon
        DEF Ready!Next, Ready!NextThread, Ready!Rotate, Rotate
  <2>5. ASSUME NEW t \in Thread, rr_admit(t) PROVE Ready!Next
    <3>1. Walk' = Append(w, t)
      BY <2>2, <2>5, AdmitStep, HoldsWalkPrime
    <3>2. t \notin Range(w) /\ answer' = answer
      BY <2>2, <2>5 DEF rr_admit
    <3> QED BY <2>1, <2>5, <3>1, <3>2, Zenon
        DEF Ready!Next, Ready!Admit, Ready!Range, Range
  <2>6. ASSUME NEW t \in Thread, rr_remove(t) PROVE Ready!Next
    <3>1. Walk' = Unlink(w, t)
      BY <2>2, <2>6, RemoveStep, HoldsWalkPrime
    <3>2. answer' = answer
      BY <2>6 DEF rr_remove
    <3>3. Ready!Position(w, t) = Position(w, t)
      BY DEF Ready!Position, Position
    <3>4. Ready!Range(w) = Range(w)
      BY DEF Ready!Range, Range
    <3>5. Ready!Unlink(w, t) = Unlink(w, t)
      BY <3>3, <3>4, Zenon DEF Ready!Unlink, Unlink
    <3> QED BY <2>1, <2>6, <3>1, <3>2, <3>5, Zenon DEF Ready!Next, Ready!Remove
  <2>7. CASE UNCHANGED vars
    BY <2>7 DEF vars, links, Walk
  <2> QED BY <2>3, <2>4, <2>5, <2>6, <2>7 DEF Next
<1> QED BY Invariance, <1>1, <1>2, PTL DEF Spec, IsReadyQueue, Ready!Spec
=============================================================================
