---------------------------- MODULE QueueProofs ----------------------------
(***************************************************************************)
(* What the operations of Queue do to the members of a queue and to their  *)
(* order, for queues of any length over any set.                           *)
(***************************************************************************)
EXTENDS Queue, SequenceTheorems, WellFoundedInduction, TLAPS

\* Every set of natural numbers has a least element: the induction of what
\* follows.
LEMMA Least ==
    ASSUME NEW T \in SUBSET Nat, T # {}
    PROVE  \E m \in T : \A k \in T : m <= k
<1>1. PICK m \in T : \A k \in T : ~(<<k, m>> \in OpToRel(<, Nat))
  BY WFMin, NatLessThanWellFounded, Zenon
<1>2. \A k \in T : k < m => <<k, m>> \in OpToRel(<, Nat)
  BY Zenon DEF OpToRel
<1>3. \A k \in T : ~(k < m)
  BY <1>1, <1>2
<1> QED BY <1>3

\* A queue is a function on 1 .. Len, and its members are its values.
LEMMA QueueMembers ==
    ASSUME NEW S, NEW q \in Seq(S)
    PROVE  /\ Len(q) \in Nat /\ DOMAIN q = 1 .. Len(q)
           /\ \A i \in 1 .. Len(q) : q[i] \in S /\ q[i] \in Range(q)
           /\ \A x : x \in Range(q) <=> \E i \in 1 .. Len(q) : q[i] = x
           /\ Range(q) \subseteq S
           /\ q = <<>> <=> Len(q) = 0
           /\ q = <<>> <=> Range(q) = {}
<1>1. Len(q) \in Nat /\ DOMAIN q = 1 .. Len(q) /\ \A i \in 1 .. Len(q) : q[i] \in S
  BY LenProperties
<1>2. \A x : x \in Range(q) <=> \E i \in 1 .. Len(q) : q[i] = x
  BY <1>1 DEF Range
<1>3. q = <<>> <=> Len(q) = 0
  BY <1>1, EmptySeq
<1>4. q = <<>> <=> Range(q) = {}
  <2>1. CASE q = <<>>
    BY <1>1, <1>2, <1>3, <2>1
  <2>2. CASE q # <<>>
    <3>1. 1 \in 1 .. Len(q)
      BY <1>1, <1>3, <2>2
    <3> QED BY <1>2, <2>2, <3>1
  <2> QED BY <2>1, <2>2
<1> QED BY <1>1, <1>2, <1>3, <1>4

\* No member twice, said of indices.
LEMMA Injective ==
    ASSUME NEW S, NEW q \in Seq(S)
    PROVE  IsInjective(q) <=> \A i, j \in 1 .. Len(q) : q[i] = q[j] => i = j
BY QueueMembers DEF IsInjective

\* The empty queue.
LEMMA EmptyQueue ==
    /\ \A S : <<>> \in Seq(S)
    /\ Len(<<>>) = 0 /\ Range(<<>>) = {} /\ IsInjective(<<>>)
<1>1. <<>> \in Seq({}) /\ Len(<<>>) = 0
  BY EmptySeq
<1> QED BY <1>1, EmptySeq, QueueMembers, Injective

\* Insertion at the tail.
LEMMA AppendQueue ==
    ASSUME NEW S, NEW q \in Seq(S), NEW x \in S
    PROVE  /\ Append(q, x) \in Seq(S)
           /\ Len(Append(q, x)) = Len(q) + 1
           /\ Append(q, x) # <<>>
           /\ \A i \in 1 .. Len(q) : Append(q, x)[i] = q[i]
           /\ Append(q, x)[Len(q) + 1] = x
           /\ Range(Append(q, x)) = Range(q) \cup {x}
           /\ IsInjective(q) /\ x \notin Range(q) => IsInjective(Append(q, x))
<1> DEFINE r == Append(q, x)
<1>1. /\ r \in Seq(S) /\ Len(r) = Len(q) + 1
      /\ \A i \in 1 .. Len(q) : r[i] = q[i]
      /\ r[Len(q) + 1] = x
  BY AppendProperties
<1>2. Len(q) \in Nat
  BY QueueMembers
<1>3. Range(r) = Range(q) \cup {x}
  <2>1. \A y : y \in Range(r) <=> \E i \in 1 .. Len(r) : r[i] = y
    BY <1>1, QueueMembers
  <2>2. \A y : y \in Range(q) <=> \E i \in 1 .. Len(q) : q[i] = y
    BY QueueMembers
  <2> HIDE DEF r
  <2> QED BY <1>1, <1>2, <2>1, <2>2
<1>4. ASSUME IsInjective(q), x \notin Range(q) PROVE IsInjective(r)
  <2>1. \A i, j \in 1 .. Len(q) : q[i] = q[j] => i = j
    BY <1>4, Injective
  <2>2. \A i \in 1 .. Len(q) : q[i] # x
    BY <1>4, QueueMembers
  <2> HIDE DEF r
  <2>3. \A i, j \in 1 .. Len(r) : r[i] = r[j] => i = j
    BY <1>1, <1>2, <2>1, <2>2
  <2> QED BY <1>1, <2>3, Injective
<1>5. r # <<>>
  <2> HIDE DEF r
  <2> QED BY <1>1, <1>2, QueueMembers
<1> QED BY <1>1, <1>3, <1>4, <1>5

\* Removal of the head.
LEMMA TailQueue ==
    ASSUME NEW S, NEW q \in Seq(S), q # <<>>
    PROVE  /\ Head(q) \in S /\ Head(q) = q[1] /\ Head(q) \in Range(q)
           /\ Tail(q) \in Seq(S)
           /\ Len(Tail(q)) = Len(q) - 1
           /\ \A i \in 1 .. Len(q) - 1 : Tail(q)[i] = q[i + 1]
           /\ Range(q) = Range(Tail(q)) \cup {Head(q)}
           /\ IsInjective(q) => /\ IsInjective(Tail(q))
                                /\ Head(q) \notin Range(Tail(q))
<1> DEFINE r == Tail(q)
<1>1. /\ Head(q) \in S /\ r \in Seq(S)
      /\ Len(r) = Len(q) - 1
      /\ \A i \in 1 .. Len(q) - 1 : r[i] = q[i + 1]
  BY HeadTailProperties
<1>2. Head(q) = q[1]
  OBVIOUS
<1>3. Len(q) \in Nat \ {0}
  BY QueueMembers
<1>4. \A y : y \in Range(r) <=> \E i \in 1 .. Len(r) : r[i] = y
  BY <1>1, QueueMembers
<1>5. \A y : y \in Range(q) <=> \E i \in 1 .. Len(q) : q[i] = y
  BY QueueMembers
<1> HIDE DEF r
<1>6. Range(q) = Range(r) \cup {Head(q)}
  <2>1. ASSUME NEW y \in Range(q) PROVE y \in Range(r) \cup {Head(q)}
    <3>1. PICK i \in 1 .. Len(q) : q[i] = y
      BY <1>5, <2>1
    <3>2. CASE i = 1
      BY <1>2, <3>1, <3>2
    <3>3. CASE i # 1
      <4>1. i - 1 \in 1 .. Len(r) /\ r[i - 1] = y
        BY <1>1, <1>3, <3>1, <3>3
      <4> QED BY <1>4, <4>1
    <3> QED BY <3>2, <3>3
  <2>2. Range(r) \cup {Head(q)} \subseteq Range(q)
    BY <1>1, <1>2, <1>3, <1>4, <1>5
  <2> QED BY <2>1, <2>2
<1>7. ASSUME IsInjective(q) PROVE IsInjective(r) /\ Head(q) \notin Range(r)
  <2>1. \A i, j \in 1 .. Len(q) : q[i] = q[j] => i = j
    BY <1>7, Injective
  <2>2. \A i, j \in 1 .. Len(r) : r[i] = r[j] => i = j
    BY <1>1, <1>3, <2>1
  <2>3. \A i \in 1 .. Len(r) : r[i] # Head(q)
    BY <1>1, <1>2, <1>3, <2>1
  <2> QED BY <1>1, <1>4, <2>2, <2>3, Injective
<1> QED BY <1>1, <1>2, <1>3, <1>5, <1>6, <1>7 DEF r

\* The walk from the head finds a member, at the first place it is in.
LEMMA PositionFound ==
    ASSUME NEW S, NEW q \in Seq(S), NEW x \in Range(q)
    PROVE  /\ Position(q, x) \in 1 .. Len(q)
           /\ q[Position(q, x)] = x
           /\ \A j \in 1 .. Len(q) : j < Position(q, x) => q[j] # x
<1> DEFINE T == {i \in Nat : i \in 1 .. Len(q) /\ q[i] = x}
<1>1. Len(q) \in Nat /\ DOMAIN q = 1 .. Len(q)
  BY QueueMembers
<1>2. PICK i \in T : \A k \in T : i <= k
  <2>1. PICK k \in 1 .. Len(q) : q[k] = x
    BY QueueMembers
  <2>2. k \in T
    BY <1>1, <2>1
  <2>3. T \in SUBSET Nat
    OBVIOUS
  <2> HIDE DEF T
  <2> QED BY <2>2, <2>3, Least
<1>3. i \in DOMAIN q /\ q[i] = x /\ \A j \in DOMAIN q : j < i => q[j] # x
  <2>1. ASSUME NEW j \in DOMAIN q, j < i PROVE q[j] # x
    <3>1. j \in Nat /\ i \in Nat
      BY <1>1, <1>2, <2>1
    <3>2. q[j] = x => j \in T
      BY <1>1, <2>1, <3>1
    <3> QED BY <1>2, <2>1, <3>1, <3>2
  <2> QED BY <1>1, <1>2, <2>1
<1> QED BY <1>1, <1>3, Zenon DEF Position

\* Removal of a member, wherever it is; of a stranger, nothing.
LEMMA UnlinkQueue ==
    ASSUME NEW S, NEW q \in Seq(S), NEW x
    PROVE  /\ Unlink(q, x) \in Seq(S)
           /\ x \notin Range(q) => Unlink(q, x) = q
           /\ x \in Range(q) =>
                /\ Len(Unlink(q, x)) = Len(q) - 1
                /\ \A i \in 1 .. Len(q) - 1 :
                       Unlink(q, x)[i] = IF i < Position(q, x) THEN q[i] ELSE q[i + 1]
           /\ Range(q) \subseteq Range(Unlink(q, x)) \cup {x}
           /\ Range(Unlink(q, x)) \subseteq Range(q)
           /\ IsInjective(q) => /\ IsInjective(Unlink(q, x))
                                /\ x \notin Range(Unlink(q, x))
<1>1. CASE x \notin Range(q)
  BY <1>1 DEF Unlink
<1>2. CASE x \in Range(q)
  <2> DEFINE p == Position(q, x)
             r == [i \in 1 .. Len(q) - 1 |-> IF i < p THEN q[i] ELSE q[i + 1]]
  <2>1. Unlink(q, x) = r
    BY <1>2 DEF Unlink
  <2>2. Len(q) \in Nat \ {0} /\ \A i \in 1 .. Len(q) : q[i] \in S
    BY <1>2, QueueMembers
  <2>3. p \in 1 .. Len(q) /\ q[p] = x
    BY <1>2, PositionFound
  <2> HIDE DEF p
  <2>4. r \in Seq(S)
    <3>1. Len(q) - 1 \in Nat /\ \A i \in 1 .. Len(q) - 1 :
             (IF i < p THEN q[i] ELSE q[i + 1]) \in S
      BY <2>2, <2>3
    <3> QED BY <3>1, IsASeq
  <2>5. Len(r) = Len(q) - 1
    BY <2>2
  <2>6. \A i \in 1 .. Len(q) - 1 : r[i] = IF i < p THEN q[i] ELSE q[i + 1]
    BY DEF r
  <2> HIDE DEF r
  <2>7. \A y : y \in Range(r) <=> \E i \in 1 .. Len(r) : r[i] = y
    BY <2>4, QueueMembers
  <2>8. \A y : y \in Range(q) <=> \E i \in 1 .. Len(q) : q[i] = y
    BY QueueMembers
  <2>9. ASSUME NEW y \in Range(q) PROVE y \in Range(r) \cup {x}
    <3>1. PICK i \in 1 .. Len(q) : q[i] = y
      BY <2>8, <2>9
    <3>2. CASE i < p
      BY <2>2, <2>3, <2>5, <2>6, <2>7, <3>1, <3>2
    <3>3. CASE i = p
      BY <2>3, <3>1, <3>3
    <3>4. CASE i > p
      <4>1. i - 1 \in 1 .. Len(r) /\ r[i - 1] = y
        BY <2>2, <2>3, <2>5, <2>6, <3>1, <3>4
      <4> QED BY <2>7, <4>1
    <3> QED BY <2>3, <3>2, <3>3, <3>4
  <2>10. Range(r) \subseteq Range(q)
    <3>1. ASSUME NEW i \in 1 .. Len(r) PROVE r[i] \in Range(q)
      <4>1. i \in 1 .. Len(q) /\ i + 1 \in 1 .. Len(q)
        BY <2>2, <2>5
      <4> QED BY <2>2, <2>5, <2>6, <2>8, <4>1
    <3> QED BY <2>7, <3>1
  <2>11. ASSUME IsInjective(q) PROVE IsInjective(r) /\ x \notin Range(r)
    <3>1. \A i, j \in 1 .. Len(q) : q[i] = q[j] => i = j
      BY <2>11, Injective
    <3>2. \A i, j \in 1 .. Len(r) : r[i] = r[j] => i = j
      BY <2>2, <2>3, <2>5, <2>6, <3>1
    <3>3. \A i \in 1 .. Len(r) : r[i] # x
      BY <2>2, <2>3, <2>5, <2>6, <3>1
    <3> QED BY <2>4, <2>7, <3>2, <3>3, Injective
  <2> QED BY <1>2, <2>1, <2>4, <2>5, <2>6, <2>9, <2>10, <2>11 DEF p
<1> QED BY <1>1, <1>2

\* Removal of the head by the walk is removal of the head.
LEMMA UnlinkHead ==
    ASSUME NEW S, NEW q \in Seq(S), q # <<>>
    PROVE  Unlink(q, Head(q)) = Tail(q)
<1>1. Head(q) = q[1] /\ Head(q) \in Range(q) /\ Tail(q) \in Seq(S)
      /\ Len(Tail(q)) = Len(q) - 1
      /\ \A i \in 1 .. Len(q) - 1 : Tail(q)[i] = q[i + 1]
  BY TailQueue
<1>2. Len(q) \in Nat \ {0}
  BY QueueMembers
<1> DEFINE p == Position(q, Head(q))
<1>3. p = 1
  <2>1. /\ p \in 1 .. Len(q)
        /\ \A j \in 1 .. Len(q) : j < p => q[j] # Head(q)
    BY <1>1, PositionFound
  <2> HIDE DEF p
  <2> QED BY <1>1, <1>2, <2>1
<1>4. /\ Unlink(q, Head(q)) \in Seq(S)
      /\ Len(Unlink(q, Head(q))) = Len(q) - 1
      /\ \A i \in 1 .. Len(q) - 1 : Unlink(q, Head(q))[i] = IF i < p THEN q[i] ELSE q[i + 1]
  BY <1>1, UnlinkQueue
<1> HIDE DEF p
<1>5. ASSUME NEW i \in 1 .. Len(q) - 1 PROVE Unlink(q, Head(q))[i] = Tail(q)[i]
  <2>1. ~(i < p)
    BY <1>2, <1>3
  <2> QED BY <1>1, <1>4, <2>1, Zenon
<1> QED BY <1>1, <1>4, <1>5, SeqEqual

\* The head to the tail: the same members.
LEMMA RotateQueue ==
    ASSUME NEW S, NEW q \in Seq(S)
    PROVE  /\ Rotate(q) \in Seq(S)
           /\ Len(Rotate(q)) = Len(q)
           /\ Range(Rotate(q)) = Range(q)
           /\ IsInjective(q) => IsInjective(Rotate(q))
           /\ q = <<>> => Rotate(q) = <<>>
           /\ q # <<>> => /\ \A i \in 1 .. Len(q) - 1 : Rotate(q)[i] = q[i + 1]
                          /\ Rotate(q)[Len(q)] = q[1]
<1>1. CASE q = <<>>
  BY <1>1 DEF Rotate
<1>2. CASE q # <<>>
  <2>1. Rotate(q) = Append(Tail(q), Head(q))
    BY <1>2 DEF Rotate
  <2>2. Len(q) \in Nat \ {0}
    BY <1>2, QueueMembers
  <2>3. /\ Head(q) \in S /\ Head(q) = q[1] /\ Tail(q) \in Seq(S)
        /\ Len(Tail(q)) = Len(q) - 1
        /\ \A i \in 1 .. Len(q) - 1 : Tail(q)[i] = q[i + 1]
        /\ Range(q) = Range(Tail(q)) \cup {Head(q)}
        /\ IsInjective(q) => IsInjective(Tail(q)) /\ Head(q) \notin Range(Tail(q))
    BY <1>2, TailQueue
  <2> DEFINE h == Head(q)
             t == Tail(q)
             r == Append(t, h)
  <2> HIDE DEF h, t
  <2>4. /\ r \in Seq(S) /\ Len(r) = Len(t) + 1
        /\ \A i \in 1 .. Len(t) : r[i] = t[i]
        /\ r[Len(t) + 1] = h
        /\ Range(r) = Range(t) \cup {h}
        /\ IsInjective(t) /\ h \notin Range(t) => IsInjective(r)
    <3>1. t \in Seq(S) /\ h \in S
      BY <2>3 DEF h, t
    <3> QED BY <3>1, AppendQueue
  <2> HIDE DEF r
  <2> QED BY <1>2, <2>1, <2>2, <2>3, <2>4 DEF h, t, r
<1> QED BY <1>1, <1>2
=============================================================================
