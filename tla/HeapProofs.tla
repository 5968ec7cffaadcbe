----------------------------- MODULE HeapProofs -----------------------------
(***************************************************************************)
(* Proofs about Heap, for any alignment, header, chunk and word, any heap  *)
(* and any sequence of requests, as long as nobody else moves the break    *)
(* once the allocator uses it and no size is at the top of size_t.  There  *)
(* the code fails: a size is rounded to 0, or loses its carry with the     *)
(* header added, or is a negative argument for sbrk(), which then takes    *)
(* memory back that clients use.                                           *)
(***************************************************************************)
EXTENDS Heap, QueueProofs

\* A size that is rounded, given a header and added to the break without wrapping,
\* so that sbrk() refuses it if its signed argument is negative.
Fits(n) == n + ALIGN + header_size + Limit <= Word

\* The break is the allocator's own, and all requests fit.
Modest ==
    /\ ~SharedBreak
    /\ CHUNK_SIZE + Limit <= Word
    /\ \A n \in Sizes : Fits(n) /\ \A k \in Counts : k * n < Word => Fits(k * n)

-----------------------------------------------------------------------------
\* Arithmetic of multiples.
LEMMA DivMod ==
    ASSUME NEW A \in Nat \ {0}, NEW x \in Nat
    PROVE  /\ x = A * (x \div A) + (x % A)
           /\ x % A \in 0 .. A - 1 /\ x \div A \in Nat
OBVIOUS

LEMMA MultipleMod ==
    ASSUME NEW A \in Nat \ {0}, NEW k \in Nat
    PROVE  (A * k) % A = 0
OBVIOUS

LEMMA SmallMod ==
    ASSUME NEW A \in Nat \ {0}, NEW x \in Nat, x < A
    PROVE  x % A = x
OBVIOUS

LEMMA SumMod ==
    ASSUME NEW A \in Nat \ {0}, NEW x \in Nat, NEW y \in Nat, x % A = 0, y % A = 0
    PROVE  (x + y) % A = 0
<1>1. PICK k \in Nat : x = A * k
    <2>1. x = A * (x \div A) + 0 /\ x \div A \in Nat
        BY DivMod, Zenon
    <2>2. PICK q \in Nat : x = A * q + 0
        BY <2>1, Zenon
    <2> QED BY <2>2
<1>2. PICK l \in Nat : y = A * l
    <2>1. y = A * (y \div A) + 0 /\ y \div A \in Nat
        BY DivMod, Zenon
    <2>2. PICK q \in Nat : y = A * q + 0
        BY <2>1, Zenon
    <2> QED BY <2>2
<1>3. x + y = A * (k + l) /\ k + l \in Nat
    BY <1>1, <1>2
<1>4. (A * (k + l)) % A = 0
    BY <1>3, MultipleMod
<1> QED BY <1>3, <1>4

LEMMA DifferenceMod ==
    ASSUME NEW A \in Nat \ {0}, NEW x \in Nat, NEW y \in Nat, x % A = 0, y % A = 0, y <= x
    PROVE  x - y \in Nat /\ (x - y) % A = 0
<1>1. PICK k \in Nat : x = A * k
    <2>1. x = A * (x \div A) + 0 /\ x \div A \in Nat
        BY DivMod, Zenon
    <2>2. PICK q \in Nat : x = A * q + 0
        BY <2>1, Zenon
    <2> QED BY <2>2
<1>2. PICK l \in Nat : y = A * l
    <2>1. y = A * (y \div A) + 0 /\ y \div A \in Nat
        BY DivMod, Zenon
    <2>2. PICK q \in Nat : y = A * q + 0
        BY <2>1, Zenon
    <2> QED BY <2>2
<1>3. l <= k
    <2>1. SUFFICES ASSUME k < l PROVE FALSE
        BY <1>1, <1>2
    <2>2. k + 1 <= l /\ A * (k + 1) = x + A
        BY <1>1, <2>1
    <2>3. A * (k + 1) <= A * l
        BY <2>2
    <2> QED BY <1>2, <2>2, <2>3
<1>4. x - y = A * (k - l) /\ k - l \in Nat
    BY <1>1, <1>2, <1>3
<1>5. (A * (k - l)) % A = 0
    BY <1>4, MultipleMod
<1> QED BY <1>4, <1>5

-----------------------------------------------------------------------------
\* round_up_16() gives the next multiple, unless it wraps.
LEMMA RoundUp ==
    ASSUME NEW n \in Nat, n + ALIGN <= Word
    PROVE  /\ round_up_16(n) \in Nat /\ round_up_16(n) % ALIGN = 0
           /\ n <= round_up_16(n) /\ round_up_16(n) < n + ALIGN
<1>1. ALIGN \in Nat \ {0} /\ Word \in Nat \ {0}
    BY AlignAssumption
<1>2. n + ALIGN - 1 \in Nat /\ (n + ALIGN - 1) % Word = n + ALIGN - 1
    BY <1>1, SmallMod
<1> DEFINE x == n + ALIGN - 1
           k == x \div ALIGN
<1>3. round_up_16(n) = k * ALIGN
    BY <1>2 DEF round_up_16
<1>4. x = ALIGN * k + (x % ALIGN) /\ x % ALIGN \in 0 .. ALIGN - 1 /\ k \in Nat
    BY <1>1, <1>2, DivMod
<1>5. (ALIGN * k) % ALIGN = 0
    BY <1>1, <1>4, MultipleMod
<1> HIDE DEF k
<1>6. k * ALIGN = ALIGN * k /\ ALIGN * k \in Nat
    BY <1>1, <1>4
<1> QED BY <1>1, <1>3, <1>4, <1>5, <1>6

\* A multiple is rounded to itself.
LEMMA RoundedStays ==
    ASSUME NEW n \in Nat, n + ALIGN <= Word, n % ALIGN = 0
    PROVE  round_up_16(n) = n
<1>1. ALIGN \in Nat \ {0}
    BY AlignAssumption
<1>2. /\ round_up_16(n) \in Nat /\ round_up_16(n) % ALIGN = 0
      /\ n <= round_up_16(n) /\ round_up_16(n) < n + ALIGN
    BY RoundUp
<1> DEFINE d == round_up_16(n) - n
<1>3. d \in Nat /\ d % ALIGN = 0
    BY <1>1, <1>2, DifferenceMod
<1>4. d < ALIGN
    BY <1>1, <1>2
<1>5. d % ALIGN = d
    BY <1>1, <1>3, <1>4, SmallMod
<1> QED BY <1>2, <1>3, <1>5

\* What is known of the constants.
LEMMA Sizing ==
    /\ header_size \in Nat \ {0}
    /\ header_size + MINIMUM_PAYLOAD_SIZE <= CHUNK_SIZE
    /\ CHUNK_SIZE \in Nat \ {0}
    /\ MINIMUM_PAYLOAD_SIZE \in Nat \ {0} /\ MINIMUM_PAYLOAD_SIZE <= ALIGN
    /\ ALIGN \in Nat \ {0} /\ Word \in Nat \ {0}
    /\ Base \in Nat \ {0} /\ Limit \in Nat /\ Base <= Limit /\ Limit < Word
    /\ CHUNK_SIZE < Word
<1>1. /\ CHUNK_SIZE \in Nat \ {0} /\ CHUNK_SIZE % ALIGN = 0
      /\ MINIMUM_PAYLOAD_SIZE \in Nat \ {0} /\ MINIMUM_PAYLOAD_SIZE <= ALIGN
      /\ ALIGN \in Nat \ {0} /\ Word \in Nat \ {0}
      /\ SIZEOF_HEADER \in Nat \ {0} /\ SIZEOF_HEADER + ALIGN + MINIMUM_PAYLOAD_SIZE <= CHUNK_SIZE
      /\ CHUNK_SIZE < Word
    BY AlignAssumption
<1>2. /\ Base \in Nat \ {0} /\ Limit \in Nat /\ Base <= Limit /\ Limit < Word
    BY BreakAssumption
<1>3. /\ header_size \in Nat /\ header_size % ALIGN = 0
      /\ SIZEOF_HEADER <= header_size /\ header_size < SIZEOF_HEADER + ALIGN
    BY <1>1, RoundUp DEF header_size
<1> QED BY <1>1, <1>2, <1>3

LEMMA Multiples == header_size % ALIGN = 0 /\ CHUNK_SIZE % ALIGN = 0
<1>1. /\ CHUNK_SIZE % ALIGN = 0 /\ SIZEOF_HEADER \in Nat
      /\ SIZEOF_HEADER + ALIGN <= Word
    BY AlignAssumption
<1>2. header_size % ALIGN = 0
    BY <1>1, RoundUp DEF header_size
<1> QED BY <1>1, <1>2

-----------------------------------------------------------------------------
\* The blocks of a list that are in use.
Used(list) == {list[i] : i \in {j \in DOMAIN list : ~list[j].is_free}}

Merged(list) == \A i \in 1 .. Len(list) - 1 : ~(list[i].is_free /\ list[i + 1].is_free)

\* A list over memory that ends at `end` and lies above the addresses F.
Laid(list, F, end) ==
    /\ list \in Seq(Block)
    /\ Tiled(list, end)
    /\ end \in Base .. Limit
    /\ F \subseteq Nat /\ \A i \in DOMAIN list : \A a \in F : a < list[i].addr

\* Block i of such a list.
InPlace(list, F, end, i) ==
    /\ Payload(list[i]) % ALIGN = 0
    /\ list[i].payload_capacity % ALIGN = 0
    /\ \A a \in F : a < list[i].addr
    /\ i < Len(list) => End(list[i]) = list[i + 1].addr
    /\ i = Len(list) => End(list[i]) = end

\* The numbers of a block.
LEMMA BlockNumbers ==
    ASSUME NEW b \in Block
    PROVE  /\ b.addr \in Nat /\ Base <= b.addr /\ b.addr < Limit
           /\ b.payload_capacity \in Nat /\ MINIMUM_PAYLOAD_SIZE <= b.payload_capacity
           /\ b.payload_capacity < Word
           /\ b.is_free \in BOOLEAN
           /\ Payload(b) = b.addr + header_size /\ Payload(b) \in Nat
           /\ End(b) = b.addr + header_size + b.payload_capacity /\ End(b) \in Nat
           /\ b.addr < Payload(b) /\ Payload(b) < End(b)
           /\ b = [addr |-> b.addr, payload_capacity |-> b.payload_capacity,
                   is_free |-> b.is_free]
<1>1. /\ b.addr \in Base .. Limit - 1
      /\ b.payload_capacity \in MINIMUM_PAYLOAD_SIZE .. Word - 1
      /\ b.is_free \in BOOLEAN
      /\ b = [addr |-> b.addr, payload_capacity |-> b.payload_capacity, is_free |-> b.is_free]
    BY DEF Block, Addr
<1>2. Payload(b) = b.addr + header_size /\ End(b) = Payload(b) + b.payload_capacity
    BY Zenon DEF Payload, End
<1> QED BY <1>1, <1>2, Sizing

\* What a list is, index by index.
LEMMA LaidFacts ==
    ASSUME NEW list, NEW F, NEW end, Laid(list, F, end)
    PROVE  /\ list \in Seq(Block) /\ Len(list) \in Nat /\ DOMAIN list = 1 .. Len(list)
           /\ end \in Nat /\ Base <= end /\ end <= Limit /\ F \subseteq Nat
           /\ \A i \in 1 .. Len(list) :
                  /\ list[i] \in Block
                  /\ Payload(list[i]) % ALIGN = 0
                  /\ list[i].payload_capacity % ALIGN = 0
                  /\ \A a \in F : a < list[i].addr
                  /\ i < Len(list) => End(list[i]) = list[i + 1].addr
                  /\ i = Len(list) => End(list[i]) = end
<1>1. list \in Seq(Block) /\ Tiled(list, end) /\ end \in Base .. Limit /\ F \subseteq Nat
      /\ \A i \in DOMAIN list : \A a \in F : a < list[i].addr
    BY DEF Laid
<1>2. /\ Len(list) \in Nat /\ DOMAIN list = 1 .. Len(list)
      /\ \A i \in 1 .. Len(list) : list[i] \in Block
      /\ list = <<>> <=> Len(list) = 0
    BY <1>1, QueueMembers
<1>3. /\ end \in Nat /\ Base <= end /\ end <= Limit
    BY <1>1, Sizing
<1>4. /\ \A i \in DOMAIN list : /\ Payload(list[i]) % ALIGN = 0
                                /\ list[i].payload_capacity % ALIGN = 0
                                /\ i < Len(list) => End(list[i]) = list[i + 1].addr
      /\ list # <<>> => End(Last(list)) = end
    BY <1>1 DEF Tiled
<1>5. ASSUME NEW i \in 1 .. Len(list), i = Len(list) PROVE End(list[i]) = end
    <2>1. list # <<>>
        BY <1>2, <1>5
    <2> QED BY <1>4, <1>5, <2>1 DEF Last
<1> QED BY <1>1, <1>2, <1>3, <1>4, <1>5

\* The converse.
LEMMA FactsLaid ==
    ASSUME NEW list \in Seq(Block), NEW F \in SUBSET Nat, NEW end \in Nat, Base <= end, end <= Limit,
           \A i \in 1 .. Len(list) : InPlace(list, F, end, i)
    PROVE  Laid(list, F, end)
<1>1. /\ Len(list) \in Nat /\ DOMAIN list = 1 .. Len(list)
      /\ list = <<>> <=> Len(list) = 0
    BY QueueMembers
<1>2. end \in Base .. Limit
    BY Sizing
<1>3. list # <<>> => End(Last(list)) = end
    <2>1. Len(list) \in Nat /\ Len(list) # 0 => Len(list) \in 1 .. Len(list)
        BY ONLY TRUE
    <2> QED BY <1>1, <2>1, Zenon DEF Last, InPlace
<1>4. Tiled(list, end)
    BY <1>1, <1>3, Zenon DEF Tiled, InPlace
<1>5. \A i \in DOMAIN list : \A a \in F : a < list[i].addr
    BY <1>1, Zenon DEF InPlace
<1> QED BY <1>2, <1>4, <1>5 DEF Laid

\* The blocks are in the order of their addresses.
LEMMA Ordered ==
    ASSUME NEW list, NEW F, NEW end, Laid(list, F, end),
           NEW i \in 1 .. Len(list)
    PROVE  /\ End(list[i]) <= end
           /\ \A j \in 1 .. Len(list) : i < j => End(list[i]) <= list[j].addr
<1>1. /\ Len(list) \in Nat /\ end \in Nat
      /\ \A k \in 1 .. Len(list) :
             /\ list[k] \in Block
             /\ k < Len(list) => End(list[k]) = list[k + 1].addr
             /\ k = Len(list) => End(list[k]) = end
    BY LaidFacts
<1>2. \A k \in 1 .. Len(list) : /\ list[k].addr \in Nat /\ End(list[k]) \in Nat
                                /\ list[k].addr < End(list[k])
    <2>1. \A b \in Block : b.addr \in Nat /\ End(b) \in Nat /\ b.addr < End(b)
        <3>1. TAKE b \in Block
        <3>2. b.addr < Payload(b) /\ Payload(b) < End(b) /\ b.addr \in Nat /\ Payload(b) \in Nat
              /\ End(b) \in Nat
            BY BlockNumbers
        <3> QED BY <3>2
    <2> QED BY <1>1, <2>1
<1> DEFINE T == {j \in Nat : /\ j \in 1 .. Len(list) /\ i < j
                             /\ ~(End(list[i]) <= list[j].addr)}
<1>3. T = {}
    <2>1. SUFFICES ASSUME T # {} PROVE FALSE
        OBVIOUS
    <2>2. PICK j \in T : \A k \in T : j <= k
        <3>1. T \in SUBSET Nat
            OBVIOUS
        <3> HIDE DEF T
        <3> QED BY <2>1, <3>1, Least
    <2>3. j \in 1 .. Len(list) /\ i < j /\ ~(End(list[i]) <= list[j].addr) /\ j \in Nat
        BY <2>2
    <2>4. j - 1 \in Nat /\ j - 1 \in 1 .. Len(list) /\ i <= j - 1 /\ j - 1 < Len(list)
        BY <1>1, <2>3
    <2>5. j - 1 \notin T
        <3> HIDE DEF T
        <3> QED BY <2>2, <2>3, <2>4
    <2>6. End(list[j - 1]) = list[j].addr
        <3>1. (j - 1) + 1 = j
            BY <2>3
        <3> QED BY <1>1, <2>4, <3>1
    <2>7. CASE i = j - 1
        BY <1>2, <2>3, <2>6, <2>7
    <2>8. CASE i < j - 1
        <3>1. End(list[i]) <= list[j - 1].addr
            BY <2>4, <2>5, <2>8
        <3> QED BY <1>2, <2>3, <2>4, <2>6, <3>1
    <2> QED BY <2>4, <2>7, <2>8
<1>4. \A j \in 1 .. Len(list) : i < j => End(list[i]) <= list[j].addr
    BY <1>1, <1>3
<1> HIDE DEF T
<1>5. End(list[i]) <= end
    <2>1. CASE i = Len(list)
        BY <1>1, <1>2, <2>1
    <2>2. CASE i < Len(list)
        <3>1. Len(list) \in 1 .. Len(list)
            BY <1>1
        <3>2. End(list[i]) <= list[Len(list)].addr /\ End(list[Len(list)]) = end
            BY <1>1, <1>4, <2>2, <3>1
        <3> QED BY <1>1, <1>2, <3>1, <3>2
    <2> QED BY <1>1, <2>1, <2>2
<1> QED BY <1>4, <1>5

\* Two blocks whose extents share a byte are one block.
LEMMA Separate ==
    ASSUME NEW list, NEW F, NEW end, Laid(list, F, end),
           NEW i \in 1 .. Len(list), NEW j \in 1 .. Len(list), NEW a \in Nat,
           list[i].addr <= a, a < End(list[i]), list[j].addr <= a, a < End(list[j])
    PROVE  i = j
<1>1. list[i] \in Block /\ list[j] \in Block /\ Len(list) \in Nat
    BY LaidFacts
<1>2. list[i].addr \in Nat /\ End(list[i]) \in Nat /\ list[j].addr \in Nat /\ End(list[j]) \in Nat
    BY <1>1, BlockNumbers
<1>3. i < j => End(list[i]) <= list[j].addr
    BY Ordered
<1>4. j < i => End(list[j]) <= list[i].addr
    BY Ordered
<1> QED BY <1>1, <1>2, <1>3, <1>4

-----------------------------------------------------------------------------
\* A block put into a list.
LEMMA Inserted ==
    ASSUME NEW S, NEW q \in Seq(S), NEW i \in 1 .. Len(q) + 1, NEW x \in S
    PROVE  /\ InsertAt(q, i, x) \in Seq(S)
           /\ Len(InsertAt(q, i, x)) = Len(q) + 1
           /\ \A j \in 1 .. Len(q) + 1 :
                  InsertAt(q, i, x)[j] = IF j < i THEN q[j] ELSE IF j = i THEN x ELSE q[j - 1]
<1>1. Len(q) \in Nat /\ i \in Nat \ {0} /\ i <= Len(q) + 1 /\ \A j \in 1 .. Len(q) : q[j] \in S
    BY QueueMembers
<1> DEFINE f == SubSeq(q, 1, i - 1)
           g == SubSeq(q, i, Len(q))
           h == f \o <<x>>
<1>2. /\ f \in Seq(S) /\ Len(f) = i - 1 /\ \A j \in 1 .. i - 1 : f[j] = q[j]
    <2>1. \A j \in 1 .. i - 1 : q[j] \in S
        BY <1>1
    <2>2. /\ f \in Seq(S) /\ Len(f) = (IF 1 <= i - 1 THEN (i - 1) - 1 + 1 ELSE 0)
          /\ \A j \in 1 .. (i - 1) - 1 + 1 : f[j] = q[1 + j - 1]
        <3>1. 1 \in Int /\ i - 1 \in Int
            BY <1>1
        <3> QED BY <2>1, <3>1, SubSeqProperties
    <2> HIDE DEF f
    <2> QED BY <1>1, <2>2
<1>3. /\ g \in Seq(S) /\ Len(g) = Len(q) - i + 1
      /\ \A j \in 1 .. Len(q) - i + 1 : g[j] = q[i + j - 1]
    <2>1. \A j \in i .. Len(q) : q[j] \in S
        BY <1>1
    <2>2. /\ g \in Seq(S) /\ Len(g) = (IF i <= Len(q) THEN Len(q) - i + 1 ELSE 0)
          /\ \A j \in 1 .. Len(q) - i + 1 : g[j] = q[i + j - 1]
        <3>1. i \in Int /\ Len(q) \in Int
            BY <1>1
        <3> QED BY <2>1, <3>1, SubSeqProperties
    <2> HIDE DEF g
    <2> QED BY <1>1, <2>2
<1>4. InsertAt(q, i, x) = h \o g
    BY DEF InsertAt
<1> HIDE DEF f, g
<1>5. <<x>> \in Seq(S) /\ Len(<<x>>) = 1 /\ <<x>>[1] = x
    OBVIOUS
<1>6. /\ h \in Seq(S) /\ Len(h) = i
      /\ \A j \in 1 .. i : h[j] = IF j < i THEN q[j] ELSE x
    <2>1. /\ h \in Seq(S) /\ Len(h) = Len(f) + 1
          /\ \A j \in 1 .. Len(f) + 1 : h[j] = IF j <= Len(f) THEN f[j] ELSE <<x>>[j - Len(f)]
        BY <1>2, <1>5, ConcatProperties
    <2> HIDE DEF h
    <2>2. ASSUME NEW j \in 1 .. i PROVE h[j] = IF j < i THEN q[j] ELSE x
        <3>1. CASE j < i
            BY <1>1, <1>2, <2>1, <3>1
        <3>2. CASE j = i
            <4>1. j - Len(f) = 1 /\ ~(j <= Len(f)) /\ j \in 1 .. Len(f) + 1
                BY <1>1, <1>2, <3>2
            <4> QED BY <1>5, <2>1, <3>2, <4>1
        <3> QED BY <1>1, <3>1, <3>2
    <2> QED BY <1>1, <1>2, <2>1, <2>2
<1> HIDE DEF h
<1> DEFINE w == h \o g
<1>7. /\ w \in Seq(S) /\ Len(w) = Len(h) + Len(g)
      /\ \A j \in 1 .. Len(h) + Len(g) : w[j] = IF j <= Len(h) THEN h[j] ELSE g[j - Len(h)]
    BY <1>3, <1>6, ConcatProperties
<1> HIDE DEF w
<1>8. ASSUME NEW j \in 1 .. Len(q) + 1
      PROVE  w[j] = IF j < i THEN q[j] ELSE IF j = i THEN x ELSE q[j - 1]
    <2>1. j \in 1 .. Len(h) + Len(g)
        BY <1>1, <1>3, <1>6
    <2>2. CASE j <= i
        <3>1. w[j] = h[j] /\ j \in 1 .. i
            BY <1>1, <1>6, <1>7, <2>1, <2>2
        <3> QED BY <1>1, <1>6, <2>2, <3>1
    <2>3. CASE i < j
        <3>1. w[j] = g[j - i] /\ j - i \in 1 .. Len(q) - i + 1 /\ i + (j - i) - 1 = j - 1
            BY <1>1, <1>6, <1>7, <2>1, <2>3
        <3>2. g[j - i] = q[j - 1]
            BY <1>3, <3>1
        <3> QED BY <1>1, <2>3, <3>1, <3>2
    <2> QED BY <1>1, <2>2, <2>3
<1> QED BY <1>1, <1>3, <1>4, <1>6, <1>7, <1>8 DEF w

\* A block taken out of a list.
LEMMA Removed ==
    ASSUME NEW S, NEW q \in Seq(S), NEW i \in 1 .. Len(q)
    PROVE  /\ RemoveAt(q, i) \in Seq(S)
           /\ Len(RemoveAt(q, i)) = Len(q) - 1
           /\ \A j \in 1 .. Len(q) - 1 :
                  RemoveAt(q, i)[j] = IF j < i THEN q[j] ELSE q[j + 1]
<1>1. Len(q) \in Nat /\ i \in Nat \ {0} /\ i <= Len(q) /\ \A j \in 1 .. Len(q) : q[j] \in S
    BY QueueMembers
<1> DEFINE f == SubSeq(q, 1, i - 1)
           g == SubSeq(q, i + 1, Len(q))
<1>2. /\ f \in Seq(S) /\ Len(f) = i - 1 /\ \A j \in 1 .. i - 1 : f[j] = q[j]
    <2>1. \A j \in 1 .. i - 1 : q[j] \in S
        BY <1>1
    <2>2. /\ f \in Seq(S) /\ Len(f) = (IF 1 <= i - 1 THEN (i - 1) - 1 + 1 ELSE 0)
          /\ \A j \in 1 .. (i - 1) - 1 + 1 : f[j] = q[1 + j - 1]
        <3>1. 1 \in Int /\ i - 1 \in Int
            BY <1>1
        <3> QED BY <2>1, <3>1, SubSeqProperties
    <2> HIDE DEF f
    <2> QED BY <1>1, <2>2
<1>3. /\ g \in Seq(S) /\ Len(g) = Len(q) - i
      /\ \A j \in 1 .. Len(q) - i : g[j] = q[i + j]
    <2>1. \A j \in i + 1 .. Len(q) : q[j] \in S
        BY <1>1
    <2>2. /\ g \in Seq(S) /\ Len(g) = (IF i + 1 <= Len(q) THEN Len(q) - (i + 1) + 1 ELSE 0)
          /\ \A j \in 1 .. Len(q) - (i + 1) + 1 : g[j] = q[(i + 1) + j - 1]
        <3>1. i + 1 \in Int /\ Len(q) \in Int
            BY <1>1
        <3> QED BY <2>1, <3>1, SubSeqProperties
    <2> HIDE DEF g
    <2> QED BY <1>1, <2>2
<1>4. RemoveAt(q, i) = f \o g
    BY DEF RemoveAt
<1> HIDE DEF f, g
<1> DEFINE w == f \o g
<1>5. /\ w \in Seq(S) /\ Len(w) = Len(f) + Len(g)
      /\ \A j \in 1 .. Len(f) + Len(g) : w[j] = IF j <= Len(f) THEN f[j] ELSE g[j - Len(f)]
    BY <1>2, <1>3, ConcatProperties
<1> HIDE DEF w
<1>6. ASSUME NEW j \in 1 .. Len(q) - 1
      PROVE  w[j] = IF j < i THEN q[j] ELSE q[j + 1]
    <2>1. j \in 1 .. Len(f) + Len(g)
        BY <1>1, <1>2, <1>3
    <2>2. CASE j < i
        <3>1. j \in 1 .. i - 1 /\ j <= Len(f)
            BY <1>1, <1>2, <2>2
        <3>2. w[j] = f[j] /\ f[j] = q[j]
            BY <1>2, <1>5, <2>1, <3>1
        <3> QED BY <2>2, <3>2
    <2>3. CASE i <= j
        <3>1. /\ w[j] = g[j - (i - 1)] /\ j - (i - 1) \in 1 .. Len(q) - i
              /\ i + (j - (i - 1)) = j + 1
            BY <1>1, <1>2, <1>5, <2>1, <2>3
        <3>2. g[j - (i - 1)] = q[j + 1]
            BY <1>3, <3>1
        <3> QED BY <1>1, <2>3, <3>1, <3>2
    <2> QED BY <1>1, <2>2, <2>3
<1> QED BY <1>1, <1>2, <1>3, <1>4, <1>5, <1>6 DEF w

\* A block of a list whose capacity is set.
LEMMA CapacitySet ==
    ASSUME NEW list \in Seq(Block), NEW i \in 1 .. Len(list),
           NEW c \in Nat, MINIMUM_PAYLOAD_SIZE <= c, c < Word
    PROVE  LET r == [list EXCEPT ![i].payload_capacity = c]
           IN  /\ r \in Seq(Block) /\ Len(r) = Len(list)
               /\ r[i] = [addr |-> list[i].addr, payload_capacity |-> c,
                          is_free |-> list[i].is_free]
               /\ \A j \in 1 .. Len(list) : j # i => r[j] = list[j]
<1> DEFINE e == [addr |-> list[i].addr, payload_capacity |-> c, is_free |-> list[i].is_free]
           s == [list EXCEPT ![i] = e]
<1>1. list[i] \in Block
    BY QueueMembers
<1>2. e \in Block
    <2>1. c \in MINIMUM_PAYLOAD_SIZE .. Word - 1
        BY Sizing
    <2> QED BY <1>1, <2>1 DEF Block
<1>3. [list[i] EXCEPT !.payload_capacity = c] = e
    BY <1>1 DEF Block
<1>4. [list EXCEPT ![i].payload_capacity = c] = s
    <2>1. [list EXCEPT ![i].payload_capacity = c]
          = [list EXCEPT ![i] = [list[i] EXCEPT !.payload_capacity = c]]
        OBVIOUS
    <2> QED BY <1>3, <2>1
<1> HIDE DEF e
<1>5. /\ s \in Seq(Block) /\ Len(s) = Len(list)
      /\ \A j \in 1 .. Len(list) : s[j] = IF j = i THEN e ELSE list[j]
    BY <1>2, ExceptSeq
<1> HIDE DEF s
<1> QED BY <1>4, <1>5 DEF e

\* A block of a list whose flag is set.
LEMMA FreeSet ==
    ASSUME NEW list \in Seq(Block), NEW i \in 1 .. Len(list), NEW v \in BOOLEAN
    PROVE  LET r == [list EXCEPT ![i].is_free = v]
           IN  /\ r \in Seq(Block) /\ Len(r) = Len(list)
               /\ r[i] = [addr |-> list[i].addr, payload_capacity |-> list[i].payload_capacity,
                          is_free |-> v]
               /\ \A j \in 1 .. Len(list) : j # i => r[j] = list[j]
<1> DEFINE e == [addr |-> list[i].addr, payload_capacity |-> list[i].payload_capacity,
                 is_free |-> v]
           s == [list EXCEPT ![i] = e]
<1>1. list[i] \in Block
    BY QueueMembers
<1>2. e \in Block
    BY <1>1 DEF Block
<1>3. [list[i] EXCEPT !.is_free = v] = e
    BY <1>1 DEF Block
<1>4. [list EXCEPT ![i].is_free = v] = s
    <2>1. [list EXCEPT ![i].is_free = v]
          = [list EXCEPT ![i] = [list[i] EXCEPT !.is_free = v]]
        OBVIOUS
    <2> QED BY <1>3, <2>1
<1> HIDE DEF e
<1>5. /\ s \in Seq(Block) /\ Len(s) = Len(list)
      /\ \A j \in 1 .. Len(list) : s[j] = IF j = i THEN e ELSE list[j]
    BY <1>2, ExceptSeq
<1> HIDE DEF s
<1> QED BY <1>4, <1>5 DEF e

-----------------------------------------------------------------------------
\* The blocks in use, index by index.
LEMMA UsedMembers ==
    ASSUME NEW list \in Seq(Block)
    PROVE  \A b : b \in Used(list) <=>
                  \E i \in 1 .. Len(list) : list[i] = b /\ ~list[i].is_free
BY QueueMembers DEF Used

\* Two blocks in use are one when they share a byte.
LEMMA UsedApart ==
    ASSUME NEW list, NEW F, NEW end, Laid(list, F, end),
           NEW b \in Used(list), NEW c \in Used(list), NEW a \in Nat,
           b.addr <= a, a < End(b), c.addr <= a, a < End(c)
    PROVE  b = c
<1>1. list \in Seq(Block)
    BY LaidFacts
<1>2. PICK i \in 1 .. Len(list) : list[i] = b
    BY <1>1, UsedMembers
<1>3. PICK j \in 1 .. Len(list) : list[j] = c
    BY <1>1, UsedMembers
<1>4. i = j
    BY <1>2, <1>3, Separate
<1> QED BY <1>2, <1>3, <1>4

\* A block in use is within the heap.
LEMMA UsedWithin ==
    ASSUME NEW list, NEW F, NEW end, Laid(list, F, end), NEW b \in Used(list)
    PROVE  /\ b \in Block /\ ~b.is_free /\ End(b) <= end
           /\ Payload(b) % ALIGN = 0 /\ \A a \in F : a < b.addr
<1>1. list \in Seq(Block)
    BY LaidFacts
<1>2. PICK i \in 1 .. Len(list) : list[i] = b /\ ~list[i].is_free
    BY <1>1, UsedMembers
<1>3. list[i] \in Block /\ Payload(list[i]) % ALIGN = 0 /\ \A a \in F : a < list[i].addr
    BY LaidFacts
<1>4. End(list[i]) <= end
    BY Ordered
<1> QED BY <1>2, <1>3, <1>4

\* The capacity of two neighbours that become one.
LEMMA Joined ==
    ASSUME NEW p \in Nat, NEW c \in Nat, NEW q \in Nat, NEW d \in Nat,
           MINIMUM_PAYLOAD_SIZE <= c, p + header_size + c = q, q + header_size + d <= Limit
    PROVE  /\ c + header_size + d \in Nat
           /\ MINIMUM_PAYLOAD_SIZE <= c + header_size + d /\ c + header_size + d < Word
           /\ q + header_size + d = p + header_size + (c + header_size + d)
           /\ c % ALIGN = 0 /\ d % ALIGN = 0 => (c + header_size + d) % ALIGN = 0
<1>1. ASSUME c % ALIGN = 0, d % ALIGN = 0 PROVE (c + header_size + d) % ALIGN = 0
    <2>1. header_size \in Nat /\ ALIGN \in Nat \ {0} /\ c + header_size \in Nat
        BY Sizing
    <2>2. (c + header_size) % ALIGN = 0
        BY <1>1, <2>1, Multiples, SumMod, Zenon
    <2> QED BY <1>1, <2>1, <2>2, SumMod, Zenon
<1> QED BY <1>1, Sizing

\* A turn of merge_free_nodes() keeps the blocks behind one another.
LEMMA AbsorbLaid ==
    ASSUME NEW d, NEW F, NEW e, Laid(d, F, e), Merged(d),
           NEW b \in Block, d # <<>> => b.addr = e,
           Payload(b) % ALIGN = 0, b.payload_capacity % ALIGN = 0,
           End(b) <= Limit, \A a \in F : a < b.addr
    PROVE  /\ Laid(Absorb(d, b), F, End(b))
           /\ Merged(Absorb(d, b))
           /\ \A x : x \in Used(Absorb(d, b)) <=> x \in Used(d) \/ (x = b /\ ~b.is_free)
           /\ Absorb(d, b) # <<>>
<1> DEFINE n == Len(d)
           w == Absorb(d, b)
<1>1. /\ d \in Seq(Block) /\ n \in Nat /\ e \in Nat /\ F \subseteq Nat
      /\ \A i \in 1 .. n :
             /\ d[i] \in Block
             /\ Payload(d[i]) % ALIGN = 0
             /\ d[i].payload_capacity % ALIGN = 0
             /\ \A a \in F : a < d[i].addr
             /\ i < n => End(d[i]) = d[i + 1].addr
             /\ i = n => End(d[i]) = e
    BY LaidFacts
<1>2. d = <<>> <=> n = 0
    BY <1>1, QueueMembers
<1>3. /\ b.addr \in Nat /\ b.payload_capacity \in Nat /\ End(b) \in Nat /\ b.is_free \in BOOLEAN
      /\ Base <= b.addr /\ MINIMUM_PAYLOAD_SIZE <= b.payload_capacity
      /\ End(b) = b.addr + header_size + b.payload_capacity
    BY BlockNumbers
<1>4. Base <= End(b)
    BY <1>3, Sizing
<1>5. \A x : x \in Used(d) <=> \E i \in 1 .. n : d[i] = x /\ ~d[i].is_free
    BY <1>1, UsedMembers
<1>6. \A i \in 1 .. n - 1 : ~(d[i].is_free /\ d[i + 1].is_free)
    BY DEF Merged
<1>7. CASE d # <<>> /\ d[n].is_free /\ b.is_free
    <2> DEFINE c == d[n].payload_capacity + header_size + b.payload_capacity
    <2>1. n \in 1 .. n /\ d[n] \in Block /\ End(d[n]) = b.addr
        BY <1>1, <1>2, <1>7
    <2>2. /\ d[n].addr \in Nat /\ d[n].payload_capacity \in Nat /\ Base <= d[n].addr
          /\ MINIMUM_PAYLOAD_SIZE <= d[n].payload_capacity
          /\ End(d[n]) = d[n].addr + header_size + d[n].payload_capacity
        BY <2>1, BlockNumbers
    <2>3. d[n].payload_capacity % ALIGN = 0
        BY <1>1, <2>1
    <2>4. /\ c \in Nat /\ MINIMUM_PAYLOAD_SIZE <= c /\ c < Word /\ c % ALIGN = 0
          /\ End(b) = d[n].addr + header_size + c
        BY <1>3, <2>1, <2>2, <2>3, Joined
    <2>5. c % Word = c
        BY <2>4, Sizing, SmallMod
    <2>6. w = [d EXCEPT ![n].payload_capacity = c]
        <3>1. w = [d EXCEPT ![n].payload_capacity = c % Word]
            BY <1>7 DEF Absorb, Last
        <3> HIDE DEF c, w
        <3> QED BY <2>5, <3>1
    <2> HIDE DEF c
    <2>7. /\ w \in Seq(Block) /\ Len(w) = n
          /\ w[n] = [addr |-> d[n].addr, payload_capacity |-> c, is_free |-> d[n].is_free]
          /\ \A j \in 1 .. n : j # n => w[j] = d[j]
        <3> HIDE DEF w
        <3>1. LET r == [d EXCEPT ![n].payload_capacity = c]
              IN  /\ r \in Seq(Block) /\ Len(r) = n
                  /\ r[n] = [addr |-> d[n].addr, payload_capacity |-> c, is_free |-> d[n].is_free]
                  /\ \A j \in 1 .. n : j # n => r[j] = d[j]
            BY <1>1, <2>1, <2>4, CapacitySet
        <3> QED BY <2>6, <3>1
    <2> HIDE DEF w
    <2>8. /\ w[n].addr = d[n].addr /\ w[n].payload_capacity = c /\ w[n].is_free
          /\ Payload(w[n]) = Payload(d[n]) /\ End(w[n]) = End(b)
        BY <1>7, <2>4, <2>7 DEF Payload, End
    <2>9. ASSUME NEW i \in 1 .. n
          PROVE  /\ Payload(w[i]) % ALIGN = 0
                 /\ w[i].payload_capacity % ALIGN = 0
                 /\ \A a \in F : a < w[i].addr
                 /\ i < n => End(w[i]) = w[i + 1].addr
                 /\ i = n => End(w[i]) = End(b)
        <3>1. CASE i = n
            BY <1>1, <2>1, <2>4, <2>8, <3>1
        <3>2. CASE i # n
            <4>1. w[i] = d[i] /\ i < n /\ i + 1 \in 1 .. n
                BY <1>1, <2>7, <3>2
            <4>2. w[i + 1].addr = d[i + 1].addr
                <5>1. CASE i + 1 = n
                    BY <2>8, <5>1
                <5>2. CASE i + 1 # n
                    BY <2>7, <4>1, <5>2
                <5> QED BY <5>1, <5>2
            <4> QED BY <1>1, <4>1, <4>2
        <3> QED BY <3>1, <3>2
    <2>10. Laid(w, F, End(b))
        <3>1. \A i \in 1 .. Len(w) : InPlace(w, F, End(b), i)
            BY <2>7, <2>9, Zenon DEF InPlace
        <3> QED BY <1>1, <1>3, <1>4, <2>7, <3>1, FactsLaid
    <2>11. Merged(w)
        <3>1. ASSUME NEW i \in 1 .. n - 1 PROVE ~(w[i].is_free /\ w[i + 1].is_free)
            <4>1. i \in 1 .. n /\ i # n /\ w[i] = d[i] /\ i + 1 \in 1 .. n
                BY <1>1, <2>7
            <4>2. CASE i + 1 = n
                BY <1>6, <1>7, <4>1, <4>2
            <4>3. CASE i + 1 # n
                BY <1>6, <2>7, <4>1, <4>3
            <4> QED BY <4>2, <4>3
        <3> QED BY <2>7, <3>1 DEF Merged
    <2>12. ASSUME NEW x PROVE x \in Used(w) <=> x \in Used(d)
        <3>1. x \in Used(w) <=> \E i \in 1 .. n : w[i] = x /\ ~w[i].is_free
            BY <2>7, UsedMembers
        <3>2. \A i \in 1 .. n : ~w[i].is_free => i # n /\ w[i] = d[i]
            BY <2>7, <2>8
        <3>3. \A i \in 1 .. n : ~d[i].is_free => i # n /\ w[i] = d[i]
            BY <1>7, <2>7
        <3>4. ASSUME x \in Used(w) PROVE x \in Used(d)
            <4>1. PICK i \in 1 .. n : w[i] = x /\ ~w[i].is_free
                BY <3>1, <3>4
            <4> QED BY <1>5, <3>2, <4>1
        <3>5. ASSUME x \in Used(d) PROVE x \in Used(w)
            <4>1. PICK i \in 1 .. n : d[i] = x /\ ~d[i].is_free
                BY <1>5, <3>5
            <4> QED BY <3>1, <3>3, <4>1
        <3> QED BY <3>4, <3>5
    <2>13. w # <<>>
        BY <2>1, <2>7, <1>2, <1>1, QueueMembers
    <2> QED BY <1>7, <2>10, <2>11, <2>12, <2>13, Zenon DEF w
<1>8. CASE ~(d # <<>> /\ d[n].is_free /\ b.is_free)
    <2>1. w = Append(d, b)
        BY <1>8 DEF Absorb, Last
    <2> HIDE DEF w
    <2>2. /\ w \in Seq(Block) /\ Len(w) = n + 1 /\ w # <<>>
          /\ \A i \in 1 .. n : w[i] = d[i]
          /\ w[n + 1] = b
        BY <1>1, <2>1, AppendQueue
    <2>3. ASSUME NEW i \in 1 .. n + 1
          PROVE  /\ Payload(w[i]) % ALIGN = 0
                 /\ w[i].payload_capacity % ALIGN = 0
                 /\ \A a \in F : a < w[i].addr
                 /\ i < n + 1 => End(w[i]) = w[i + 1].addr
                 /\ i = n + 1 => End(w[i]) = End(b)
        <3>1. CASE i = n + 1
            BY <1>1, <2>2, <3>1
        <3>2. CASE i # n + 1
            <4>1. i \in 1 .. n /\ w[i] = d[i] /\ d # <<>> /\ n \in 1 .. n
                BY <1>1, <1>2, <2>2, <3>2
            <4>2. End(d[i]) = w[i + 1].addr
                <5>1. CASE i = n
                    BY <1>1, <2>2, <4>1, <5>1
                <5>2. CASE i # n
                    <6>1. i + 1 \in 1 .. n /\ i < n
                        BY <1>1, <4>1, <5>2
                    <6> QED BY <1>1, <2>2, <4>1, <6>1
                <5> QED BY <5>1, <5>2
            <4> QED BY <1>1, <3>2, <4>1, <4>2
        <3> QED BY <3>1, <3>2
    <2>4. Laid(w, F, End(b))
        <3>1. \A i \in 1 .. Len(w) : InPlace(w, F, End(b), i)
            BY <2>2, <2>3, Zenon DEF InPlace
        <3> QED BY <1>1, <1>3, <1>4, <2>2, <3>1, FactsLaid
    <2>5. Merged(w)
        <3>1. ASSUME NEW i \in 1 .. n PROVE ~(w[i].is_free /\ w[i + 1].is_free)
            <4>1. CASE i = n
                <5>1. d # <<>>
                    BY <1>1, <1>2, <4>1
                <5> QED BY <1>8, <2>2, <4>1, <5>1
            <4>2. CASE i # n
                <5>1. i \in 1 .. n - 1 /\ i + 1 \in 1 .. n
                    BY <1>1, <4>2
                <5> QED BY <1>6, <2>2, <5>1
            <4> QED BY <4>1, <4>2
        <3>2. Len(w) - 1 = n
            BY <1>1, <2>2
        <3> QED BY <3>1, <3>2 DEF Merged
    <2>6. ASSUME NEW x PROVE x \in Used(w) <=> x \in Used(d) \/ (x = b /\ ~b.is_free)
        <3>1. x \in Used(w) <=> \E i \in 1 .. n + 1 : w[i] = x /\ ~w[i].is_free
            BY <2>2, UsedMembers
        <3>2. \A i : i \in 1 .. n + 1 <=> i \in 1 .. n \/ i = n + 1
            BY <1>1
        <3>3. ASSUME x \in Used(w) PROVE x \in Used(d) \/ (x = b /\ ~b.is_free)
            <4>1. PICK i \in 1 .. n + 1 : w[i] = x /\ ~w[i].is_free
                BY <3>1, <3>3
            <4>2. i \in 1 .. n \/ i = n + 1
                BY <3>2
            <4> QED BY <1>5, <2>2, <4>1, <4>2
        <3>4. ASSUME x \in Used(d) PROVE x \in Used(w)
            <4>1. PICK i \in 1 .. n : d[i] = x /\ ~d[i].is_free
                BY <1>5, <3>4
            <4>2. i \in 1 .. n + 1 /\ w[i] = d[i]
                BY <2>2, <3>2
            <4> QED BY <3>1, <4>1, <4>2
        <3>5. ASSUME x = b, ~b.is_free PROVE x \in Used(w)
            <4>1. n + 1 \in 1 .. n + 1
                BY <3>2
            <4> QED BY <2>2, <3>1, <3>5, <4>1
        <3> QED BY <3>3, <3>4, <3>5
    <2> QED BY <2>2, <2>4, <2>5, <2>6, Zenon DEF w
<1> QED BY <1>7, <1>8

\* The turns of merge_free_nodes(), one after the other.
LEMMA Turns ==
    ASSUME NEW list \in Seq(Block)
    PROVE  \E done : /\ merge_free_nodes(list) = done[Len(list)]
                     /\ done[0] = <<>>
                     /\ \A i \in 1 .. Len(list) : done[i] = Absorb(done[i - 1], list[i])
<1> DEFINE F(n, f) == [i \in 0 .. n |-> IF i = 0 THEN <<>> ELSE Absorb(f[i - 1], list[i])]
           T == {n \in Nat : ~\E f : f = F(n, f)}
           W == CHOOSE f : f = F(Len(list), f)
<1>1. Len(list) \in Nat
    BY QueueMembers
<1>2. T = {}
    <2>1. SUFFICES ASSUME T # {} PROVE FALSE
        OBVIOUS
    <2>2. PICK n \in T : \A k \in T : n <= k
        <3>1. T \in SUBSET Nat
            OBVIOUS
        <3> HIDE DEF T
        <3> QED BY <2>1, <3>1, Least
    <2>3. n \in Nat /\ ~\E f : f = F(n, f)
        BY <2>2
    <2>4. CASE n = 0
        <3> DEFINE h == [i \in 0 .. 0 |-> <<>>]
        <3>1. h = F(0, h)
            OBVIOUS
        <3> QED BY <2>3, <2>4, <3>1
    <2>5. CASE n # 0
        <3>1. n - 1 \in Nat /\ ~(n <= n - 1)
            BY <2>3, <2>5
        <3>2. n - 1 \notin T
            <4> HIDE DEF T
            <4> QED BY <2>2, <3>1
        <3>3. PICK g : g = F(n - 1, g)
            BY <3>1, <3>2
        <3> DEFINE h == [i \in 0 .. n |-> IF i < n THEN g[i] ELSE Absorb(g[n - 1], list[n])]
        <3>4. \A i \in 0 .. n - 1 : g[i] = IF i = 0 THEN <<>> ELSE Absorb(g[i - 1], list[i])
            BY <3>3
        <3>5. ASSUME NEW i \in 0 .. n
              PROVE  h[i] = IF i = 0 THEN <<>> ELSE Absorb(h[i - 1], list[i])
            <4>1. CASE i = n
                <5>1. h[n - 1] = g[n - 1] /\ h[n] = Absorb(g[n - 1], list[n])
                    BY <2>3, <3>1
                <5> QED BY <2>5, <4>1, <5>1
            <4>2. CASE i # n /\ i # 0
                <5>1. i \in 0 .. n - 1 /\ i - 1 \in 0 .. n - 1 /\ i < n /\ i - 1 < n /\ i - 1 \in 0 .. n
                    BY <2>3, <4>2
                <5>2. h[i] = g[i] /\ h[i - 1] = g[i - 1]
                    BY <5>1
                <5> QED BY <3>4, <4>2, <5>1, <5>2
            <4>3. CASE i # n /\ i = 0
                <5>1. h[i] = g[i] /\ i \in 0 .. n - 1
                    BY <2>3, <4>3
                <5> QED BY <3>4, <4>3, <5>1
            <4> QED BY <4>1, <4>2, <4>3
        <3>6. h = F(n, h)
            <4>1. h = [i \in 0 .. n |-> h[i]]
                OBVIOUS
            <4> HIDE DEF h
            <4> QED BY <3>5, <4>1
        <3> QED BY <2>3, <3>6
    <2> QED BY <2>4, <2>5
<1>3. \E f : f = F(Len(list), f)
    BY <1>1, <1>2
<1>4. W = F(Len(list), W)
    BY <1>3
<1>5. merge_free_nodes(list) = W[Len(list)]
    BY DEF merge_free_nodes
<1> HIDE DEF W, T
<1>6. W[0] = <<>>
    BY <1>1, <1>4
<1>7. ASSUME NEW i \in 1 .. Len(list) PROVE W[i] = Absorb(W[i - 1], list[i])
    <2>1. i \in 0 .. Len(list) /\ i # 0
        BY <1>1
    <2>2. F(Len(list), W)[i] = Absorb(W[i - 1], list[i])
        BY <2>1
    <2> QED BY <1>4, <2>2
<1> QED BY <1>5, <1>6, <1>7

\* merge_free_nodes() leaves a list over the same memory, with the same blocks
\* in use and no two free ones next to each other.
LEMMA MergeLaid ==
    ASSUME NEW list, NEW F, NEW end, Laid(list, F, end)
    PROVE  /\ Laid(merge_free_nodes(list), F, end)
           /\ Merged(merge_free_nodes(list))
           /\ Used(merge_free_nodes(list)) = Used(list)
<1>1. /\ list \in Seq(Block) /\ Len(list) \in Nat /\ end \in Nat /\ Base <= end /\ end <= Limit
      /\ F \subseteq Nat
      /\ \A i \in 1 .. Len(list) :
             /\ list[i] \in Block
             /\ Payload(list[i]) % ALIGN = 0
             /\ list[i].payload_capacity % ALIGN = 0
             /\ \A a \in F : a < list[i].addr
             /\ i < Len(list) => End(list[i]) = list[i + 1].addr
             /\ i = Len(list) => End(list[i]) = end
    BY LaidFacts
<1>2. PICK done : /\ merge_free_nodes(list) = done[Len(list)]
                  /\ done[0] = <<>>
                  /\ \A i \in 1 .. Len(list) : done[i] = Absorb(done[i - 1], list[i])
    BY <1>1, Turns
<1> DEFINE e(n) == IF n = 0 THEN end ELSE End(list[n])
           Right(n) == /\ Laid(done[n], F, e(n)) /\ Merged(done[n])
                       /\ \A x : x \in Used(done[n]) <=>
                                 \E i \in 1 .. n : list[i] = x /\ ~list[i].is_free
                       /\ n = 0 <=> done[n] = <<>>
           T == {n \in Nat : n <= Len(list) /\ ~Right(n)}
<1>3. Right(0)
    <2>1. <<>> \in Seq(Block) /\ Len(<<>>) = 0
        BY EmptyQueue
    <2>2. \A i : i \notin 1 .. 0
        OBVIOUS
    <2>3. \A i \in 1 .. Len(<<>>) : InPlace(<<>>, F, end, i)
        BY <2>1, <2>2, Zenon
    <2>4. Laid(<<>>, F, end)
        BY <1>1, <2>1, <2>3, FactsLaid
    <2>5. Merged(<<>>)
        BY DEF Merged
    <2>6. \A x : x \notin Used(<<>>)
        BY <2>1, <2>2, UsedMembers
    <2>7. Laid(done[0], F, e(0))
        BY <1>2, <2>4
    <2>8. \A x : x \in Used(done[0]) <=> \E i \in 1 .. 0 : list[i] = x /\ ~list[i].is_free
        BY <1>2, <2>2, <2>6
    <2> QED BY <1>2, <2>5, <2>7, <2>8
<1>4. ASSUME NEW n \in 1 .. Len(list), Right(n - 1) PROVE Right(n)
    <2> DEFINE d == done[n - 1]
               b == list[n]
    <2>1. n \in Nat /\ n # 0 /\ n <= Len(list) /\ n - 1 \in Nat
        BY <1>1
    <2>2. Laid(d, F, e(n - 1)) /\ Merged(d) /\ (n - 1 = 0 <=> d = <<>>)
        BY <1>4
    <2>3. \A x : x \in Used(d) <=> \E i \in 1 .. n - 1 : list[i] = x /\ ~list[i].is_free
        BY <1>4
    <2>4. d # <<>> => b.addr = e(n - 1)
        <3>1. ASSUME d # <<>> PROVE b.addr = e(n - 1)
            <4>1. n - 1 # 0 /\ n - 1 \in 1 .. Len(list) /\ n - 1 < Len(list) /\ (n - 1) + 1 = n
                BY <2>1, <2>2, <3>1
            <4>2. End(list[n - 1]) = list[n].addr
                BY <1>1, <4>1
            <4> QED BY <4>1, <4>2
        <3> QED BY <3>1
    <2>5. /\ b \in Block /\ Payload(b) % ALIGN = 0 /\ b.payload_capacity % ALIGN = 0
          /\ \A a \in F : a < b.addr
        BY <1>1
    <2>6. End(b) <= Limit
        <3>1. End(b) <= end /\ End(b) \in Nat
            BY <2>5, Ordered, BlockNumbers
        <3> QED BY <1>1, <3>1, Sizing
    <2>7. done[n] = Absorb(d, b)
        BY <1>2
    <2> HIDE DEF d, b
    <2>8. /\ Laid(done[n], F, End(b)) /\ Merged(done[n]) /\ done[n] # <<>>
          /\ \A x : x \in Used(done[n]) <=> x \in Used(d) \/ (x = b /\ ~b.is_free)
        <3> DEFINE z == e(n - 1)
        <3> HIDE DEF z
        <3>1. Laid(d, F, z) /\ (d # <<>> => b.addr = z)
            BY <2>2, <2>4 DEF z
        <3> QED BY <2>2, <2>5, <2>6, <2>7, <3>1, AbsorbLaid
    <2>9. \A i : i \in 1 .. n <=> i \in 1 .. n - 1 \/ i = n
        BY <2>1
    <2>10. ASSUME NEW x PROVE x \in Used(done[n]) <=>
                              \E i \in 1 .. n : list[i] = x /\ ~list[i].is_free
        <3>1. CASE x \in Used(d)
            <4>1. PICK i \in 1 .. n - 1 : list[i] = x /\ ~list[i].is_free
                BY <2>3, <3>1
            <4> QED BY <2>8, <2>9, <3>1, <4>1
        <3>2. CASE x \notin Used(d)
            <4>1. \A i \in 1 .. n - 1 : ~(list[i] = x /\ ~list[i].is_free)
                BY <2>3, <3>2
            <4>2. n \in 1 .. n
                BY <2>9
            <4> QED BY <2>8, <2>9, <3>2, <4>1, <4>2 DEF b
        <3> QED BY <3>1, <3>2
    <2>11. e(n) = End(b)
        BY <2>1 DEF b
    <2> QED BY <2>1, <2>8, <2>10, <2>11, Zenon
<1> HIDE DEF Right
<1>5. T = {}
    <2>1. SUFFICES ASSUME T # {} PROVE FALSE
        OBVIOUS
    <2>2. PICK n \in T : \A k \in T : n <= k
        <3>1. T \in SUBSET Nat
            OBVIOUS
        <3> HIDE DEF T
        <3> QED BY <2>1, <3>1, Least
    <2>3. n \in Nat /\ n <= Len(list) /\ ~Right(n)
        BY <2>2
    <2>4. n # 0
        BY <1>3, <2>3
    <2>5. n - 1 \in Nat /\ n - 1 <= Len(list) /\ ~(n <= n - 1) /\ n \in 1 .. Len(list)
        BY <1>1, <2>3, <2>4
    <2>6. n - 1 \notin T
        <3> HIDE DEF T
        <3> QED BY <2>2, <2>5
    <2> QED BY <1>4, <2>3, <2>5, <2>6
<1>6. Right(Len(list))
    BY <1>1, <1>5
<1> HIDE DEF T
<1>7. e(Len(list)) = end
    <2>1. CASE Len(list) = 0
        BY <2>1
    <2>2. CASE Len(list) # 0
        <3>1. Len(list) \in 1 .. Len(list)
            BY <1>1, <2>2
        <3> QED BY <1>1, <2>2, <3>1
    <2> QED BY <2>1, <2>2
<1>8. /\ Laid(done[Len(list)], F, e(Len(list))) /\ Merged(done[Len(list)])
      /\ \A x : x \in Used(done[Len(list)]) <=>
                \E i \in 1 .. Len(list) : list[i] = x /\ ~list[i].is_free
    BY <1>6 DEF Right
<1>9. \A x : x \in Used(list) <=> \E i \in 1 .. Len(list) : list[i] = x /\ ~list[i].is_free
    BY <1>1, UsedMembers
<1>10. Used(done[Len(list)]) = Used(list)
    BY <1>8, <1>9, Zenon
<1> QED BY <1>2, <1>7, <1>8, <1>10

-----------------------------------------------------------------------------
\* Sums of multiples, for the constants of Heap.
LEMMA AlignedSum ==
    ASSUME NEW x \in Nat, NEW y \in Nat, x % ALIGN = 0, y % ALIGN = 0
    PROVE  x + y \in Nat /\ (x + y) % ALIGN = 0
<1>1. ALIGN \in Nat \ {0} /\ x + y \in Nat
    BY Sizing
<1> QED BY <1>1, SumMod, Zenon

LEMMA AlignedDifference ==
    ASSUME NEW x \in Nat, NEW y \in Nat, x % ALIGN = 0, y % ALIGN = 0, y <= x
    PROVE  x - y \in Nat /\ (x - y) % ALIGN = 0
<1>1. ALIGN \in Nat \ {0}
    BY Sizing
<1> QED BY <1>1, DifferenceMod, Zenon

\* size_t arithmetic that does not wrap.
LEMMA NoWrap ==
    ASSUME NEW x \in Nat, x < Word
    PROVE  x % Word = x
<1>1. Word \in Nat \ {0}
    BY Sizing
<1> QED BY <1>1, SmallMod, Zenon

\* The numbers of splitblock(), for a block with a payload of capacity c at p,
\* when it cuts.
CutAt(p, c, size) ==
    /\ (p + size) % Word = p + size
    /\ p + size \in Nat /\ p <= p + size /\ p + size < Limit
    /\ c - size - header_size \in Nat
    /\ MINIMUM_PAYLOAD_SIZE <= c - size - header_size
    /\ c - size - header_size < Word
    /\ (p + size) + header_size + (c - size - header_size) = p + c
    /\ (p + size + header_size) % ALIGN = 0
    /\ (c - size - header_size) % ALIGN = 0

LEMMA Cut ==
    ASSUME NEW p \in Nat, NEW c \in Nat, NEW size \in Nat, size <= c, p + c <= Limit,
           p % ALIGN = 0, size % ALIGN = 0, c % ALIGN = 0
    PROVE  /\ (c - size) % Word = c - size
           /\ header_size + MINIMUM_PAYLOAD_SIZE <= c - size => CutAt(p, c, size)
<1>1. c - size \in Nat /\ c - size < Word
    BY Sizing
<1>2. (c - size) % Word = c - size
    BY <1>1, NoWrap
<1>3. ASSUME header_size + MINIMUM_PAYLOAD_SIZE <= c - size
      PROVE  /\ p + size \in Nat /\ p <= p + size /\ p + size < Limit
             /\ c - size - header_size \in Nat
             /\ MINIMUM_PAYLOAD_SIZE <= c - size - header_size
             /\ c - size - header_size < Word
             /\ (p + size) + header_size + (c - size - header_size) = p + c
             /\ p + size < Word /\ header_size <= c - size
    BY <1>1, <1>3, Sizing
<1>4. ASSUME header_size + MINIMUM_PAYLOAD_SIZE <= c - size PROVE (p + size) % Word = p + size
    BY <1>3, <1>4, NoWrap
<1>5. ASSUME header_size + MINIMUM_PAYLOAD_SIZE <= c - size
      PROVE  /\ (p + size + header_size) % ALIGN = 0
             /\ (c - size - header_size) % ALIGN = 0
    <2>1. header_size \in Nat /\ header_size % ALIGN = 0
        BY Sizing, Multiples
    <2>2. p + size \in Nat /\ (p + size) % ALIGN = 0
        BY AlignedSum, Zenon
    <2>3. (p + size + header_size) % ALIGN = 0
        BY <2>1, <2>2, AlignedSum, Zenon
    <2>4. c - size \in Nat /\ (c - size) % ALIGN = 0
        BY AlignedDifference, Zenon
    <2>5. header_size <= c - size
        BY <1>3, <1>5, Zenon
    <2>6. (c - size - header_size) % ALIGN = 0
        BY <2>1, <2>4, <2>5, AlignedDifference, Zenon
    <2> QED BY <2>3, <2>6
<1>6. ASSUME header_size + MINIMUM_PAYLOAD_SIZE <= c - size PROVE CutAt(p, c, size)
    BY <1>3, <1>4, <1>5, <1>6, Zenon DEF CutAt
<1> QED BY <1>2, <1>6, Zenon

\* splitblock() in a list: block i keeps its place and at least size bytes, and
\* what is cut off is free.
LEMMA SplitLaid ==
    ASSUME NEW list, NEW F, NEW end, Laid(list, F, end), Merged(list),
           NEW i \in 1 .. Len(list), ~list[i].is_free,
           NEW size \in Nat, size % ALIGN = 0, MINIMUM_PAYLOAD_SIZE <= size,
           size <= list[i].payload_capacity
    PROVE  /\ Laid(splitblock(list, i, size), F, end)
           /\ Merged(splitblock(list, i, size))
           /\ \E c \in Nat :
                 /\ size <= c
                 /\ \A x : x \in Used(splitblock(list, i, size)) <=>
                           \/ x \in Used(list) /\ x # list[i]
                           \/ x = [addr |-> list[i].addr, payload_capacity |-> c,
                                   is_free |-> FALSE]
<1> DEFINE n == Len(list)
<1>1. /\ list \in Seq(Block) /\ n \in Nat /\ end \in Nat /\ Base <= end /\ end <= Limit
      /\ F \subseteq Nat
      /\ \A j \in 1 .. n :
             /\ list[j] \in Block
             /\ Payload(list[j]) % ALIGN = 0
             /\ list[j].payload_capacity % ALIGN = 0
             /\ \A a \in F : a < list[j].addr
             /\ j < n => End(list[j]) = list[j + 1].addr
             /\ j = n => End(list[j]) = end
    BY LaidFacts
<1>2. PICK p \in Nat, c \in Nat : p = Payload(list[i]) /\ c = list[i].payload_capacity
    <2>1. Payload(list[i]) \in Nat /\ list[i].payload_capacity \in Nat
        BY <1>1, BlockNumbers
    <2> QED BY <2>1
<1>3. /\ MINIMUM_PAYLOAD_SIZE <= c /\ c < Word /\ size <= c
      /\ list[i].addr \in Nat /\ Base <= list[i].addr /\ list[i].addr < p
      /\ End(list[i]) = p + c /\ p + c <= Limit
      /\ list[i] = [addr |-> list[i].addr, payload_capacity |-> c, is_free |-> list[i].is_free]
    <2>1. End(list[i]) <= end /\ End(list[i]) \in Nat
        BY <1>1, Ordered, BlockNumbers
    <2>2. End(list[i]) = p + c
        BY <1>2 DEF End
    <2>3. End(list[i]) <= Limit
        BY <1>1, <2>1, Sizing
    <2>4. /\ MINIMUM_PAYLOAD_SIZE <= c /\ c < Word
          /\ list[i].addr \in Nat /\ Base <= list[i].addr /\ list[i].addr < p
          /\ list[i] = [addr |-> list[i].addr, payload_capacity |-> c,
                        is_free |-> list[i].is_free]
        BY <1>1, <1>2, BlockNumbers
    <2> QED BY <1>2, <2>2, <2>3, <2>4
<1> DEFINE left == c - size
<1>4. /\ left % Word = left
      /\ header_size + MINIMUM_PAYLOAD_SIZE <= left => CutAt(p, c, size)
    <2>1. p % ALIGN = 0 /\ c % ALIGN = 0
        BY <1>1, <1>2, Zenon
    <2>2. size <= c /\ p + c <= Limit
        BY <1>3, Zenon
    <2> QED BY <2>1, <2>2, Cut, Zenon
<1>5. list[i] \in Used(list) /\ \A j \in 1 .. n : list[j] = list[i] => j = i
    <2>1. list[i] \in Used(list)
        BY <1>1, UsedMembers
    <2>2. ASSUME NEW j \in 1 .. n, list[j] = list[i] PROVE j = i
        <3>1. list[i].addr < End(list[i]) /\ list[i].addr <= list[i].addr
            BY ONLY <1>3
        <3> QED BY <1>3, <2>2, <3>1, Separate
    <2> QED BY <2>1, <2>2
<1>6. CASE left < header_size + MINIMUM_PAYLOAD_SIZE
    <2>1. splitblock(list, i, size) = list
        BY <1>2, <1>4, <1>6 DEF splitblock
    <2>2. ASSUME NEW x
          PROVE x \in Used(list) <=>
                \/ x \in Used(list) /\ x # list[i]
                \/ x = [addr |-> list[i].addr, payload_capacity |-> c, is_free |-> FALSE]
        <3>1. list[i].is_free = FALSE
            BY <1>1 DEF Block
        <3> QED BY <1>3, <1>5, <3>1
    <2> QED BY <1>3, <2>1, <2>2
<1>7. CASE ~(left < header_size + MINIMUM_PAYLOAD_SIZE)
    <2> DEFINE rest == [addr |-> p + size, payload_capacity |-> left - header_size,
                        is_free |-> TRUE]
               cut == [list EXCEPT ![i].payload_capacity = size]
               w == InsertAt(cut, i + 1, rest)
    <2>1. header_size + MINIMUM_PAYLOAD_SIZE <= left
        BY <1>3, <1>7, Sizing
    <2>2. splitblock(list, i, size) = merge_free_nodes(w)
        <3>1. splitblock(list, i, size) =
                  merge_free_nodes(InsertAt([list EXCEPT ![i].payload_capacity = size], i + 1,
                      [addr |-> (p + size) % Word, payload_capacity |-> (left % Word) - header_size,
                       is_free |-> TRUE]))
            BY <1>2, <1>4, <1>7 DEF splitblock
        <3>2. (p + size) % Word = p + size
            BY <1>4, <2>1, Zenon DEF CutAt
        <3> HIDE DEF left
        <3> QED BY ONLY <1>4, <3>1, <3>2, Zenon DEF w, cut, rest
    <2>3. /\ p + size \in Nat /\ p <= p + size /\ p + size < Limit
          /\ left - header_size \in Nat
          /\ MINIMUM_PAYLOAD_SIZE <= left - header_size
          /\ left - header_size < Word
          /\ (p + size) + header_size + (left - header_size) = p + c
          /\ (p + size + header_size) % ALIGN = 0
          /\ (left - header_size) % ALIGN = 0
        BY <1>4, <2>1, Zenon DEF CutAt
    <2>4. rest \in Block
        <3> HIDE DEF left
        <3>1. p + size \in Addr
            <4>1. Base <= p + size
                BY ONLY <1>3, <2>3, Sizing
            <4> QED BY ONLY <2>3, <4>1, Sizing DEF Addr
        <3>2. left - header_size \in MINIMUM_PAYLOAD_SIZE .. Word - 1
            BY <2>3, Sizing
        <3> QED BY <3>1, <3>2 DEF Block
    <2>5. /\ cut \in Seq(Block) /\ Len(cut) = n
          /\ cut[i] = [addr |-> list[i].addr, payload_capacity |-> size,
                       is_free |-> list[i].is_free]
          /\ \A j \in 1 .. n : j # i => cut[j] = list[j]
        <3>1. size < Word
            BY <1>3, Sizing
        <3> QED BY <1>1, <3>1, CapacitySet
    <2>6. i + 1 \in 1 .. Len(cut) + 1
        <3> HIDE DEF cut
        <3> QED BY <1>1, <2>5
    <2> HIDE DEF cut, rest
    <2>7. /\ w \in Seq(Block) /\ Len(w) = n + 1
          /\ \A j \in 1 .. n + 1 :
                w[j] = IF j < i + 1 THEN cut[j] ELSE IF j = i + 1 THEN rest ELSE cut[j - 1]
        <3>1. PICK k : k = i + 1
            OBVIOUS
        <3>2. /\ InsertAt(cut, k, rest) \in Seq(Block)
              /\ Len(InsertAt(cut, k, rest)) = Len(cut) + 1
              /\ \A j \in 1 .. Len(cut) + 1 :
                    InsertAt(cut, k, rest)[j] =
                       IF j < k THEN cut[j] ELSE IF j = k THEN rest ELSE cut[j - 1]
            <4>1. k \in 1 .. Len(cut) + 1
                BY <2>6, <3>1
            <4> QED BY <2>4, <2>5, <4>1, Inserted
        <3>3. w = InsertAt(cut, k, rest)
            BY <3>1
        <3> HIDE DEF w
        <3> QED BY <2>5, <3>1, <3>2, <3>3
    <2> HIDE DEF w
    <2>8. /\ w[i] = cut[i] /\ w[i + 1] = rest
          /\ \A j \in 1 .. n + 1 : j < i => w[j] = list[j]
          /\ \A j \in 1 .. n + 1 : j > i + 1 => w[j] = list[j - 1]
        <3>1. i \in 1 .. n + 1 /\ i + 1 \in 1 .. n + 1 /\ i < i + 1
            BY <1>1
        <3>2. w[i] = cut[i] /\ w[i + 1] = rest
            <4>1. ~(i + 1 < i + 1)
                OBVIOUS
            <4> QED BY <2>7, <3>1, <4>1
        <3>3. ASSUME NEW j \in 1 .. n + 1, j < i PROVE w[j] = list[j]
            <4>1. j < i + 1 /\ j \in 1 .. n /\ j # i
                BY <1>1, <3>3
            <4> QED BY <2>5, <2>7, <4>1
        <3>4. ASSUME NEW j \in 1 .. n + 1, j > i + 1 PROVE w[j] = list[j - 1]
            <4>1. ~(j < i + 1) /\ j # i + 1 /\ j - 1 \in 1 .. n /\ j - 1 # i
                BY <1>1, <3>4
            <4> QED BY <2>5, <2>7, <4>1
        <3> QED BY <3>2, <3>3, <3>4
    <2>9. /\ w[i].addr = list[i].addr /\ w[i].payload_capacity = size
          /\ w[i].is_free = list[i].is_free
          /\ Payload(w[i]) = p /\ End(w[i]) = p + size
        <3>1. /\ w[i].addr = list[i].addr /\ w[i].payload_capacity = size
              /\ w[i].is_free = list[i].is_free
            BY <2>5, <2>8
        <3> QED BY <1>2, <3>1 DEF Payload, End
    <2>10. /\ rest.addr = p + size /\ rest.payload_capacity = left - header_size /\ rest.is_free
           /\ Payload(rest) = p + size + header_size /\ End(rest) = p + c
        <3>1. rest.addr = p + size /\ rest.payload_capacity = left - header_size /\ rest.is_free
            BY DEF rest
        <3> QED BY <2>3, <3>1 DEF Payload, End
    <2>11. ASSUME NEW j \in 1 .. n + 1 PROVE InPlace(w, F, end, j)
        <3>1. CASE j < i
            <4>1. j \in 1 .. n /\ j < n /\ j + 1 \in 1 .. n + 1 /\ j < n + 1 /\ j # n + 1
                BY <1>1, <3>1
            <4>2. w[j] = list[j]
                BY <2>8, <3>1
            <4>3. w[j + 1].addr = list[j + 1].addr
                <5>1. CASE j + 1 = i
                    BY <2>9, <5>1
                <5>2. CASE j + 1 < i
                    BY <2>8, <4>1, <5>2
                <5> QED BY <3>1, <5>1, <5>2
            <4>4. /\ Payload(list[j]) % ALIGN = 0 /\ list[j].payload_capacity % ALIGN = 0
                  /\ (\A a \in F : a < list[j].addr) /\ End(list[j]) = list[j + 1].addr
                BY <1>1, <4>1, Zenon
            <4> QED BY <2>7, <4>1, <4>2, <4>3, <4>4, Zenon DEF InPlace
        <3>2. CASE j = i
            <4>1. i < n + 1 /\ i # n + 1
                BY <1>1
            <4>2. p % ALIGN = 0 /\ \A a \in F : a < list[i].addr
                BY <1>1, <1>2
            <4> QED BY <2>7, <2>8, <2>9, <2>10, <3>2, <4>1, <4>2 DEF InPlace
        <3>3. CASE j = i + 1
            <4>1. /\ Payload(rest) % ALIGN = 0 /\ rest.payload_capacity % ALIGN = 0
                BY <2>3, <2>10
            <4>2. \A a \in F : a < rest.addr
                <5>1. ASSUME NEW a \in F PROVE a < rest.addr
                    <6>1. a < list[i].addr
                        BY <1>1
                    <6>2. list[i].addr < rest.addr
                        BY <1>3, <2>3, <2>10
                    <6>3. a \in Nat /\ list[i].addr \in Nat /\ rest.addr \in Nat
                        BY <1>1, <1>3, <2>3, <2>10
                    <6> QED BY ONLY <6>1, <6>2, <6>3
                <5> QED BY <5>1
            <4>3. ASSUME j < n + 1 PROVE End(rest) = w[j + 1].addr
                <5>1. i < n /\ j + 1 \in 1 .. n + 1 /\ j + 1 > i + 1 /\ (j + 1) - 1 = i + 1
                    BY <1>1, <3>3, <4>3
                <5>2. w[j + 1] = list[i + 1]
                    BY <2>8, <5>1
                <5> QED BY <1>1, <1>3, <2>10, <5>1, <5>2
            <4>4. ASSUME j = n + 1 PROVE End(rest) = end
                <5>1. i = n
                    BY <1>1, <3>3, <4>4
                <5> QED BY <1>1, <1>3, <2>10, <5>1
            <4> QED BY <2>7, <2>8, <3>3, <4>1, <4>2, <4>3, <4>4 DEF InPlace
        <3>4. CASE j > i + 1
            <4>1. j - 1 \in 1 .. n /\ w[j] = list[j - 1]
                BY <1>1, <2>8, <3>4
            <4>2. ASSUME j < n + 1 PROVE End(w[j]) = w[j + 1].addr
                <5>1. /\ j + 1 \in 1 .. n + 1 /\ j + 1 > i + 1 /\ (j + 1) - 1 = j
                      /\ j - 1 < n /\ (j - 1) + 1 = j
                    BY <1>1, <3>4, <4>2
                <5>2. w[j + 1] = list[j]
                    BY <2>8, <5>1
                <5> QED BY <1>1, <4>1, <5>1, <5>2
            <4>3. ASSUME j = n + 1 PROVE End(w[j]) = end
                <5>1. j - 1 = n
                    BY <1>1, <4>3
                <5> QED BY <1>1, <4>1, <5>1
            <4>4. /\ Payload(list[j - 1]) % ALIGN = 0 /\ list[j - 1].payload_capacity % ALIGN = 0
                  /\ \A a \in F : a < list[j - 1].addr
                BY <1>1, <4>1, Zenon
            <4> QED BY <2>7, <4>1, <4>2, <4>3, <4>4, Zenon DEF InPlace
        <3> QED BY <1>1, <3>1, <3>2, <3>3, <3>4
    <2>12. Laid(w, F, end)
        BY <1>1, <2>7, <2>11, FactsLaid
    <2>13. ASSUME NEW x
           PROVE x \in Used(w) <=>
                 \/ x \in Used(list) /\ x # list[i]
                 \/ x = [addr |-> list[i].addr, payload_capacity |-> size, is_free |-> FALSE]
        <3> DEFINE y == [addr |-> list[i].addr, payload_capacity |-> size, is_free |-> FALSE]
        <3>1. w[i] = y /\ ~w[i].is_free
            <4>1. list[i].is_free = FALSE
                BY <1>1 DEF Block
            <4> QED BY <2>5, <2>8, <2>9, <4>1
        <3> HIDE DEF y
        <3>2. x \in Used(w) <=> \E j \in 1 .. n + 1 : w[j] = x /\ ~w[j].is_free
            <4>1. w \in Seq(Block) /\ Len(w) = n + 1
                BY <2>7, Zenon
            <4>2. x \in Used(w) <=> \E j \in 1 .. Len(w) : w[j] = x /\ ~w[j].is_free
                BY <4>1, UsedMembers, Zenon
            <4> QED BY <4>1, <4>2, Zenon
        <3>3. x \in Used(list) <=> \E j \in 1 .. n : list[j] = x /\ ~list[j].is_free
            BY <1>1, UsedMembers
        <3>4. ASSUME x \in Used(w) PROVE x = y \/ (x \in Used(list) /\ x # list[i])
            <4>1. PICK j \in 1 .. n + 1 : w[j] = x /\ ~w[j].is_free
                BY <3>2, <3>4
            <4>2. CASE j < i
                <5>1. j \in 1 .. n /\ j # i /\ w[j] = list[j]
                    BY <1>1, <2>8, <4>2
                <5> QED BY <1>5, <3>3, <4>1, <5>1
            <4>3. CASE j = i
                BY <3>1, <4>1, <4>3
            <4>4. CASE j = i + 1
                BY <2>8, <2>10, <4>1, <4>4
            <4>5. CASE j > i + 1
                <5>1. j - 1 \in 1 .. n /\ j - 1 # i /\ w[j] = list[j - 1]
                    BY <1>1, <2>8, <4>5
                <5> QED BY <1>5, <3>3, <4>1, <5>1
            <4> QED BY <1>1, <4>2, <4>3, <4>4, <4>5
        <3>5. ASSUME x = y PROVE x \in Used(w)
            <4>1. i \in 1 .. n + 1
                BY <1>1
            <4> QED BY <3>1, <3>2, <3>5, <4>1
        <3>6. ASSUME x \in Used(list), x # list[i] PROVE x \in Used(w)
            <4>1. PICK j \in 1 .. n : list[j] = x /\ ~list[j].is_free
                BY <3>3, <3>6
            <4>2. CASE j < i
                <5>1. j \in 1 .. n + 1 /\ w[j] = list[j]
                    BY <1>1, <2>8, <4>2
                <5> QED BY <3>2, <4>1, <5>1
            <4>3. CASE j = i
                BY <3>6, <4>1, <4>3
            <4>4. CASE j > i
                <5>1. j + 1 \in 1 .. n + 1 /\ j + 1 > i + 1 /\ (j + 1) - 1 = j
                    BY <1>1, <4>4
                <5>2. w[j + 1] = list[j]
                    BY <2>8, <5>1
                <5> QED BY <3>2, <4>1, <5>1, <5>2
            <4> QED BY <1>1, <4>2, <4>3, <4>4
        <3> QED BY <3>4, <3>5, <3>6 DEF y
    <2>14. /\ Laid(merge_free_nodes(w), F, end) /\ Merged(merge_free_nodes(w))
           /\ Used(merge_free_nodes(w)) = Used(w)
        BY <2>12, MergeLaid
    <2> QED BY <2>2, <2>13, <2>14
<1> QED BY <1>6, <1>7

-----------------------------------------------------------------------------
\* A list in which the blocks in use are those of U and one that has its payload
\* at ptr, with room for size bytes.
Granted(list, F, end, U, ptr, size) ==
    /\ Laid(list, F, end)
    /\ Merged(list)
    /\ \E b \in Block : /\ b \notin U /\ Payload(b) = ptr /\ size <= b.payload_capacity
                        /\ \A x : x \in Used(list) <=> x \in U \/ x = b

\* splitblock() of a block that is given to a client.
LEMMA SplitGrants ==
    ASSUME NEW list, NEW F, NEW end, Laid(list, F, end), Merged(list),
           NEW i \in 1 .. Len(list), ~list[i].is_free,
           NEW size \in Nat, size % ALIGN = 0, MINIMUM_PAYLOAD_SIZE <= size,
           size <= list[i].payload_capacity,
           NEW U, list[i] \notin U,
           \A x : x \in Used(list) <=> x \in U \/ x = list[i]
    PROVE  Granted(splitblock(list, i, size), F, end, U, Payload(list[i]), size)
<1> DEFINE s == splitblock(list, i, size)
<1>1. /\ Laid(s, F, end) /\ Merged(s)
      /\ \E c \in Nat : /\ size <= c
                        /\ \A x : x \in Used(s) <=>
                             \/ x \in Used(list) /\ x # list[i]
                             \/ x = [addr |-> list[i].addr, payload_capacity |-> c,
                                     is_free |-> FALSE]
    BY SplitLaid
<1> HIDE DEF s
<1>2. PICK c \in Nat : /\ size <= c
                       /\ \A x : x \in Used(s) <=>
                            \/ x \in Used(list) /\ x # list[i]
                            \/ x = [addr |-> list[i].addr, payload_capacity |-> c,
                                    is_free |-> FALSE]
    BY <1>1
<1> DEFINE b == [addr |-> list[i].addr, payload_capacity |-> c, is_free |-> FALSE]
<1>3. b.addr = list[i].addr /\ b.payload_capacity = c
    OBVIOUS
<1>4. b \in Used(s)
    BY <1>2
<1> HIDE DEF b
<1>5. b \in Block
    BY <1>1, <1>4, UsedWithin
<1>6. Payload(b) = Payload(list[i])
    BY <1>3 DEF Payload
<1>7. list[i] \in Block
    BY LaidFacts
<1>8. b \notin U
    <2>1. SUFFICES ASSUME b \in U PROVE FALSE
        OBVIOUS
    <2>2. b \in Used(list) /\ list[i] \in Used(list)
        BY <2>1
    <2>3. /\ b.addr \in Nat /\ b.addr < Payload(b) /\ Payload(b) < End(b)
          /\ Payload(b) \in Nat /\ End(b) \in Nat
        BY <1>5, BlockNumbers
    <2>4. /\ list[i].addr < Payload(list[i]) /\ Payload(list[i]) < End(list[i])
          /\ Payload(list[i]) \in Nat /\ End(list[i]) \in Nat
        BY <1>7, BlockNumbers
    <2>5. b.addr <= b.addr /\ b.addr < End(b)
        BY ONLY <2>3
    <2>6. b.addr < End(list[i])
        BY ONLY <1>3, <2>3, <2>4
    <2>7. b = list[i]
        BY <1>3, <2>2, <2>3, <2>5, <2>6, UsedApart
    <2> QED BY <2>1, <2>7
<1>9. ASSUME NEW x PROVE x \in Used(s) <=> x \in U \/ x = b
    <2>1. x \in Used(s) <=> (x \in Used(list) /\ x # list[i]) \/ x = b
        BY <1>2 DEF b
    <2>2. x \in Used(list) <=> x \in U \/ x = list[i]
        OBVIOUS
    <2>3. list[i] \notin U
        OBVIOUS
    <2> QED BY ONLY <2>1, <2>2, <2>3, Zenon
<1>10. \A x : x \in Used(s) <=> x \in U \/ x = b
    BY <1>9
<1>11. size <= b.payload_capacity
    BY <1>2, <1>3
<1> QED BY <1>1, <1>5, <1>6, <1>8, <1>10, <1>11, Zenon DEF Granted, s

\* A block that changes hands stays where it is.
LEMMA FlagLaid ==
    ASSUME NEW list, NEW F, NEW end, Laid(list, F, end),
           NEW i \in 1 .. Len(list),
           NEW r \in Seq(Block), Len(r) = Len(list),
           r[i].addr = list[i].addr, r[i].payload_capacity = list[i].payload_capacity,
           \A j \in 1 .. Len(list) : j # i => r[j] = list[j]
    PROVE  /\ Laid(r, F, end)
           /\ Merged(list) /\ ~r[i].is_free => Merged(r)
           /\ \A x : x \in Used(r) <=> \/ x \in Used(list) /\ x # list[i]
                                       \/ x = r[i] /\ ~r[i].is_free
<1> DEFINE n == Len(list)
<1>1. /\ list \in Seq(Block) /\ n \in Nat /\ end \in Nat /\ Base <= end /\ end <= Limit
      /\ F \subseteq Nat
      /\ \A j \in 1 .. n :
             /\ list[j] \in Block
             /\ Payload(list[j]) % ALIGN = 0
             /\ list[j].payload_capacity % ALIGN = 0
             /\ \A a \in F : a < list[j].addr
             /\ j < n => End(list[j]) = list[j + 1].addr
             /\ j = n => End(list[j]) = end
    BY LaidFacts
<1>2. /\ r \in Seq(Block) /\ Len(r) = n
      /\ \A j \in 1 .. n : j # i => r[j] = list[j]
    OBVIOUS
<1>3. /\ r[i].addr = list[i].addr /\ r[i].payload_capacity = list[i].payload_capacity
    OBVIOUS
<1>4. ASSUME NEW j \in 1 .. n
      PROVE  /\ r[j].addr = list[j].addr /\ r[j].payload_capacity = list[j].payload_capacity
             /\ Payload(r[j]) = Payload(list[j]) /\ End(r[j]) = End(list[j])
    <2>1. r[j].addr = list[j].addr /\ r[j].payload_capacity = list[j].payload_capacity
        <3>1. CASE j = i
            BY <1>3, <3>1
        <3>2. CASE j # i
            BY <1>2, <3>2
        <3> QED BY <3>1, <3>2
    <2> QED BY <2>1 DEF Payload, End
<1>5. ASSUME NEW j \in 1 .. Len(r) PROVE InPlace(r, F, end, j)
    <2>1. j \in 1 .. n /\ Len(r) = n
        BY <1>2
    <2>2. j < n => j + 1 \in 1 .. n
        BY <1>1, <2>1
    <2> QED BY <1>1, <1>4, <2>1, <2>2, Zenon DEF InPlace
<1>6. Laid(r, F, end)
    BY <1>1, <1>2, <1>5, FactsLaid
<1>7. ASSUME Merged(list), ~r[i].is_free PROVE Merged(r)
    <2>1. ASSUME NEW j \in 1 .. n - 1 PROVE ~(r[j].is_free /\ r[j + 1].is_free)
        <3>1. j \in 1 .. n /\ j + 1 \in 1 .. n
            BY <1>1
        <3>2. \A k \in 1 .. n : r[k].is_free => list[k].is_free
            BY <1>2, <1>3, <1>7
        <3> QED BY <1>7, <2>1, <3>1, <3>2, Zenon DEF Merged
    <2> QED BY <1>2, <2>1 DEF Merged
<1>8. ASSUME NEW x PROVE x \in Used(r) <=> \/ x \in Used(list) /\ x # list[i]
                                           \/ x = r[i] /\ ~r[i].is_free
    <2>1. x \in Used(r) <=> \E j \in 1 .. n : r[j] = x /\ ~r[j].is_free
        BY <1>2, UsedMembers
    <2>2. x \in Used(list) <=> \E j \in 1 .. n : list[j] = x /\ ~list[j].is_free
        BY <1>1, UsedMembers
    <2>3. \A j \in 1 .. n : list[j] = list[i] => j = i
        <3>1. TAKE j \in 1 .. n
        <3>2. HAVE list[j] = list[i]
        <3>3. /\ list[i].addr \in Nat /\ list[i].addr < Payload(list[i])
              /\ Payload(list[i]) < End(list[i])
              /\ Payload(list[i]) \in Nat /\ End(list[i]) \in Nat
            BY <1>1, BlockNumbers
        <3>4. list[i].addr <= list[i].addr /\ list[i].addr < End(list[i])
            BY ONLY <3>3
        <3> QED BY <3>2, <3>3, <3>4, Separate
    <2>4. ASSUME x \in Used(r) PROVE (x \in Used(list) /\ x # list[i]) \/ (x = r[i] /\ ~r[i].is_free)
        <3>1. PICK j \in 1 .. n : r[j] = x /\ ~r[j].is_free
            BY <2>1, <2>4
        <3>2. CASE j = i
            BY <1>3, <3>1, <3>2
        <3>3. CASE j # i
            BY <1>2, <2>2, <2>3, <3>1, <3>3
        <3> QED BY <3>2, <3>3
    <2>5. ASSUME x \in Used(list), x # list[i] PROVE x \in Used(r)
        <3>1. PICK j \in 1 .. n : list[j] = x /\ ~list[j].is_free
            BY <2>2, <2>5
        <3>2. j # i
            BY <2>5, <3>1
        <3> QED BY <1>2, <2>1, <3>1, <3>2
    <2>6. ASSUME x = r[i], ~r[i].is_free PROVE x \in Used(r)
        BY <1>3, <2>1, <2>6
    <2> QED BY <2>4, <2>5, <2>6
<1> QED BY <1>2, <1>3, <1>6, <1>7, <1>8

\* findblock() finds the block whose payload holds the byte.
LEMMA FindBlock ==
    ASSUME NEW list, NEW F, NEW end, Laid(list, F, end), NEW i \in 1 .. Len(list),
           NEW ptr \in Nat, Payload(list[i]) <= ptr, ptr < End(list[i])
    PROVE  findblock(list, ptr) = i
<1> DEFINE hits == {k \in DOMAIN list :
                       /\ Payload(list[k]) <= ptr /\ ptr < End(list[k])
                       /\ \A j \in 1 .. k - 1 : Payload(list[j]) <= ptr}
<1>1. Len(list) \in Nat /\ DOMAIN list = 1 .. Len(list) /\ \A k \in 1 .. Len(list) : list[k] \in Block
    BY LaidFacts
<1>2. ASSUME NEW k \in 1 .. Len(list)
      PROVE  /\ list[k].addr \in Nat /\ list[k].addr < Payload(list[k])
             /\ Payload(list[k]) < End(list[k])
             /\ Payload(list[k]) \in Nat /\ End(list[k]) \in Nat
    BY <1>1, BlockNumbers
<1>3. ASSUME NEW k \in 1 .. Len(list), Payload(list[k]) <= ptr, ptr < End(list[k])
      PROVE  k = i
    <2>1. list[k].addr <= ptr
        <3>1. list[k].addr \in Nat /\ list[k].addr < Payload(list[k]) /\ Payload(list[k]) \in Nat
            BY <1>2
        <3> QED BY <1>3, <3>1
    <2>2. list[i].addr <= ptr
        <3>1. list[i].addr \in Nat /\ list[i].addr < Payload(list[i]) /\ Payload(list[i]) \in Nat
            BY <1>2
        <3> QED BY <3>1
    <2> QED BY <1>3, <2>1, <2>2, Separate
<1>4. ASSUME NEW j \in 1 .. i - 1 PROVE Payload(list[j]) <= ptr
    <2>1. j \in 1 .. Len(list) /\ j < i
        BY <1>1
    <2>2. End(list[j]) <= list[i].addr
        BY <2>1, Ordered
    <2>3. /\ Payload(list[j]) < End(list[j]) /\ Payload(list[j]) \in Nat /\ End(list[j]) \in Nat
          /\ list[i].addr < Payload(list[i]) /\ Payload(list[i]) \in Nat /\ list[i].addr \in Nat
        BY <1>2, <2>1
    <2> QED BY <2>2, <2>3
<1>5. hits = {i}
    BY <1>1, <1>3, <1>4
<1>6. i <= i
    OBVIOUS
<1>7. Min(hits) = i
    <2>1. Min({i}) = i
        BY <1>6 DEF Min
    <2> QED BY <1>5, <2>1
<1>8. findblock(list, ptr) = IF hits = {} THEN 0 ELSE Min(hits)
    BY Zenon DEF findblock
<1> HIDE DEF hits
<1> QED BY <1>5, <1>7, <1>8

\* free() of a block in use, through any byte of its payload.
LEMMA ReleaseLaid ==
    ASSUME NEW list, NEW F, NEW end, Laid(list, F, end), NEW b \in Used(list),
           NEW ptr \in Nat, Payload(b) <= ptr, ptr < End(b)
    PROVE  /\ Laid(Release(list, ptr), F, end)
           /\ Merged(Release(list, ptr))
           /\ \A x : x \in Used(Release(list, ptr)) <=> x \in Used(list) /\ x # b
<1>1. list \in Seq(Block) /\ Len(list) \in Nat
    BY LaidFacts
<1>2. PICK i \in 1 .. Len(list) : list[i] = b /\ ~list[i].is_free
    BY <1>1, UsedMembers
<1>3. findblock(list, ptr) = i
    BY <1>2, FindBlock
<1> DEFINE r == [list EXCEPT ![i].is_free = TRUE]
<1>4. Release(list, ptr) = merge_free_nodes(r)
    <2>1. i # 0
        BY <1>1
    <2> QED BY <1>2, <1>3, <2>1 DEF Release
<1>5. /\ Laid(r, F, end)
      /\ \A x : x \in Used(r) <=> x \in Used(list) /\ x # list[i]
    <2>1. /\ r \in Seq(Block) /\ Len(r) = Len(list)
          /\ r[i] = [addr |-> list[i].addr, payload_capacity |-> list[i].payload_capacity,
                     is_free |-> TRUE]
          /\ \A j \in 1 .. Len(list) : j # i => r[j] = list[j]
        BY <1>1, FreeSet
    <2> HIDE DEF r
    <2>2. /\ r[i].addr = list[i].addr /\ r[i].payload_capacity = list[i].payload_capacity
          /\ r[i].is_free
        BY <2>1
    <2>3. /\ Laid(r, F, end)
          /\ \A x : x \in Used(r) <=> \/ x \in Used(list) /\ x # list[i]
                                      \/ x = r[i] /\ ~r[i].is_free
        BY <2>1, <2>2, FlagLaid
    <2> QED BY <2>2, <2>3, Zenon
<1> HIDE DEF r
<1>6. /\ Laid(merge_free_nodes(r), F, end) /\ Merged(merge_free_nodes(r))
      /\ Used(merge_free_nodes(r)) = Used(r)
    BY <1>5, MergeLaid
<1> QED BY <1>2, <1>4, <1>5, <1>6

-----------------------------------------------------------------------------
\* malloc() from a free block.
LEMMA TakeGrants ==
    ASSUME NEW list, NEW F, NEW end, Laid(list, F, end), Merged(list),
           NEW i \in 1 .. Len(list), list[i].is_free,
           NEW size \in Nat, size % ALIGN = 0, MINIMUM_PAYLOAD_SIZE <= size,
           size <= list[i].payload_capacity, NEW e
    PROVE  /\ Granted(Take(list, e, i, size).blocks, F, end, Used(list), Payload(list[i]), size)
           /\ Take(list, e, i, size).brk = e
           /\ Take(list, e, i, size).ptr = Payload(list[i])
<1> DEFINE r == [list EXCEPT ![i].is_free = FALSE]
<1>1. list \in Seq(Block) /\ Len(list) \in Nat /\ \A j \in 1 .. Len(list) : list[j] \in Block
    BY LaidFacts
<1>2. /\ Take(list, e, i, size).blocks = splitblock(r, i, size)
      /\ Take(list, e, i, size).brk = e
      /\ Take(list, e, i, size).ptr = Payload(list[i])
    BY DEF Take, Result
<1>3. /\ r \in Seq(Block) /\ Len(r) = Len(list)
      /\ r[i] = [addr |-> list[i].addr, payload_capacity |-> list[i].payload_capacity,
                 is_free |-> FALSE]
      /\ \A j \in 1 .. Len(list) : j # i => r[j] = list[j]
    BY <1>1, FreeSet
<1> HIDE DEF r
<1>4. /\ r[i].addr = list[i].addr /\ r[i].payload_capacity = list[i].payload_capacity
      /\ ~r[i].is_free
    BY <1>3
<1>5. /\ Laid(r, F, end)
      /\ Merged(list) /\ ~r[i].is_free => Merged(r)
      /\ \A x : x \in Used(r) <=> \/ x \in Used(list) /\ x # list[i]
                                  \/ x = r[i] /\ ~r[i].is_free
    <2>1. r \in Seq(Block) /\ Len(r) = Len(list) /\ \A j \in 1 .. Len(list) : j # i => r[j] = list[j]
        BY <1>3
    <2>2. r[i].addr = list[i].addr /\ r[i].payload_capacity = list[i].payload_capacity
        BY <1>4
    <2> QED BY <2>1, <2>2, FlagLaid, Zenon
<1>6. /\ Laid(r, F, end) /\ r[i].addr = list[i].addr
      /\ r[i].payload_capacity = list[i].payload_capacity
      /\ \A x : x \in Used(r) <=> (x \in Used(list) /\ x # list[i]) \/ x = r[i]
    BY <1>4, <1>5, Zenon
<1>7. Merged(r) /\ ~r[i].is_free
    BY <1>4, <1>5
<1>8. list[i] \notin Used(list)
    <2>1. SUFFICES ASSUME list[i] \in Used(list) PROVE FALSE
        OBVIOUS
    <2>2. PICK j \in 1 .. Len(list) : list[j] = list[i] /\ ~list[j].is_free
        BY <1>1, <2>1, UsedMembers
    <2> QED BY <2>2
<1>9. \A x : x \in Used(r) <=> x \in Used(list) \/ x = r[i]
    <2>1. TAKE x
    <2>2. x \in Used(r) <=> (x \in Used(list) /\ x # list[i]) \/ x = r[i]
        BY <1>6, Zenon
    <2> QED BY <1>8, <2>2, Zenon
<1>10. r[i] \notin Used(list)
    <2>1. SUFFICES ASSUME r[i] \in Used(list) PROVE FALSE
        OBVIOUS
    <2>2. PICK j \in 1 .. Len(list) : list[j] = r[i] /\ ~list[j].is_free
        BY <1>1, <2>1, UsedMembers
    <2>3. /\ list[i].addr \in Nat /\ list[i].addr < Payload(list[i])
          /\ Payload(list[i]) < End(list[i])
          /\ Payload(list[i]) \in Nat /\ End(list[i]) \in Nat
        BY <1>1, BlockNumbers
    <2>4. list[i].addr <= list[i].addr /\ list[i].addr < End(list[i])
        BY ONLY <2>3
    <2>5. list[j].addr = list[i].addr /\ End(list[j]) = End(list[i])
        BY <1>6, <2>2 DEF End, Payload
    <2>6. i = j
        BY <2>3, <2>4, <2>5, Separate
    <2> QED BY <2>2, <2>6
<1>11. Payload(r[i]) = Payload(list[i])
    BY <1>6 DEF Payload
<1>12. i \in 1 .. Len(r) /\ size <= r[i].payload_capacity
    BY <1>3, <1>6
<1>13. Granted(splitblock(r, i, size), F, end, Used(list), Payload(r[i]), size)
    BY <1>6, <1>7, <1>9, <1>10, <1>12, SplitGrants
<1> QED BY <1>2, <1>11, <1>13

\* malloc() from a new block at the end of the list.
LEMMA NewGrants ==
    ASSUME NEW list, NEW F, NEW end, Laid(list, F, end), Merged(list),
           NEW new \in Block, list # <<>> => new.addr = end,
           Payload(new) % ALIGN = 0, new.payload_capacity % ALIGN = 0,
           End(new) <= Limit, \A a \in F : a < new.addr,
           NEW size \in Nat, size % ALIGN = 0, MINIMUM_PAYLOAD_SIZE <= size,
           size <= new.payload_capacity, NEW e
    PROVE  LET r == Take(Append(list, new), e, Len(list) + 1, size)
           IN  /\ Granted(r.blocks, F, End(new), Used(list), Payload(new), size)
               /\ r.brk = e /\ r.ptr = Payload(new)
<1> DEFINE n == Len(list)
           b == [addr |-> new.addr, payload_capacity |-> new.payload_capacity,
                 is_free |-> FALSE]
           q == Append(list, new)
           s == [q EXCEPT ![n + 1].is_free = FALSE]
           w == Append(list, b)
<1>1. list \in Seq(Block) /\ n \in Nat /\ \A j \in 1 .. n : list[j] \in Block
    BY LaidFacts
<1>2. b \in Block
    BY DEF Block
<1>3. /\ q \in Seq(Block) /\ Len(q) = n + 1 /\ q[n + 1] = new
      /\ \A j \in 1 .. n : q[j] = list[j]
    BY <1>1, AppendQueue
<1>4. /\ Take(q, e, n + 1, size).blocks = splitblock(s, n + 1, size)
      /\ Take(q, e, n + 1, size).brk = e
      /\ Take(q, e, n + 1, size).ptr = Payload(q[n + 1])
    BY DEF Take, Result
<1> HIDE DEF q
<1>5. /\ s \in Seq(Block) /\ Len(s) = n + 1
      /\ s[n + 1] = [addr |-> q[n + 1].addr, payload_capacity |-> q[n + 1].payload_capacity,
                     is_free |-> FALSE]
      /\ \A j \in 1 .. n + 1 : j # n + 1 => s[j] = q[j]
    <2>1. n + 1 \in 1 .. Len(q)
        BY <1>1, <1>3
    <2>2. PICK k \in 1 .. Len(q) : k = n + 1
        BY <2>1
    <2>3. LET r == [q EXCEPT ![k].is_free = FALSE]
          IN  /\ r \in Seq(Block) /\ Len(r) = Len(q)
              /\ r[k] = [addr |-> q[k].addr, payload_capacity |-> q[k].payload_capacity,
                         is_free |-> FALSE]
              /\ \A j \in 1 .. Len(q) : j # k => r[j] = q[j]
        BY <1>3, FreeSet
    <2> QED BY <1>3, <2>2, <2>3
<1> HIDE DEF s
<1>6. /\ w \in Seq(Block) /\ Len(w) = n + 1 /\ w[n + 1] = b
      /\ \A j \in 1 .. n : w[j] = list[j]
    <2> HIDE DEF b
    <2> QED BY <1>1, <1>2, AppendQueue
<1>7. s = w
    <2>1. s[n + 1] = w[n + 1]
        BY <1>3, <1>5, <1>6
    <2> HIDE DEF w, b
    <2>2. ASSUME NEW j \in 1 .. n + 1 PROVE s[j] = w[j]
        <3>1. CASE j = n + 1
            BY <2>1, <3>1
        <3>2. CASE j # n + 1
            <4>1. j \in 1 .. n
                BY <1>1, <3>2
            <4> QED BY <1>3, <1>5, <1>6, <3>2, <4>1
        <3> QED BY <3>1, <3>2
    <2> QED BY <1>5, <1>6, <2>2, SeqEqual
<1>8. /\ b.addr = new.addr /\ b.payload_capacity = new.payload_capacity /\ ~b.is_free
      /\ Payload(b) = Payload(new) /\ End(b) = End(new)
    BY DEF Payload, End
<1>9. w = Absorb(list, b)
    BY <1>8 DEF Absorb
<1> HIDE DEF w, b
<1>10. /\ Laid(w, F, End(b)) /\ Merged(w)
       /\ \A x : x \in Used(w) <=> x \in Used(list) \/ (x = b /\ ~b.is_free)
    <2>1. /\ list # <<>> => b.addr = end
          /\ Payload(b) % ALIGN = 0 /\ b.payload_capacity % ALIGN = 0
          /\ End(b) <= Limit /\ \A a \in F : a < b.addr
        BY <1>8
    <2> QED BY <1>2, <1>9, <2>1, AbsorbLaid
<1>11. b \notin Used(list)
    <2>1. SUFFICES ASSUME b \in Used(list) PROVE FALSE
        OBVIOUS
    <2>2. PICK j \in 1 .. n : list[j] = b
        BY <1>1, <2>1, UsedMembers
    <2>3. j \in 1 .. n + 1 /\ n + 1 \in 1 .. n + 1 /\ j # n + 1
        BY <1>1
    <2>4. w[j] = b /\ w[n + 1] = b
        BY <1>6, <2>2
    <2>5. b.addr \in Nat /\ b.addr < Payload(b) /\ Payload(b) < End(b)
          /\ Payload(b) \in Nat /\ End(b) \in Nat
        BY <1>2, BlockNumbers
    <2>6. b.addr <= b.addr /\ b.addr < End(b)
        BY ONLY <2>5
    <2>7. j = n + 1
        BY <1>6, <1>10, <2>3, <2>4, <2>5, <2>6, Separate
    <2> QED BY <2>3, <2>7
<1>12. /\ n + 1 \in 1 .. Len(w) /\ ~w[n + 1].is_free /\ size <= w[n + 1].payload_capacity
       /\ w[n + 1] \notin Used(list)
       /\ \A x : x \in Used(w) <=> x \in Used(list) \/ x = w[n + 1]
    BY <1>1, <1>6, <1>8, <1>10, <1>11
<1>13. Granted(splitblock(w, n + 1, size), F, End(b), Used(list), Payload(w[n + 1]), size)
    <2>1. PICK k : k = n + 1
        OBVIOUS
    <2>2. /\ k \in 1 .. Len(w) /\ ~w[k].is_free /\ size <= w[k].payload_capacity
          /\ w[k] \notin Used(list)
          /\ \A x : x \in Used(w) <=> x \in Used(list) \/ x = w[k]
        BY <1>12, <2>1
    <2>3. Granted(splitblock(w, k, size), F, End(b), Used(list), Payload(w[k]), size)
        BY <1>10, <2>2, SplitGrants
    <2> QED BY <2>1, <2>3
<1>14. Granted(splitblock(s, n + 1, size), F, End(new), Used(list), Payload(new), size)
    BY <1>6, <1>7, <1>8, <1>13
<1> QED BY <1>3, <1>4, <1>14 DEF q

-----------------------------------------------------------------------------
\* sbrk() fails or moves the break up by what is asked.
LEMMA SbrkUp ==
    ASSUME NEW b \in Nat, Base <= b, b <= Limit, NEW k \in Nat, k + Limit <= Word
    PROVE  \/ sbrk(b, k) = NULL
           \/ sbrk(b, k) = b + k /\ b + k <= Limit /\ sbrk(b, k) # NULL
<1>1. CASE 2 * k < Word
    <2>1. sbrk(b, k) = IF b + k \in Base .. Limit THEN b + k ELSE NULL
        BY <1>1 DEF sbrk
    <2> QED BY <2>1, Sizing DEF NULL
<1>2. CASE ~(2 * k < Word)
    <2>1. sbrk(b, k) = IF b + (k - Word) \in Base .. Limit THEN b + (k - Word) ELSE NULL
        BY <1>2 DEF sbrk
    <2>2. b + (k - Word) \notin Base .. Limit
        BY Sizing
    <2> QED BY <2>1, <2>2
<1> QED BY <1>1, <1>2

\* The break, once it is aligned: where it was, if there are blocks.
LEMMA AlignBreak ==
    ASSUME Modest, NEW list, NEW F, NEW b, Laid(list, F, b)
    PROVE  LET k == round_up_16(b) - b
           IN  /\ k \in Nat /\ k + Limit <= Word
               /\ (b + k) % ALIGN = 0
               /\ list # <<>> => k = 0
<1>1. /\ list \in Seq(Block) /\ Len(list) \in Nat /\ b \in Nat /\ b <= Limit
      /\ \A i \in 1 .. Len(list) : /\ list[i] \in Block
                                   /\ Payload(list[i]) % ALIGN = 0
                                   /\ list[i].payload_capacity % ALIGN = 0
                                   /\ i = Len(list) => End(list[i]) = b
    BY LaidFacts
<1>2. CHUNK_SIZE + Limit <= Word
    BY DEF Modest
<1>3. b + ALIGN <= Word /\ ALIGN + Limit <= Word
    <2>1. ALIGN <= CHUNK_SIZE
        BY AlignAssumption
    <2> QED BY <1>1, <1>2, <2>1, Sizing
<1>4. /\ round_up_16(b) \in Nat /\ round_up_16(b) % ALIGN = 0
      /\ b <= round_up_16(b) /\ round_up_16(b) < b + ALIGN
    BY <1>1, <1>3, RoundUp
<1>5. PICK u \in Nat : u = round_up_16(b)
    BY <1>4
<1>6. /\ u - b \in Nat /\ u - b + Limit <= Word /\ b + (u - b) = u
    <2>1. b <= u /\ u < b + ALIGN
        BY <1>4, <1>5
    <2> QED BY ONLY <1>1, <1>3, <2>1, <1>5, Sizing, u \in Nat
<1>7. (b + (u - b)) % ALIGN = 0
    BY <1>4, <1>5, <1>6, Zenon
<1>8. ASSUME list # <<>> PROVE u - b = 0
    <2>1. Len(list) # 0
        BY <1>1, <1>8, QueueMembers
    <2>2. PICK m \in 1 .. Len(list) : m = Len(list)
        BY <1>1, <2>1
    <2>3. /\ list[m] \in Block /\ Payload(list[m]) % ALIGN = 0
          /\ list[m].payload_capacity % ALIGN = 0 /\ End(list[m]) = b
        BY <1>1, <2>2, Zenon
    <2>4. /\ Payload(list[m]) \in Nat /\ list[m].payload_capacity \in Nat
          /\ b = Payload(list[m]) + list[m].payload_capacity
        BY <2>3, BlockNumbers DEF End
    <2>5. b % ALIGN = 0
        BY <2>3, <2>4, AlignedSum, Zenon
    <2>6. u = b
        BY <1>1, <1>3, <1>5, <2>5, RoundedStays, Zenon
    <2> QED BY <1>1, <2>6
<1> QED BY <1>5, <1>6, <1>7, <1>8

\* What malloc() leaves behind, with r as its result.
Served(r, size) ==
    /\ r.brk \in Nat /\ brk <= r.brk
    /\ r.ptr = NULL => r.blocks = blocks /\ Laid(blocks, foreign, r.brk)
    /\ r.ptr # NULL => Granted(r.blocks, foreign, r.brk, Used(blocks), r.ptr, size)

\* The part of the invariant that is about the list.
Standing ==
    /\ Laid(blocks, foreign, brk)
    /\ Merged(blocks)
    /\ \A a \in foreign : a < brk

\* A payload is never at NULL.
LEMMA PayloadSomewhere ==
    ASSUME NEW b \in Block
    PROVE  Payload(b) # NULL
<1>1. Payload(b) \in Nat /\ b.addr < Payload(b) /\ b.addr \in Nat
    BY BlockNumbers
<1> QED BY ONLY <1>1 DEF NULL

\* malloc() with more memory from sbrk().
LEMMA GrowServes ==
    ASSUME Modest, Standing,
           NEW size \in Nat, size % ALIGN = 0, MINIMUM_PAYLOAD_SIZE <= size,
           header_size + size + Limit <= Word
    PROVE  Served(Grow(blocks, size), size)
<1>1. /\ Laid(blocks, foreign, brk) /\ Merged(blocks) /\ \A a \in foreign : a < brk
    BY DEF Standing
<1>2. /\ blocks \in Seq(Block) /\ brk \in Nat /\ Base <= brk /\ brk <= Limit /\ foreign \subseteq Nat
    BY <1>1, LaidFacts
<1>3. CHUNK_SIZE + Limit <= Word
    BY DEF Modest
<1> DEFINE used == (header_size + size) % Word
           nbs == IF used < CHUNK_SIZE THEN CHUNK_SIZE ELSE used
           pad == round_up_16(brk) - brk
           aligned == sbrk(brk, pad)
           up == sbrk(aligned, nbs)
           new == [addr |-> aligned, payload_capacity |-> nbs - header_size, is_free |-> TRUE]
           r == Grow(blocks, size)
<1>4. r = IF aligned = NULL THEN Result(blocks, brk, NULL)
          ELSE IF up = NULL THEN Result(blocks, aligned, NULL)
          ELSE Take(Append(blocks, new), up, Len(blocks) + 1, size)
    BY DEF Grow
<1>5. /\ nbs \in Nat /\ header_size + size <= nbs /\ CHUNK_SIZE <= nbs /\ nbs + Limit <= Word
      /\ nbs % ALIGN = 0
    <2>1. header_size + size \in Nat /\ header_size + size < Word
        BY Sizing
    <2>2. used = header_size + size
        BY <2>1, NoWrap
    <2>3. (header_size + size) % ALIGN = 0
        <3>1. header_size \in Nat
            BY Sizing
        <3> QED BY <3>1, Multiples, AlignedSum, Zenon
    <2> HIDE DEF used
    <2>4. CASE used < CHUNK_SIZE
        BY <1>3, <2>1, <2>2, <2>4, Sizing, Multiples
    <2>5. CASE ~(used < CHUNK_SIZE)
        BY <2>1, <2>2, <2>3, <2>5, Sizing
    <2> QED BY <2>4, <2>5
<1>6. pad \in Nat /\ pad + Limit <= Word /\ (brk + pad) % ALIGN = 0 /\ (blocks # <<>> => pad = 0)
    BY <1>1, AlignBreak
<1> HIDE DEF nbs, pad
<1>7. aligned = NULL \/ (aligned = brk + pad /\ brk + pad <= Limit /\ aligned # NULL)
    BY <1>2, <1>6, SbrkUp
<1> HIDE DEF aligned
<1>8. CASE aligned = NULL
    <2>1. r.blocks = blocks /\ r.brk = brk /\ r.ptr = NULL
        BY <1>4, <1>8 DEF Result
    <2>2. brk <= brk
        BY <1>2
    <2> HIDE DEF r
    <2>3. Served(r, size)
        BY <1>1, <1>2, <2>1, <2>2, Zenon DEF Served
    <2> QED BY <2>3 DEF r
<1>9. CASE aligned # NULL
    <2>1. /\ aligned \in Nat /\ aligned = brk + pad /\ Base <= aligned /\ aligned <= Limit
          /\ brk <= aligned /\ aligned % ALIGN = 0 /\ (blocks # <<>> => aligned = brk)
        <3>1. aligned = brk + pad /\ brk + pad <= Limit
            BY <1>7, <1>9
        <3>2. aligned \in Nat /\ Base <= aligned /\ aligned <= Limit /\ brk <= aligned
              /\ (pad = 0 => aligned = brk)
            BY ONLY <1>2, <1>6, <3>1, Sizing
        <3> QED BY <1>6, <3>1, <3>2, Zenon
    <2>2. up = NULL \/ (up = aligned + nbs /\ aligned + nbs <= Limit /\ up # NULL)
        BY <1>5, <2>1, SbrkUp
    <2> HIDE DEF up
    <2>3. CASE up = NULL
        <3>1. r.blocks = blocks /\ r.brk = aligned /\ r.ptr = NULL
            BY <1>4, <1>9, <2>3 DEF Result
        <3> HIDE DEF r
        <3>2. Laid(blocks, foreign, aligned)
            <4>1. CASE blocks # <<>>
                BY <1>1, <2>1, <4>1
            <4>2. CASE blocks = <<>>
                <5>1. \A i : i \notin 1 .. Len(blocks)
                    BY <4>2, EmptyQueue
                <5>2. \A i \in 1 .. Len(blocks) : InPlace(blocks, foreign, aligned, i)
                    BY <5>1, Zenon
                <5> QED BY <1>2, <2>1, <5>2, FactsLaid
            <4> QED BY <4>1, <4>2
        <3>3. Served(r, size)
            BY <2>1, <3>1, <3>2, Zenon DEF Served
        <3> QED BY <3>3 DEF r
    <2>4. CASE up # NULL
        <3>1. up = aligned + nbs /\ aligned + nbs <= Limit
            BY <2>2, <2>4
        <3>2. /\ aligned < Limit /\ nbs - header_size \in Nat /\ size <= nbs - header_size
              /\ MINIMUM_PAYLOAD_SIZE <= nbs - header_size /\ nbs - header_size < Word
              /\ aligned + header_size + (nbs - header_size) = up
              /\ up \in Nat /\ up <= Limit /\ brk <= up /\ header_size <= nbs
            BY ONLY <1>2, <1>5, <2>1, <3>1, Sizing, size \in Nat, MINIMUM_PAYLOAD_SIZE <= size
        <3>3. (nbs - header_size) % ALIGN = 0
            <4>1. header_size \in Nat /\ header_size <= nbs
                BY <3>2, Sizing
            <4> QED BY <1>5, <4>1, Multiples, AlignedDifference, Zenon
        <3>4. (aligned + header_size) % ALIGN = 0
            <4>1. header_size \in Nat
                BY Sizing
            <4> QED BY <2>1, <4>1, Multiples, AlignedSum, Zenon
        <3>5. new \in Block
            <4>1. aligned \in Addr
                BY <2>1, <3>2, Sizing DEF Addr
            <4>2. nbs - header_size \in MINIMUM_PAYLOAD_SIZE .. Word - 1
                BY <3>2, Sizing
            <4> QED BY <4>1, <4>2 DEF Block
        <3>6. /\ new.addr = aligned /\ new.payload_capacity = nbs - header_size
              /\ Payload(new) = aligned + header_size
              /\ End(new) = aligned + header_size + (nbs - header_size)
            BY DEF Payload, End
        <3>7. r = Take(Append(blocks, new), up, Len(blocks) + 1, size)
            BY <1>4, <1>9, <2>4
        <3> HIDE DEF new
        <3>8. \A a \in foreign : a < new.addr
            <4>1. TAKE a \in foreign
            <4>2. a \in Nat /\ a < brk
                BY <1>1, <1>2
            <4>3. new.addr = aligned /\ brk <= aligned /\ brk \in Nat /\ aligned \in Nat
                BY <1>2, <2>1, <3>6
            <4> QED BY ONLY <4>2, <4>3
        <3>9. LET q == Take(Append(blocks, new), up, Len(blocks) + 1, size)
              IN  /\ Granted(q.blocks, foreign, End(new), Used(blocks), Payload(new), size)
                  /\ q.brk = up /\ q.ptr = Payload(new)
            <4>1. /\ blocks # <<>> => new.addr = brk
                  /\ Payload(new) % ALIGN = 0 /\ new.payload_capacity % ALIGN = 0
                  /\ End(new) <= Limit
                  /\ size <= new.payload_capacity
                BY <2>1, <3>2, <3>3, <3>4, <3>6
            <4> QED BY <1>1, <3>5, <3>8, <4>1, NewGrants
        <3>10. End(new) = up
            BY <3>2, <3>6
        <3>11. r.brk = up /\ r.ptr = Payload(new)
               /\ Granted(r.blocks, foreign, up, Used(blocks), Payload(new), size)
            BY <3>7, <3>9, <3>10
        <3>12. Payload(new) # NULL
            BY <3>5, PayloadSomewhere
        <3> HIDE DEF r
        <3>13. Served(r, size)
            BY <3>2, <3>11, <3>12, Zenon DEF Served
        <3> QED BY <3>13 DEF r
    <2> QED BY <2>3, <2>4
<1> QED BY <1>8, <1>9

\* The size that malloc() and realloc() work with.
LEMMA Rounded ==
    ASSUME NEW size \in Nat, size # 0, Fits(size)
    PROVE  LET n == round_up_16(size)
           IN  /\ n \in Nat /\ n % ALIGN = 0 /\ size <= n /\ MINIMUM_PAYLOAD_SIZE <= n
               /\ header_size + n + Limit <= Word
<1>1. size + ALIGN + header_size + Limit <= Word
    BY DEF Fits
<1>2. size + ALIGN <= Word
    BY <1>1, Sizing
<1>3. /\ round_up_16(size) \in Nat /\ round_up_16(size) % ALIGN = 0
      /\ size <= round_up_16(size) /\ round_up_16(size) < size + ALIGN
    BY <1>2, RoundUp
<1>4. PICK n \in Nat : n = round_up_16(size)
    BY <1>3
<1>5. n % ALIGN = 0 /\ size <= n /\ n < size + ALIGN
    BY <1>3, <1>4
<1>6. ALIGN <= n
    <2>1. SUFFICES ASSUME n < ALIGN PROVE FALSE
        BY Sizing
    <2>2. n % ALIGN = n
        BY <2>1, Sizing, SmallMod
    <2> QED BY <1>5, <2>2
<1>7. MINIMUM_PAYLOAD_SIZE <= n /\ header_size + n + Limit <= Word
    BY ONLY <1>1, <1>5, <1>6, Sizing, n \in Nat, size \in Nat
<1> QED BY <1>4, <1>5, <1>7

\* A block with room for more has room for less.
LEMMA GrantedLess ==
    ASSUME NEW list, NEW F, NEW end, NEW U, NEW ptr, NEW m \in Nat, NEW n \in Nat, m <= n,
           Granted(list, F, end, U, ptr, n)
    PROVE  Granted(list, F, end, U, ptr, m)
<1>1. PICK b \in Block : /\ b \notin U /\ Payload(b) = ptr /\ n <= b.payload_capacity
                         /\ \A x : x \in Used(list) <=> x \in U \/ x = b
    BY DEF Granted
<1>2. b.payload_capacity \in Nat
    BY BlockNumbers
<1>3. m <= b.payload_capacity
    BY <1>1, <1>2
<1> QED BY <1>1, <1>3 DEF Granted

\* malloc() of any size that fits.
LEMMA AllocateServes ==
    ASSUME Modest, Standing, NEW size \in Nat, Fits(size)
    PROVE  /\ Served(Allocate(size), size)
           /\ Allocate(size).ptr # NULL => size # 0
<1> DEFINE n == round_up_16(size)
           r == Allocate(size)
<1>1. /\ Laid(blocks, foreign, brk) /\ Merged(blocks)
    BY DEF Standing
<1>2. /\ blocks \in Seq(Block) /\ brk \in Nat /\ Len(blocks) \in Nat
      /\ DOMAIN blocks = 1 .. Len(blocks) /\ \A i \in 1 .. Len(blocks) : blocks[i] \in Block
    BY <1>1, LaidFacts
<1>3. brk <= brk
    BY <1>2
<1>4. CASE size = 0
    <2>1. r.blocks = blocks /\ r.brk = brk /\ r.ptr = NULL
        BY <1>4 DEF Allocate, Result
    <2> HIDE DEF r
    <2>2. Served(r, size)
        BY <1>1, <1>2, <1>3, <2>1, Zenon DEF Served
    <2> QED BY <2>1, <2>2 DEF r
<1>5. CASE size # 0
    <2>1. /\ n \in Nat /\ n % ALIGN = 0 /\ size <= n /\ MINIMUM_PAYLOAD_SIZE <= n
          /\ header_size + n + Limit <= Word
        BY <1>5, Rounded
    <2>2. r = IF Fitting(n) # {} THEN Take(blocks, brk, Min(Fitting(n)), n)
              ELSE Grow(blocks, n)
        BY <1>5 DEF Allocate
    <2> HIDE DEF n
    <2>3. Served(r, n)
        <3>1. CASE Fitting(n) = {}
            BY <2>1, <2>2, <3>1, GrowServes
        <3>2. CASE Fitting(n) # {}
            <4>1. PICK T \in SUBSET Nat : T = Fitting(n)
                <5>1. Fitting(n) \in SUBSET Nat
                    BY <1>2 DEF Fitting
                <5> QED BY <5>1, Zenon
            <4>2. \E m \in T : \A k \in T : m <= k
                BY <3>2, <4>1, Least
            <4>3. Min(T) \in T
                BY <4>2 DEF Min
            <4>4. PICK i \in 1 .. Len(blocks) : /\ i = Min(Fitting(n)) /\ blocks[i].is_free
                                                /\ blocks[i].payload_capacity >= n
                BY <1>2, <4>1, <4>3 DEF Fitting
            <4>5. blocks[i].payload_capacity \in Nat /\ Payload(blocks[i]) # NULL
                BY <1>2, BlockNumbers, PayloadSomewhere
            <4>6. n <= blocks[i].payload_capacity
                BY <2>1, <4>4, <4>5
            <4>7. r = Take(blocks, brk, i, n)
                BY <2>2, <3>2, <4>4
            <4> HIDE DEF r
            <4>8. /\ Granted(r.blocks, foreign, brk, Used(blocks), Payload(blocks[i]), n)
                  /\ r.brk = brk /\ r.ptr = Payload(blocks[i])
                BY <1>1, <2>1, <4>4, <4>6, <4>7, TakeGrants
            <4> QED BY <1>2, <1>3, <4>5, <4>8, Zenon DEF Served
        <3> QED BY <3>1, <3>2
    <2> HIDE DEF r
    <2>4. Served(r, size)
        <3>1. Granted(r.blocks, foreign, r.brk, Used(blocks), r.ptr, n)
              => Granted(r.blocks, foreign, r.brk, Used(blocks), r.ptr, size)
            BY <2>1, GrantedLess
        <3> QED BY <2>3, <3>1, Zenon DEF Served
    <2> QED BY <1>5, <2>4 DEF r
<1> QED BY <1>4, <1>5

-----------------------------------------------------------------------------
\* The clients own the blocks of U, and no more than there is.
Owned(U, regions) ==
    /\ DOMAIN regions = {Payload(b) : b \in U}
    /\ \A b \in U : regions[Payload(b)] \in 1 .. b.payload_capacity

Value == {UNKNOWN, HEADER} \cup Nat

IndInv ==
    /\ Standing
    /\ Owned(Used(blocks), held)
    /\ mem \in [Addr -> Value]
    /\ foreign \subseteq Addr

\* Two blocks in use with the same address, or the same payload, are one.
LEMMA SamePlace ==
    ASSUME NEW list, NEW F, NEW end, Laid(list, F, end),
           NEW b \in Used(list), NEW c \in Used(list),
           b.addr = c.addr \/ Payload(b) = Payload(c)
    PROVE  b = c
<1>1. b \in Block /\ c \in Block
    BY UsedWithin
<1>2. /\ b.addr \in Nat /\ b.addr < Payload(b) /\ Payload(b) < End(b)
      /\ Payload(b) = b.addr + header_size /\ Payload(b) \in Nat /\ End(b) \in Nat
    BY <1>1, BlockNumbers
<1>3. /\ c.addr \in Nat /\ c.addr < Payload(c) /\ Payload(c) < End(c)
      /\ Payload(c) = c.addr + header_size /\ Payload(c) \in Nat /\ End(c) \in Nat
    BY <1>1, BlockNumbers
<1>4. b.addr = c.addr
    BY <1>2, <1>3, Sizing
<1>5. b.addr <= b.addr /\ b.addr < End(b) /\ c.addr <= b.addr /\ b.addr < End(c)
    BY ONLY <1>2, <1>3, <1>4
<1> QED BY <1>2, <1>5, UsedApart

\* A new region.
LEMMA OwnedGranted ==
    ASSUME NEW U, NEW regions, Owned(U, regions),
           NEW list, NEW F, NEW end, NEW ptr, NEW size \in Nat \ {0},
           Granted(list, F, end, U, ptr, size)
    PROVE  Owned(Used(list), With(regions, ptr, size)) /\ ptr \notin DOMAIN regions
<1>1. PICK b \in Block : /\ b \notin U /\ Payload(b) = ptr /\ size <= b.payload_capacity
                         /\ \A x : x \in Used(list) <=> x \in U \/ x = b
    BY DEF Granted
<1>2. Laid(list, F, end)
    BY DEF Granted
<1>3. \A c \in U : Payload(c) # ptr
    <2>1. TAKE c \in U
    <2>2. b \in Used(list) /\ c \in Used(list)
        BY <1>1
    <2>3. Payload(c) = ptr => b = c
        BY <1>1, <1>2, <2>2, SamePlace
    <2> QED BY <1>1, <2>3
<1>4. /\ DOMAIN regions = {Payload(c) : c \in U}
      /\ \A c \in U : regions[Payload(c)] \in 1 .. c.payload_capacity
    BY DEF Owned
<1> DEFINE new == With(regions, ptr, size)
<1>5. /\ DOMAIN new = DOMAIN regions \cup {ptr}
      /\ new[ptr] = size
      /\ \A q \in DOMAIN regions : q # ptr => new[q] = regions[q]
    BY DEF With
<1> HIDE DEF new
<1>6. DOMAIN new = {Payload(c) : c \in Used(list)}
    BY <1>1, <1>4, <1>5
<1>7. ASSUME NEW c \in Used(list) PROVE new[Payload(c)] \in 1 .. c.payload_capacity
    <2>1. CASE c = b
        <3>1. b.payload_capacity \in Nat
            BY BlockNumbers
        <3>2. size \in 1 .. b.payload_capacity
            BY <1>1, <3>1
        <3> QED BY <1>1, <1>5, <2>1, <3>2
    <2>2. CASE c # b
        BY <1>1, <1>3, <1>4, <1>5, <2>2
    <2> QED BY <2>1, <2>2
<1>8. ptr \notin DOMAIN regions
    BY <1>3, <1>4
<1> QED BY <1>6, <1>7, <1>8 DEF Owned, new

\* A region that is given back.
LEMMA OwnedReleased ==
    ASSUME NEW list, NEW F, NEW end, Laid(list, F, end),
           NEW regions, Owned(Used(list), regions), NEW b \in Used(list),
           NEW V, \A x : x \in V <=> x \in Used(list) /\ x # b
    PROVE  Owned(V, Without(regions, Payload(b)))
<1>1. \A c \in Used(list) : Payload(c) = Payload(b) => c = b
    BY SamePlace
<1>2. /\ DOMAIN regions = {Payload(c) : c \in Used(list)}
      /\ \A c \in Used(list) : regions[Payload(c)] \in 1 .. c.payload_capacity
    BY DEF Owned
<1> DEFINE new == Without(regions, Payload(b))
<1>3. /\ DOMAIN new = DOMAIN regions \ {Payload(b)}
      /\ \A q \in DOMAIN regions : q # Payload(b) => new[q] = regions[q]
    BY DEF Without
<1> HIDE DEF new
<1>4. DOMAIN new = {Payload(c) : c \in V}
    BY <1>1, <1>2, <1>3
<1>5. \A c \in V : new[Payload(c)] \in 1 .. c.payload_capacity
    BY <1>1, <1>2, <1>3
<1> QED BY <1>4, <1>5 DEF Owned, new

\* Replacing a region is giving it back and getting a new one.
LEMMA WithWithout ==
    ASSUME NEW regions, NEW p, NEW size
    PROVE  With(Without(regions, p), p, size) = With(regions, p, size)
BY DEF With, Without

\* A region can be given back before or after another is got.
LEMMA WithOther ==
    ASSUME NEW regions, NEW p, NEW size, NEW q, q # p
    PROVE  With(Without(regions, p), q, size) = Without(With(regions, q, size), p)
<1> DEFINE s == Without(regions, p)
           t == With(regions, q, size)
<1>1. DOMAIN s = DOMAIN regions \ {p} /\ \A k \in DOMAIN s : s[k] = regions[k]
    BY DEF Without
<1>2. /\ DOMAIN t = DOMAIN regions \cup {q}
      /\ \A k \in DOMAIN t : t[k] = IF k = q THEN size ELSE regions[k]
    BY DEF With
<1>3. With(s, q, size) = [k \in DOMAIN s \cup {q} |-> IF k = q THEN size ELSE s[k]]
    BY DEF With
<1>4. Without(t, p) = [k \in DOMAIN t \ {p} |-> t[k]]
    BY DEF Without
<1> HIDE DEF s, t
<1>5. DOMAIN s \cup {q} = DOMAIN t \ {p}
    BY <1>1, <1>2
<1>6. \A k \in DOMAIN t \ {p} : (IF k = q THEN size ELSE s[k]) = t[k]
    BY <1>1, <1>2
<1> QED BY <1>3, <1>4, <1>5, <1>6 DEF s, t

\* What a call leaves behind is again such a state.
LEMMA Settled ==
    ASSUME IndInv, NEW r, NEW regions, NEW m \in [Addr -> Value],
           Settle(r, regions, m),
           Laid(r.blocks, foreign, r.brk), Merged(r.blocks), brk <= r.brk,
           Owned(Used(r.blocks), regions)
    PROVE  IndInv'
<1>1. blocks' = r.blocks /\ brk' = r.brk /\ held' = regions /\ foreign' = foreign
    BY DEF Settle
<1>2. mem' \in [Addr -> Value]
    <2>1. HEADER \in Value /\ UNKNOWN \in Value
        BY DEF Value
    <2>2. mem' = [a \in Addr |->
                    IF a \in Headers(r.blocks) THEN HEADER
                    ELSE IF \E p \in DOMAIN regions : a \in Region(p, regions) THEN m[a]
                    ELSE UNKNOWN]
        BY DEF Settle
    <2> QED BY <2>1, <2>2
<1>3. Standing'
    <2>1. \A a \in foreign : a < r.brk
        <3>1. TAKE a \in foreign
        <3>2. a < brk /\ a \in Nat /\ brk \in Nat
            BY LaidFacts DEF IndInv, Standing
        <3>3. r.brk \in Nat
            BY LaidFacts
        <3> QED BY <3>2, <3>3
    <2> QED BY <1>1, <2>1 DEF Standing
<1>4. Owned(Used(blocks'), held')
    BY <1>1
<1> QED BY <1>1, <1>2, <1>3, <1>4 DEF IndInv

\* The invariant has all that the runs check.
LEMMA Consequences ==
    ASSUME IndInv
    PROVE  TypeOK /\ HeapTiled /\ NoFreeNeighbours /\ NoLeak /\ EnoughRoom
<1>1. /\ Laid(blocks, foreign, brk) /\ Merged(blocks)
      /\ DOMAIN held = {Payload(b) : b \in Used(blocks)}
      /\ \A b \in Used(blocks) : held[Payload(b)] \in 1 .. b.payload_capacity
    BY DEF IndInv, Standing, Owned
<1>2. blocks \in Seq(Block) /\ Len(blocks) \in Nat /\ DOMAIN blocks = 1 .. Len(blocks)
    BY <1>1, LaidFacts
<1>3. \A b : b \in Used(blocks) <=> \E i \in 1 .. Len(blocks) : blocks[i] = b /\ ~blocks[i].is_free
    BY <1>2, UsedMembers
<1>4. TypeOK
    <2>1. ASSUME NEW p \in DOMAIN held PROVE p \in Addr /\ held[p] \in 1 .. Word - 1
        <3>1. PICK b \in Used(blocks) : p = Payload(b)
            BY <1>1
        <3>2. b \in Block /\ End(b) <= brk
            BY <1>1, UsedWithin
        <3>3. /\ b.addr \in Nat /\ Base <= b.addr /\ b.addr < Payload(b) /\ Payload(b) < End(b)
              /\ Payload(b) \in Nat /\ End(b) \in Nat /\ b.payload_capacity \in Nat
              /\ b.payload_capacity < Word
            BY <3>2, BlockNumbers
        <3>4. brk \in Nat /\ brk <= Limit
            BY <1>1, LaidFacts
        <3>5. Base <= Payload(b) /\ Payload(b) <= Limit - 1
            BY <3>2, <3>3, <3>4, Sizing
        <3>6. p \in Addr
            BY <3>1, <3>3, <3>5, Sizing DEF Addr
        <3>7. held[p] \in 1 .. b.payload_capacity
            BY <1>1, <3>1
        <3> QED BY <3>3, <3>6, <3>7, Sizing
    <2>2. brk \in Base .. Limit
        BY <1>1 DEF Laid
    <2>3. mem \in [Addr -> {UNKNOWN, HEADER} \cup Nat] /\ foreign \subseteq Addr
        BY DEF IndInv, Value
    <2> QED BY <1>2, <2>1, <2>2, <2>3 DEF TypeOK
<1>5. HeapTiled
    BY <1>1 DEF Laid, HeapTiled
<1>6. NoFreeNeighbours
    BY <1>1 DEF Merged, NoFreeNeighbours
<1>7. NoLeak
    <2> DEFINE A == {Payload(blocks[i]) : i \in {j \in DOMAIN blocks : ~blocks[j].is_free}}
    <2>1. A \subseteq DOMAIN held
        BY <1>1, <1>2, <1>3
    <2>2. ASSUME NEW p \in DOMAIN held PROVE p \in A
        <3>1. PICK b \in Used(blocks) : p = Payload(b)
            BY <1>1
        <3>2. PICK i \in 1 .. Len(blocks) : blocks[i] = b /\ ~blocks[i].is_free
            BY <1>3
        <3> QED BY <1>2, <3>1, <3>2
    <2> HIDE DEF A
    <2>3. A = DOMAIN held
        BY <2>1, <2>2
    <2> QED BY <2>3 DEF NoLeak, A
<1>8. EnoughRoom
    <2>1. ASSUME NEW p \in DOMAIN held
          PROVE  \E i \in DOMAIN blocks : /\ Payload(blocks[i]) = p /\ ~blocks[i].is_free
                                          /\ held[p] <= blocks[i].payload_capacity
        <3>1. PICK b \in Used(blocks) : p = Payload(b)
            BY <1>1
        <3>2. PICK i \in 1 .. Len(blocks) : blocks[i] = b /\ ~blocks[i].is_free
            BY <1>3
        <3>3. held[p] <= b.payload_capacity
            BY <1>1, <3>1
        <3> QED BY <1>2, <3>1, <3>2, <3>3
    <2> QED BY <2>1 DEF EnoughRoom
<1> QED BY <1>4, <1>5, <1>6, <1>7, <1>8

\* No block is twice in a list.
LEMMA Once ==
    ASSUME NEW list, NEW F, NEW end, Laid(list, F, end), NEW i \in 1 .. Len(list)
    PROVE  \A j \in 1 .. Len(list) : list[j] = list[i] => j = i
<1>1. TAKE j \in 1 .. Len(list)
<1>2. HAVE list[j] = list[i]
<1>3. list[i] \in Block
    BY LaidFacts
<1>4. /\ list[i].addr \in Nat /\ list[i].addr < Payload(list[i])
      /\ Payload(list[i]) < End(list[i])
      /\ Payload(list[i]) \in Nat /\ End(list[i]) \in Nat
    BY <1>3, BlockNumbers
<1>5. list[i].addr <= list[i].addr /\ list[i].addr < End(list[i])
    BY ONLY <1>4
<1> QED BY <1>2, <1>4, <1>5, Separate

-----------------------------------------------------------------------------
\* realloc() of the last block: it ends later.
LEMMA StretchLaid ==
    ASSUME NEW list, NEW F, NEW end, Laid(list, F, end), Merged(list),
           NEW i \in 1 .. Len(list), i = Len(list),
           NEW r \in Seq(Block), Len(r) = Len(list),
           r[i].addr = list[i].addr, ~r[i].is_free, r[i].payload_capacity % ALIGN = 0,
           NEW e \in Nat, Base <= e, e <= Limit, End(r[i]) = e,
           \A j \in 1 .. Len(list) : j # i => r[j] = list[j]
    PROVE  /\ Laid(r, F, e) /\ Merged(r)
           /\ \A x : x \in Used(r) <=> (x \in Used(list) /\ x # list[i]) \/ x = r[i]
<1> DEFINE n == Len(list)
<1>1. /\ list \in Seq(Block) /\ n \in Nat /\ F \subseteq Nat
      /\ \A j \in 1 .. n :
             /\ list[j] \in Block
             /\ Payload(list[j]) % ALIGN = 0
             /\ list[j].payload_capacity % ALIGN = 0
             /\ \A a \in F : a < list[j].addr
             /\ j < n => End(list[j]) = list[j + 1].addr
    BY LaidFacts
<1>2. ASSUME NEW j \in 1 .. n PROVE r[j].addr = list[j].addr /\ Payload(r[j]) = Payload(list[j])
    BY DEF Payload
<1>3. ASSUME NEW j \in 1 .. Len(r) PROVE InPlace(r, F, e, j)
    <2>1. CASE j = i
        <3>1. Len(r) = n /\ i = n /\ ~(n < n)
            BY <1>1
        <3> QED BY <1>1, <1>2, <2>1, <3>1, Zenon DEF InPlace
    <2>2. CASE j # i
        <3>1. j \in 1 .. n /\ j < n /\ j + 1 \in 1 .. n /\ Len(r) = n /\ j # n
            BY <1>1, <2>2
        <3>2. r[j] = list[j] /\ r[j + 1].addr = list[j + 1].addr
            BY <1>2, <2>2, <3>1
        <3> QED BY <1>1, <3>1, <3>2, Zenon DEF InPlace
    <2> QED BY <2>1, <2>2
<1>4. Laid(r, F, e)
    BY <1>1, <1>3, FactsLaid
<1>5. Merged(r)
    <2>1. ASSUME NEW j \in 1 .. n - 1 PROVE ~(r[j].is_free /\ r[j + 1].is_free)
        <3>1. j \in 1 .. n /\ j + 1 \in 1 .. n
            BY <1>1
        <3>2. \A k \in 1 .. n : r[k].is_free => list[k].is_free
            OBVIOUS
        <3> QED BY <2>1, <3>1, <3>2, Zenon DEF Merged
    <2> QED BY <2>1 DEF Merged
<1>6. ASSUME NEW x PROVE x \in Used(r) <=> (x \in Used(list) /\ x # list[i]) \/ x = r[i]
    <2>1. x \in Used(r) <=> \E j \in 1 .. n : r[j] = x /\ ~r[j].is_free
        BY UsedMembers
    <2>2. x \in Used(list) <=> \E j \in 1 .. n : list[j] = x /\ ~list[j].is_free
        BY <1>1, UsedMembers
    <2>3. \A j \in 1 .. n : list[j] = list[i] => j = i
        BY Once
    <2>4. ASSUME x \in Used(r) PROVE (x \in Used(list) /\ x # list[i]) \/ x = r[i]
        <3>1. PICK j \in 1 .. n : r[j] = x /\ ~r[j].is_free
            BY <2>1, <2>4
        <3>2. CASE j = i
            BY <3>1, <3>2
        <3>3. CASE j # i
            BY <2>2, <2>3, <3>1, <3>3
        <3> QED BY <3>2, <3>3
    <2>5. ASSUME x \in Used(list), x # list[i] PROVE x \in Used(r)
        <3>1. PICK j \in 1 .. n : list[j] = x /\ ~list[j].is_free
            BY <2>2, <2>5
        <3>2. j # i
            BY <2>5, <3>1
        <3> QED BY <2>1, <3>1, <3>2
    <2>6. ASSUME x = r[i] PROVE x \in Used(r)
        BY <2>1, <2>6
    <2> QED BY <2>4, <2>5, <2>6
<1> QED BY <1>4, <1>5, <1>6

\* The list r is list with the free block i + 1 as a part of block i.
OneFewer(list, r, i) ==
    /\ i < Len(list) /\ list[i + 1].is_free
    /\ r \in Seq(Block) /\ Len(r) = Len(list) - 1
    /\ r[i].addr = list[i].addr /\ ~r[i].is_free /\ r[i].payload_capacity % ALIGN = 0
    /\ End(r[i]) = End(list[i + 1])
    /\ \A j \in 1 .. Len(r) : (j < i => r[j] = list[j]) /\ (i < j => r[j] = list[j + 1])

\* realloc() into the free block that follows: it takes that one's place too.
LEMMA JoinLaid ==
    ASSUME NEW list, NEW F, NEW end, Laid(list, F, end), Merged(list),
           NEW i \in 1 .. Len(list), NEW r, OneFewer(list, r, i)
    PROVE  /\ Laid(r, F, end) /\ Merged(r)
           /\ \A x : x \in Used(r) <=> (x \in Used(list) /\ x # list[i]) \/ x = r[i]
<1> DEFINE n == Len(list)
           m == Len(r)
<1> USE DEF OneFewer
<1>1. /\ list \in Seq(Block) /\ n \in Nat /\ F \subseteq Nat
      /\ end \in Nat /\ Base <= end /\ end <= Limit
      /\ \A j \in 1 .. n :
             /\ list[j] \in Block
             /\ Payload(list[j]) % ALIGN = 0
             /\ list[j].payload_capacity % ALIGN = 0
             /\ \A a \in F : a < list[j].addr
             /\ j < n => End(list[j]) = list[j + 1].addr
             /\ j = n => End(list[j]) = end
    BY LaidFacts
<1>2. m \in Nat /\ n = m + 1 /\ i \in 1 .. m /\ i + 1 \in 1 .. n
    BY <1>1
<1>3. Payload(r[i]) = Payload(list[i])
    BY DEF Payload
<1>4. ASSUME NEW j \in 1 .. m PROVE InPlace(r, F, end, j)
    <2>1. CASE j < i
        <3>1. /\ j \in 1 .. n /\ j < n /\ j < m /\ j # m /\ j + 1 \in 1 .. n /\ j + 1 \in 1 .. m
              /\ j + 1 <= i
            BY <1>2, <2>1
        <3>2. r[j] = list[j] /\ r[j + 1].addr = list[j + 1].addr
            <4>1. CASE j + 1 = i
                BY <1>2, <2>1, <4>1
            <4>2. CASE j + 1 # i
                BY <1>2, <2>1, <3>1, <4>2
            <4> QED BY <4>1, <4>2
        <3>3. /\ Payload(list[j]) % ALIGN = 0 /\ list[j].payload_capacity % ALIGN = 0
              /\ \A a \in F : a < list[j].addr
              /\ End(list[j]) = list[j + 1].addr
            BY <1>1, <3>1, Zenon
        <3> QED BY <3>1, <3>2, <3>3, Zenon DEF InPlace
    <2>2. CASE j = i
        <3>1. i = m => i + 1 = n
            BY <1>2
        <3>2. i < m => /\ i + 1 < n /\ i + 1 \in 1 .. m /\ r[i + 1] = list[i + 1 + 1]
            BY <1>2
        <3>3. /\ i + 1 \in 1 .. n /\ i \in 1 .. n
            BY <1>2
        <3>4. /\ i < m => End(r[i]) = r[i + 1].addr
              /\ i = m => End(r[i]) = end
            BY <1>1, <3>1, <3>2, <3>3, Zenon
        <3> QED BY <1>1, <1>3, <2>2, <3>3, <3>4, Zenon DEF InPlace
    <2>3. CASE i < j
        <3>1. j + 1 \in 1 .. n /\ (j < m => j + 1 < n /\ j + 1 \in 1 .. m) /\ (j = m => j + 1 = n)
            BY <1>2
        <3>2. r[j] = list[j + 1] /\ (j < m => r[j + 1] = list[j + 1 + 1])
            BY <1>2, <2>3, <3>1
        <3>3. /\ Payload(list[j + 1]) % ALIGN = 0 /\ list[j + 1].payload_capacity % ALIGN = 0
              /\ \A a \in F : a < list[j + 1].addr
              /\ j < m => End(list[j + 1]) = list[j + 1 + 1].addr
              /\ j = m => End(list[j + 1]) = end
            BY <1>1, <3>1, Zenon
        <3> QED BY <3>1, <3>2, <3>3, Zenon DEF InPlace
    <2> QED BY <1>2, <2>1, <2>2, <2>3
<1>5. Laid(r, F, end)
    BY <1>1, <1>4, FactsLaid
<1>6. Merged(r)
    <2>1. ASSUME NEW j \in 1 .. m - 1, r[j].is_free, r[j + 1].is_free PROVE FALSE
        <3>1. \A k \in 1 .. n - 1 : ~(list[k].is_free /\ list[k + 1].is_free)
            BY DEF Merged
        <3>2. j \in 1 .. m /\ j + 1 \in 1 .. m /\ j \in 1 .. n - 1 /\ j + 1 \in 1 .. n - 1
            BY <1>2
        <3>3. j # i /\ j + 1 # i
            BY <2>1
        <3>4. CASE j < i
            BY <1>2, <2>1, <3>1, <3>2, <3>3, <3>4
        <3>5. CASE i < j
            <4>1. PICK k \in 1 .. n - 1 : k = j + 1
                BY <3>2
            <4>2. r[j] = list[k] /\ r[k] = list[k + 1]
                BY <1>2, <3>2, <3>5, <4>1
            <4> QED BY <2>1, <3>1, <4>1, <4>2
        <3> QED BY <1>2, <3>3, <3>4, <3>5
    <2> QED BY <2>1 DEF Merged
<1>7. ASSUME NEW x PROVE x \in Used(r) <=> (x \in Used(list) /\ x # list[i]) \/ x = r[i]
    <2>1. x \in Used(r) <=> \E j \in 1 .. m : r[j] = x /\ ~r[j].is_free
        BY UsedMembers
    <2>2. x \in Used(list) <=> \E j \in 1 .. n : list[j] = x /\ ~list[j].is_free
        BY <1>1, UsedMembers
    <2>3. \A j \in 1 .. n : list[j] = list[i] => j = i
        BY Once
    <2>4. ASSUME x \in Used(r) PROVE (x \in Used(list) /\ x # list[i]) \/ x = r[i]
        <3>1. PICK j \in 1 .. m : r[j] = x /\ ~r[j].is_free
            BY <2>1, <2>4
        <3>2. CASE j = i
            BY <3>1, <3>2
        <3>3. CASE j < i
            BY <1>2, <2>2, <2>3, <3>1, <3>3
        <3>4. CASE i < j
            <4>1. PICK k \in 1 .. n : k = j + 1 /\ k # i
                BY <1>2, <3>4
            <4> QED BY <1>2, <2>2, <2>3, <3>1, <3>4, <4>1
        <3> QED BY <1>2, <3>2, <3>3, <3>4
    <2>5. ASSUME x \in Used(list), x # list[i] PROVE x \in Used(r)
        <3>1. PICK j \in 1 .. n : list[j] = x /\ ~list[j].is_free
            BY <2>2, <2>5
        <3>2. j # i /\ j # i + 1
            BY <2>5, <3>1
        <3>3. CASE j < i
            BY <1>2, <2>1, <3>1, <3>3
        <3>4. CASE i < j
            <4>1. PICK k \in 1 .. m : j = k + 1 /\ i < k
                <5>1. j - 1 \in 1 .. m /\ j = (j - 1) + 1 /\ i < j - 1
                    BY <1>2, <3>2, <3>4
                <5> QED BY <5>1
            <4> QED BY <1>2, <2>1, <3>1, <4>1
        <3> QED BY <1>2, <3>2, <3>3, <3>4
    <2>6. ASSUME x = r[i] PROVE x \in Used(r)
        BY <1>2, <2>1, <2>6
    <2> QED BY <2>4, <2>5, <2>6
<1> QED BY <1>5, <1>6, <1>7

\* A block that stays with its client, cut to size.
LEMMA StayGrants ==
    ASSUME NEW list, NEW F, NEW end, Laid(list, F, end), NEW i \in 1 .. Len(list), ~list[i].is_free,
           NEW r, NEW e, Laid(r, F, e), Merged(r), i \in 1 .. Len(r), ~r[i].is_free,
           r[i].addr = list[i].addr,
           \A x : x \in Used(r) <=> (x \in Used(list) /\ x # list[i]) \/ x = r[i],
           NEW size \in Nat, size % ALIGN = 0, MINIMUM_PAYLOAD_SIZE <= size,
           size <= r[i].payload_capacity,
           NEW U, \A x : x \in U <=> x \in Used(list) /\ x # list[i]
    PROVE  Granted(splitblock(r, i, size), F, e, U, Payload(list[i]), size)
<1>1. list \in Seq(Block)
    BY LaidFacts
<1>2. r[i] \notin U
    <2>1. SUFFICES ASSUME r[i] \in U PROVE FALSE
        OBVIOUS
    <2>2. r[i] \in Used(list) /\ r[i] # list[i]
        BY <2>1
    <2>3. list[i] \in Used(list)
        BY <1>1, UsedMembers
    <2> QED BY <2>2, <2>3, SamePlace
<1>3. \A x : x \in Used(r) <=> x \in U \/ x = r[i]
    BY Zenon
<1>4. Payload(r[i]) = Payload(list[i])
    BY DEF Payload
<1>5. Granted(splitblock(r, i, size), F, e, U, Payload(r[i]), size)
    BY <1>2, <1>3, SplitGrants
<1> QED BY <1>4, <1>5

\* Memory that a client fills.
LEMMA FilledValues ==
    ASSUME NEW m \in [Addr -> Value], NEW p \in Nat, NEW from \in Nat, NEW size \in Nat
    PROVE  Filled(m, p, from, size) \in [Addr -> Value]
<1>1. ASSUME NEW a \in Addr, a \in p + from .. p + size - 1 PROVE a - p + 1 \in Value
    <2>1. a \in Nat
        BY Sizing DEF Addr
    <2>2. a - p + 1 \in Nat
        BY <1>1, <2>1
    <2> QED BY <2>2 DEF Value
<1> QED BY <1>1 DEF Filled

\* realloc() in place, with the block as it is in list.
LEMMA Stays ==
    ASSUME IndInv, NEW i \in 1 .. Len(blocks), ~blocks[i].is_free,
           NEW list, NEW e, Laid(list, foreign, e), Merged(list),
           i \in 1 .. Len(list), ~list[i].is_free, list[i].addr = blocks[i].addr,
           \A x : x \in Used(list) <=> (x \in Used(blocks) /\ x # blocks[i]) \/ x = list[i],
           brk <= e, NEW size \in Nat \ {0}, Fits(size),
           round_up_16(size) <= list[i].payload_capacity,
           StayAt(i, list, e, size)
    PROVE  IndInv'
<1>1. /\ Laid(blocks, foreign, brk) /\ Owned(Used(blocks), held) /\ mem \in [Addr -> Value]
    BY DEF IndInv, Standing
<1>2. blocks \in Seq(Block) /\ blocks[i] \in Block
    BY <1>1, LaidFacts
<1>3. PICK n \in Nat : /\ n = round_up_16(size) /\ n % ALIGN = 0 /\ size <= n
                       /\ MINIMUM_PAYLOAD_SIZE <= n
    BY Rounded
<1>4. PICK U : U = {x \in Used(blocks) : x # blocks[i]}
    OBVIOUS
<1>5. \A x : x \in U <=> x \in Used(blocks) /\ x # blocks[i]
    BY <1>4
<1>6. PICK p \in Nat : p = Payload(blocks[i])
    BY <1>2, BlockNumbers
<1>7. PICK s : s = splitblock(list, i, n)
    OBVIOUS
<1>8. n <= list[i].payload_capacity
    BY <1>3
<1>9. Granted(splitblock(list, i, n), foreign, e, U, Payload(blocks[i]), n)
    BY <1>1, <1>3, <1>5, <1>8, StayGrants
<1>10. Granted(s, foreign, e, U, p, size)
    BY <1>3, <1>6, <1>7, <1>9, GrantedLess
<1>11. blocks[i] \in Used(blocks)
    BY <1>2, UsedMembers
<1>12. PICK regions : regions = Without(held, p)
    OBVIOUS
<1>13. Owned(U, regions)
    BY <1>1, <1>5, <1>6, <1>11, <1>12, OwnedReleased
<1>14. Owned(Used(s), With(regions, p, size))
    BY <1>10, <1>13, OwnedGranted
<1>15. With(regions, p, size) = With(held, p, size)
    BY <1>12, WithWithout
<1>16. PICK k \in Nat : k = held[p]
    <2>1. held[Payload(blocks[i])] \in 1 .. blocks[i].payload_capacity
        BY <1>1, <1>11 DEF Owned
    <2>2. blocks[i].payload_capacity \in Nat
        BY <1>2, BlockNumbers
    <2> QED BY <1>6, <2>1, <2>2
<1>17. PICK m : m = Filled(mem, p, k, size)
    OBVIOUS
<1>18. m \in [Addr -> Value]
    BY <1>1, <1>17, FilledValues
<1>19. PICK w : w = With(held, p, size)
    OBVIOUS
<1>20. PICK r : r = Result(s, e, p)
    OBVIOUS
<1>21. Settle(r, w, m)
    BY <1>3, <1>6, <1>7, <1>16, <1>17, <1>19, <1>20 DEF StayAt
<1>22. r.blocks = s /\ r.brk = e
    BY <1>20 DEF Result
<1>23. Laid(s, foreign, e) /\ Merged(s)
    BY <1>10 DEF Granted
<1>24. Owned(Used(s), w)
    BY <1>14, <1>15, <1>19
<1> QED BY <1>18, <1>21, <1>22, <1>23, <1>24, Settled

\* The block behind a pointer into a region of a client.
LEMMA Owner ==
    ASSUME IndInv, NEW p \in DOMAIN held, NEW ptr \in Ends(p, held[p])
    PROVE  \E i \in 1 .. Len(blocks) :
               /\ findblock(blocks, ptr) = i /\ ~blocks[i].is_free /\ blocks[i] \in Block
               /\ Payload(blocks[i]) = p
               /\ ptr \in Nat /\ p <= ptr /\ ptr < End(blocks[i])
<1>1. /\ Laid(blocks, foreign, brk) /\ Owned(Used(blocks), held)
    BY DEF IndInv, Standing
<1>2. PICK b \in Used(blocks) : p = Payload(b) /\ held[p] \in 1 .. b.payload_capacity
    BY <1>1 DEF Owned
<1>3. blocks \in Seq(Block)
    BY <1>1, LaidFacts
<1>4. PICK i \in 1 .. Len(blocks) : blocks[i] = b /\ ~blocks[i].is_free
    BY <1>2, <1>3, UsedMembers
<1>5. b \in Block
    BY <1>1, UsedWithin
<1>6. /\ Payload(b) \in Nat /\ End(b) \in Nat /\ b.payload_capacity \in Nat
      /\ End(b) = Payload(b) + b.payload_capacity
    BY <1>5, BlockNumbers DEF End
<1>7. PICK k \in Nat : k = held[p] /\ 1 <= k /\ k <= b.payload_capacity
    BY <1>2, <1>6
<1>8. ptr = p \/ ptr = p + k - 1
    BY <1>7 DEF Ends
<1>9. ptr \in Nat /\ p <= ptr /\ ptr < End(b)
    BY <1>2, <1>6, <1>7, <1>8
<1>10. findblock(blocks, ptr) = i
    BY <1>1, <1>2, <1>4, <1>9, FindBlock
<1> QED BY <1>2, <1>4, <1>5, <1>9, <1>10

-----------------------------------------------------------------------------
\* The sizes that are asked for.
LEMMA Asked ==
    ASSUME Modest, NEW size \in Sizes
    PROVE  size \in Nat /\ Fits(size)
<1>1. size \in 0 .. Word - 1 /\ Word \in Nat
    BY RequestAssumption, Sizing
<1> QED BY <1>1 DEF Modest

LEMMA ShrinkKeeps ==
    ASSUME Modest, IndInv, NEW p \in DOMAIN held, NEW ptr \in Ends(p, held[p]),
           NEW size \in Sizes, size # 0, realloc_shrink(ptr, size)
    PROVE  IndInv'
<1>1. size \in Nat \ {0} /\ Fits(size)
    BY Asked
<1>2. PICK i \in 1 .. Len(blocks) : /\ findblock(blocks, ptr) = i /\ ~blocks[i].is_free
                                    /\ blocks[i] \in Block
    BY Owner
<1>3. blocks[i].payload_capacity >= round_up_16(size) /\ StayAt(i, blocks, brk, size)
    BY <1>2 DEF realloc_shrink
<1>4. PICK s, e : s = blocks /\ e = brk
    OBVIOUS
<1>5. /\ Laid(blocks, foreign, brk) /\ Merged(blocks)
    BY DEF IndInv, Standing
<1>6. blocks \in Seq(Block) /\ brk \in Nat
    BY <1>5, LaidFacts
<1>7. blocks[i] \in Used(blocks) /\ brk <= brk
    BY <1>2, <1>6, UsedMembers
<1>8. \A x : x \in Used(blocks) <=> (x \in Used(blocks) /\ x # blocks[i]) \/ x = blocks[i]
    BY <1>7, Zenon
<1>9. round_up_16(size) <= blocks[i].payload_capacity
    BY <1>1, <1>2, <1>3, BlockNumbers, Rounded
<1>10. StayAt(i, s, e, size)
    BY <1>3, <1>4
<1>11. /\ Laid(s, foreign, e) /\ Merged(s) /\ i \in 1 .. Len(s) /\ ~s[i].is_free
       /\ s[i].addr = blocks[i].addr /\ brk <= e /\ round_up_16(size) <= s[i].payload_capacity
       /\ \A x : x \in Used(s) <=> (x \in Used(blocks) /\ x # blocks[i]) \/ x = s[i]
    BY <1>2, <1>4, <1>5, <1>7, <1>8, <1>9
<1> QED BY <1>1, <1>2, <1>10, <1>11, Stays

LEMMA LastKeeps ==
    ASSUME Modest, IndInv, NEW p \in DOMAIN held, NEW ptr \in Ends(p, held[p]),
           NEW size \in Sizes, size # 0, realloc_last(ptr, size)
    PROVE  IndInv'
<1>1. size \in Nat \ {0} /\ Fits(size)
    BY Asked
<1>2. PICK i \in 1 .. Len(blocks) : /\ findblock(blocks, ptr) = i /\ ~blocks[i].is_free
                                    /\ blocks[i] \in Block
    BY Owner
<1>3. PICK n \in Nat : /\ n = round_up_16(size) /\ n % ALIGN = 0
                       /\ header_size + n + Limit <= Word
    BY <1>1, Rounded
<1>4. /\ Laid(blocks, foreign, brk) /\ Merged(blocks)
    BY DEF IndInv, Standing
<1>5. PICK cap \in Nat : cap = blocks[i].payload_capacity /\ MINIMUM_PAYLOAD_SIZE <= cap
    BY <1>2, BlockNumbers
<1>6. PICK k : k = IF n - cap < CHUNK_SIZE THEN CHUNK_SIZE ELSE n - cap
    OBVIOUS
<1>7. /\ cap < n /\ i = Len(blocks) /\ sbrk(brk, k) # NULL
      /\ StayAt(i, [blocks EXCEPT ![i].payload_capacity = cap + k], sbrk(brk, k), size)
    BY <1>2, <1>3, <1>5, <1>6 DEF realloc_last
<1>8. /\ blocks \in Seq(Block) /\ brk \in Nat /\ Base <= brk /\ brk <= Limit
      /\ cap % ALIGN = 0 /\ End(blocks[i]) = brk
    BY <1>4, <1>5, <1>7, LaidFacts
<1>9. k \in Nat /\ n <= cap + k /\ k + Limit <= Word
    <2>1. CHUNK_SIZE + Limit <= Word
        BY DEF Modest
    <2>2. cap < n
        BY <1>7
    <2>3. header_size + n + Limit <= Word
        BY <1>3
    <2> QED BY ONLY <1>6, <2>1, <2>2, <2>3, Sizing, n \in Nat, cap \in Nat
<1>10. k % ALIGN = 0
    <2>1. cap <= n
        BY <1>7
    <2>2. (n - cap) % ALIGN = 0
        BY <1>3, <1>8, <2>1, AlignedDifference, Zenon
    <2> QED BY <1>6, <2>2, Multiples, Zenon
<1>11. PICK e \in Nat : e = sbrk(brk, k) /\ e = brk + k /\ e <= Limit
    <2>1. sbrk(brk, k) = brk + k /\ brk + k <= Limit
        BY <1>7, <1>8, <1>9, SbrkUp
    <2>2. brk + k \in Nat
        BY <1>8, <1>9
    <2> QED BY <2>1, <2>2
<1>12. PICK c \in Nat : c = cap + k
    BY <1>9
<1>13. /\ c % ALIGN = 0
    BY <1>8, <1>9, <1>10, <1>12, AlignedSum, Zenon
<1>14. /\ MINIMUM_PAYLOAD_SIZE <= c /\ c < Word /\ brk <= e /\ Base <= e
       /\ blocks[i].addr + header_size + c = e /\ n <= c
    <2>1. PICK a \in Nat : a = blocks[i].addr /\ brk = a + header_size + cap
        BY <1>2, <1>5, <1>8, BlockNumbers
    <2>2. Base <= brk /\ brk \in Nat
        BY <1>8
    <2>3. e = brk + k /\ e <= Limit
        BY <1>11
    <2>4. MINIMUM_PAYLOAD_SIZE <= cap
        BY <1>5
    <2>5. a + header_size + c = e /\ n <= c /\ cap <= c /\ brk <= e
        <3>1. brk = a + header_size + cap /\ header_size \in Nat
            BY <2>1, Sizing
        <3> QED BY ONLY <1>9, <1>12, <2>2, <2>3, <3>1,
                        cap \in Nat, a \in Nat, c \in Nat, e \in Nat, n \in Nat
    <2>6. MINIMUM_PAYLOAD_SIZE <= c /\ c < Word /\ Base <= e
        BY ONLY <2>2, <2>3, <2>4, <2>5, Sizing, cap \in Nat, a \in Nat, c \in Nat, e \in Nat
    <2> QED BY <2>1, <2>5, <2>6
<1>15. PICK s : s = [blocks EXCEPT ![i].payload_capacity = c]
    OBVIOUS
<1>16. /\ s \in Seq(Block) /\ Len(s) = Len(blocks)
       /\ s[i] = [addr |-> blocks[i].addr, payload_capacity |-> c,
                  is_free |-> blocks[i].is_free]
       /\ \A j \in 1 .. Len(blocks) : j # i => s[j] = blocks[j]
    BY <1>8, <1>14, <1>15, CapacitySet
<1>17. /\ s[i].addr = blocks[i].addr /\ s[i].payload_capacity = c /\ ~s[i].is_free
    BY <1>2, <1>16
<1>18. End(s[i]) = e
    BY <1>14, <1>17 DEF End, Payload
<1>19. /\ Laid(s, foreign, e) /\ Merged(s)
       /\ \A x : x \in Used(s) <=> (x \in Used(blocks) /\ x # blocks[i]) \/ x = s[i]
    <2>1. /\ i = Len(blocks) /\ e <= Limit /\ Base <= e
          /\ s \in Seq(Block) /\ Len(s) = Len(blocks)
          /\ s[i].addr = blocks[i].addr /\ ~s[i].is_free /\ s[i].payload_capacity % ALIGN = 0
        BY <1>7, <1>11, <1>13, <1>14, <1>16, <1>17
    <2>2. \A j \in 1 .. Len(blocks) : j # i => s[j] = blocks[j]
        BY <1>16
    <2>3. PICK l, F, b : l = blocks /\ F = foreign /\ b = brk
        OBVIOUS
    <2>4. /\ Laid(s, F, e) /\ Merged(s)
          /\ \A x : x \in Used(s) <=> (x \in Used(l) /\ x # l[i]) \/ x = s[i]
        BY <1>4, <1>18, <2>1, <2>2, <2>3, StretchLaid
    <2> QED BY <2>3, <2>4
<1>20. StayAt(i, s, e, size)
    BY <1>7, <1>11, <1>12, <1>15
<1>21. i \in 1 .. Len(s) /\ round_up_16(size) <= s[i].payload_capacity
    BY <1>3, <1>14, <1>16, <1>17
<1> QED BY <1>1, <1>2, <1>14, <1>17, <1>19, <1>20, <1>21, Stays

LEMMA ExpandKeeps ==
    ASSUME Modest, IndInv, NEW p \in DOMAIN held, NEW ptr \in Ends(p, held[p]),
           NEW size \in Sizes, size # 0, realloc_expand(ptr, size)
    PROVE  IndInv'
<1>1. size \in Nat \ {0} /\ Fits(size)
    BY Asked
<1>2. PICK i \in 1 .. Len(blocks) : /\ findblock(blocks, ptr) = i /\ ~blocks[i].is_free
                                    /\ blocks[i] \in Block
    BY Owner
<1>3. PICK n \in Nat : n = round_up_16(size)
    BY <1>1, Rounded
<1>4. /\ Laid(blocks, foreign, brk) /\ Merged(blocks)
    BY DEF IndInv, Standing
<1>5. /\ i < Len(blocks) /\ blocks[i + 1].is_free /\ Available(i) >= n
      /\ StayAt(i, RemoveAt([blocks EXCEPT ![i].payload_capacity = Available(i)], i + 1),
                brk, size)
    BY <1>2, <1>3 DEF realloc_expand
<1>6. /\ blocks \in Seq(Block) /\ Len(blocks) \in Nat /\ brk \in Nat /\ brk <= Limit
    BY <1>4, LaidFacts
<1>7. PICK j \in 1 .. Len(blocks) : j = i + 1
    BY <1>5, <1>6
<1>8. /\ blocks[j] \in Block /\ End(blocks[i]) = blocks[j].addr
      /\ blocks[i].payload_capacity % ALIGN = 0 /\ blocks[j].payload_capacity % ALIGN = 0
    BY <1>4, <1>5, <1>7, LaidFacts
<1>9. End(blocks[j]) <= brk
    BY <1>4, Ordered
<1>10. PICK a \in Nat, cap \in Nat : /\ a = blocks[i].addr /\ cap = blocks[i].payload_capacity
                                     /\ MINIMUM_PAYLOAD_SIZE <= cap
                                     /\ End(blocks[i]) = a + header_size + cap
    BY <1>2, BlockNumbers
<1>11. PICK d \in Nat, q \in Nat : /\ q = blocks[j].addr /\ d = blocks[j].payload_capacity
                                   /\ End(blocks[j]) = q + header_size + d
    BY <1>8, BlockNumbers
<1>12. a + header_size + cap = q /\ q + header_size + d <= Limit
    <2>1. q + header_size + d <= brk /\ header_size \in Nat
        BY <1>9, <1>11, Sizing
    <2>2. Limit \in Nat
        BY Sizing
    <2>3. q + header_size + d <= Limit
        BY ONLY <1>6, <2>1, <2>2, q \in Nat, d \in Nat
    <2> QED BY <1>8, <1>10, <1>11, <2>3
<1>13. PICK c \in Nat : c = cap + header_size + d
    BY <1>10, <1>12, Joined
<1>14. /\ MINIMUM_PAYLOAD_SIZE <= c /\ c < Word /\ q + header_size + d = a + header_size + c
    <2>1. /\ MINIMUM_PAYLOAD_SIZE <= cap + header_size + d /\ cap + header_size + d < Word
          /\ q + header_size + d = a + header_size + (cap + header_size + d)
        BY <1>10, <1>12, Joined
    <2> QED BY <1>13, <2>1
<1>15. c % ALIGN = 0
    <2>1. cap % ALIGN = 0 /\ d % ALIGN = 0
        BY <1>8, <1>10, <1>11
    <2>2. header_size \in Nat /\ header_size % ALIGN = 0
        BY Sizing, Multiples
    <2>3. cap + header_size \in Nat /\ (cap + header_size) % ALIGN = 0
        BY <2>1, <2>2, AlignedSum, Zenon
    <2> QED BY <1>13, <2>1, <2>3, AlignedSum, Zenon
<1>16. Available(i) = c
    BY <1>7, <1>10, <1>11, <1>13 DEF Available
<1>17. PICK t : t = [blocks EXCEPT ![i].payload_capacity = c]
    OBVIOUS
<1>18. /\ t \in Seq(Block) /\ Len(t) = Len(blocks)
       /\ t[i] = [addr |-> blocks[i].addr, payload_capacity |-> c,
                  is_free |-> blocks[i].is_free]
       /\ \A k \in 1 .. Len(blocks) : k # i => t[k] = blocks[k]
    BY <1>6, <1>14, <1>17, CapacitySet
<1>19. PICK s : s = RemoveAt(t, j)
    OBVIOUS
<1>20. /\ s \in Seq(Block) /\ Len(s) = Len(t) - 1
       /\ \A k \in 1 .. Len(t) - 1 : s[k] = IF k < j THEN t[k] ELSE t[k + 1]
    <2>1. j \in 1 .. Len(t)
        BY <1>18
    <2> QED BY <1>18, <1>19, <2>1, Removed
<1>21. i \in 1 .. Len(s) /\ s[i] = t[i]
    <2>1. i \in 1 .. Len(t) - 1 /\ i < j
        BY <1>5, <1>6, <1>7, <1>18
    <2>2. s[i] = t[i]
        BY <1>20, <2>1
    <2> QED BY <1>20, <2>1, <2>2
<1>22. /\ s[i].addr = a /\ s[i].payload_capacity = c /\ ~s[i].is_free
    BY <1>2, <1>10, <1>18, <1>21
<1>23. End(s[i]) = End(blocks[j])
    BY <1>11, <1>14, <1>22 DEF End, Payload
<1>24. \A k \in 1 .. Len(s) : /\ k < i => s[k] = blocks[k]
                              /\ i < k => s[k] = blocks[k + 1]
    <2>1. TAKE k \in 1 .. Len(s)
    <2>2. /\ k \in 1 .. Len(t) - 1 /\ k \in 1 .. Len(blocks) /\ k + 1 \in 1 .. Len(blocks)
          /\ k < i => k < j /\ k # i
          /\ i < k => ~(k < j) /\ k + 1 # i
        BY <1>6, <1>7, <1>18, <1>20
    <2> QED BY <1>18, <1>20, <2>2
<1>25. /\ Laid(s, foreign, brk) /\ Merged(s)
       /\ \A x : x \in Used(s) <=> (x \in Used(blocks) /\ x # blocks[i]) \/ x = s[i]
    <2>1. Len(s) = Len(blocks) - 1 /\ blocks[i + 1].is_free /\ End(s[i]) = End(blocks[i + 1])
        BY <1>5, <1>7, <1>18, <1>20, <1>23
    <2>2. s[i].addr = blocks[i].addr /\ ~s[i].is_free /\ s[i].payload_capacity % ALIGN = 0
        BY <1>10, <1>15, <1>22
    <2>3. s \in Seq(Block) /\ i < Len(blocks)
        BY <1>5, <1>20
    <2>4. PICK l, F, b : l = blocks /\ F = foreign /\ b = brk
        OBVIOUS
    <2>5. /\ Laid(s, F, b) /\ Merged(s)
          /\ \A x : x \in Used(s) <=> (x \in Used(l) /\ x # l[i]) \/ x = s[i]
        <3>1. /\ Laid(l, F, b) /\ Merged(l) /\ i \in 1 .. Len(l) /\ i < Len(l)
              /\ l[i + 1].is_free /\ s \in Seq(Block) /\ Len(s) = Len(l) - 1
            BY <1>4, <2>1, <2>3, <2>4
        <3>2. /\ s[i].addr = l[i].addr /\ ~s[i].is_free /\ s[i].payload_capacity % ALIGN = 0
              /\ End(s[i]) = End(l[i + 1])
            BY <2>1, <2>2, <2>4
        <3>3. \A k \in 1 .. Len(s) : (k < i => s[k] = l[k]) /\ (i < k => s[k] = l[k + 1])
            BY <1>24, <2>4
        <3>4. OneFewer(l, s, i)
            BY <3>1, <3>2, <3>3, Zenon DEF OneFewer
        <3> QED BY ONLY <3>1, <3>4, JoinLaid, Zenon
    <2> QED BY <2>4, <2>5
<1>26. PICK e : e = brk
    OBVIOUS
<1>27. StayAt(i, s, e, size)
    BY <1>5, <1>7, <1>16, <1>17, <1>19, <1>26
<1>28. round_up_16(size) <= s[i].payload_capacity /\ brk <= brk
    BY <1>3, <1>5, <1>6, <1>16, <1>22
<1> QED BY <1>1, <1>2, <1>10, <1>21, <1>22, <1>25, <1>26, <1>27, <1>28, Stays

-----------------------------------------------------------------------------
\* malloc() or calloc() with the result r, and the bytes m in the new region.
LEMMA ServedKeeps ==
    ASSUME IndInv, NEW size \in Nat, NEW r, Served(r, size), r.ptr # NULL => size # 0,
           NEW m,
           \/ r.ptr = NULL /\ Settle(r, held, mem)
           \/ r.ptr # NULL /\ m \in [Addr -> Value] /\ Settle(r, With(held, r.ptr, size), m)
    PROVE  IndInv'
<1>1. /\ Laid(blocks, foreign, brk) /\ Merged(blocks) /\ mem \in [Addr -> Value]
      /\ Owned(Used(blocks), held)
    BY DEF IndInv, Standing
<1>2. brk <= r.brk
    BY DEF Served
<1>3. CASE r.ptr = NULL
    <2>1. r.blocks = blocks /\ Laid(blocks, foreign, r.brk)
        BY <1>3 DEF Served
    <2>2. PICK regions, u : regions = held /\ u = mem
        OBVIOUS
    <2>3. Settle(r, regions, u)
        BY <1>3, <2>2
    <2>4. /\ Laid(r.blocks, foreign, r.brk) /\ Merged(r.blocks) /\ Owned(Used(r.blocks), regions)
          /\ u \in [Addr -> Value]
        BY <1>1, <2>1, <2>2
    <2> QED BY <1>2, <2>3, <2>4, Settled
<1>4. CASE r.ptr # NULL
    <2>1. Granted(r.blocks, foreign, r.brk, Used(blocks), r.ptr, size)
        BY <1>4 DEF Served
    <2>2. size \in Nat \ {0}
        BY <1>4
    <2>3. Owned(Used(r.blocks), With(held, r.ptr, size))
        BY <1>1, <2>1, <2>2, OwnedGranted
    <2>4. PICK regions : regions = With(held, r.ptr, size)
        OBVIOUS
    <2>5. m \in [Addr -> Value] /\ Settle(r, regions, m)
        BY <1>4, <2>4
    <2>6. /\ Laid(r.blocks, foreign, r.brk) /\ Merged(r.blocks)
        BY <2>1 DEF Granted
    <2>7. Owned(Used(r.blocks), regions)
        BY <2>3, <2>4
    <2> QED BY <1>2, <2>5, <2>6, <2>7, Settled
<1> QED BY <1>3, <1>4

\* A pointer that is returned is an address.
LEMMA ServedSomewhere ==
    ASSUME NEW size \in Nat, NEW r, Served(r, size), r.ptr # NULL
    PROVE  r.ptr \in Nat
<1>1. PICK b \in Block : Payload(b) = r.ptr
    BY DEF Served, Granted
<1> QED BY <1>1, BlockNumbers

LEMMA MallocKeeps ==
    ASSUME Modest, IndInv, NEW size \in Sizes, malloc(size)
    PROVE  IndInv'
<1>1. size \in Nat /\ Fits(size) /\ Standing /\ mem \in [Addr -> Value]
    BY Asked DEF IndInv
<1>2. PICK r : r = Allocate(size)
    OBVIOUS
<1>3. Served(r, size) /\ (r.ptr # NULL => size # 0)
    BY <1>1, <1>2, AllocateServes
<1>4. PICK m : m = Filled(mem, r.ptr, 0, size)
    OBVIOUS
<1>5. IF r.ptr = NULL THEN Settle(r, held, mem) ELSE Settle(r, With(held, r.ptr, size), m)
    BY <1>2, <1>4 DEF malloc
<1>6. r.ptr # NULL => m \in [Addr -> Value]
    <2>1. SUFFICES ASSUME r.ptr # NULL PROVE m \in [Addr -> Value]
        OBVIOUS
    <2>2. r.ptr \in Nat /\ 0 \in Nat
        BY <1>1, <1>3, <2>1, ServedSomewhere
    <2> QED BY <1>1, <1>4, <2>2, FilledValues
<1>7. \/ r.ptr = NULL /\ Settle(r, held, mem)
      \/ r.ptr # NULL /\ m \in [Addr -> Value] /\ Settle(r, With(held, r.ptr, size), m)
    BY <1>5, <1>6, Zenon
<1> QED BY <1>1, <1>3, <1>7, ServedKeeps

\* calloc() asks for a product that fits.
LEMMA CallocFits ==
    ASSUME Modest, NEW size \in Sizes, NEW nmemb \in Counts, calloc(nmemb, size)
    PROVE  \E total \in Nat : /\ total = (nmemb * size) % Word /\ total = nmemb * size
                              /\ Fits(total)
<1>1. size \in Nat
    BY Asked
<1>2. nmemb \in Nat
    BY RequestAssumption, Sizing
<1>3. nmemb * size \in Nat /\ nmemb * size < Word
    <2>1. ~(size # 0 /\ nmemb > (Word - 1) \div size)
        BY DEF calloc
    <2>2. CASE size = 0
        BY <1>2, <2>2, Sizing
    <2>3. CASE size # 0
        <3>1. Word - 1 \in Nat /\ Word \in Nat
            BY Sizing
        <3>2. PICK k \in Nat : k = (Word - 1) \div size /\ size * k <= Word - 1
            <4>1. PICK w \in Nat : w = Word - 1
                BY <3>1
            <4>2. /\ w = size * (w \div size) + (w % size)
                  /\ w % size \in 0 .. size - 1 /\ w \div size \in Nat
                BY <1>1, <2>3, DivMod
            <4>3. PICK k \in Nat, d \in Nat : k = w \div size /\ d = w % size
                BY <1>1, <2>3, <4>2
            <4>4. size * k \in Nat /\ w = size * k + d
                BY <1>1, <4>2, <4>3
            <4>5. size * k <= w
                BY ONLY <4>4, d \in Nat
            <4> QED BY <4>1, <4>3, <4>5
        <3>3. nmemb <= k
            BY <1>2, <2>1, <2>3, <3>2
        <3>4. nmemb * size <= size * k
            BY ONLY <1>1, <1>2, <3>3, k \in Nat
        <3>5. nmemb * size \in Nat /\ size * k \in Nat
            BY ONLY <1>1, <1>2, k \in Nat
        <3> QED BY <3>1, <3>2, <3>4, <3>5
    <2> QED BY <2>2, <2>3
<1>4. (nmemb * size) % Word = nmemb * size
    BY <1>3, NoWrap
<1>5. Fits(nmemb * size)
    BY <1>3 DEF Modest
<1> QED BY <1>3, <1>4, <1>5

LEMMA CallocKeeps ==
    ASSUME Modest, IndInv, NEW size \in Sizes, NEW nmemb \in Counts, calloc(nmemb, size)
    PROVE  IndInv'
<1>1. Standing /\ mem \in [Addr -> Value]
    BY DEF IndInv
<1>2. PICK total \in Nat : /\ total = (nmemb * size) % Word /\ total = nmemb * size
                           /\ Fits(total)
    BY CallocFits
<1>3. PICK r : r = Allocate(total)
    OBVIOUS
<1>4. Served(r, total) /\ (r.ptr # NULL => total # 0)
    BY <1>1, <1>2, <1>3, AllocateServes
<1>5. PICK m : m = [a \in Addr |-> IF a \in r.ptr .. r.ptr + total - 1 THEN 0 ELSE mem[a]]
    OBVIOUS
<1>6. IF r.ptr = NULL THEN Settle(r, held, mem) ELSE Settle(r, With(held, r.ptr, total), m)
    BY <1>2, <1>3, <1>5 DEF calloc
<1>7. m \in [Addr -> Value]
    <2>1. 0 \in Value
        BY DEF Value
    <2> QED BY <1>1, <1>5, <2>1
<1>8. \/ r.ptr = NULL /\ Settle(r, held, mem)
      \/ r.ptr # NULL /\ m \in [Addr -> Value] /\ Settle(r, With(held, r.ptr, total), m)
    BY <1>6, <1>7, Zenon
<1> QED BY <1>4, <1>8, ServedKeeps

\* The block that free() finds.
LEMMA FreedBlock ==
    ASSUME IndInv, NEW i \in DOMAIN blocks,
           NEW ptr \in Ends(Payload(blocks[i]), blocks[i].payload_capacity)
    PROVE  /\ findblock(blocks, ptr) = i /\ i \in 1 .. Len(blocks)
           /\ ptr \in Nat /\ Payload(blocks[i]) <= ptr /\ ptr < End(blocks[i])
<1>1. Laid(blocks, foreign, brk)
    BY DEF IndInv, Standing
<1>2. i \in 1 .. Len(blocks) /\ blocks[i] \in Block
    BY <1>1, LaidFacts
<1>3. /\ Payload(blocks[i]) \in Nat /\ blocks[i].payload_capacity \in Nat
      /\ MINIMUM_PAYLOAD_SIZE <= blocks[i].payload_capacity
      /\ End(blocks[i]) = Payload(blocks[i]) + blocks[i].payload_capacity
    BY <1>2, BlockNumbers DEF End
<1>4. PICK p \in Nat, c \in Nat : /\ p = Payload(blocks[i]) /\ c = blocks[i].payload_capacity
                                  /\ MINIMUM_PAYLOAD_SIZE <= c /\ End(blocks[i]) = p + c
    BY <1>3
<1>5. ptr = p \/ ptr = p + c - 1
    BY <1>4 DEF Ends
<1>6. ptr \in Nat /\ p <= ptr /\ ptr < p + c
    BY ONLY <1>5, <1>4, Sizing, p \in Nat, c \in Nat
<1>7. Payload(blocks[i]) <= ptr /\ ptr < End(blocks[i])
    BY <1>4, <1>6
<1>8. findblock(blocks, ptr) = i
    BY <1>1, <1>2, <1>6, <1>7, FindBlock
<1> QED BY <1>2, <1>6, <1>7, <1>8

LEMMA FreeKeeps ==
    ASSUME IndInv, NEW i \in DOMAIN blocks,
           NEW ptr \in Ends(Payload(blocks[i]), blocks[i].payload_capacity), free(ptr)
    PROVE  IndInv'
<1>1. /\ Laid(blocks, foreign, brk) /\ mem \in [Addr -> Value]
      /\ Owned(Used(blocks), held)
    BY DEF IndInv, Standing
<1>2. blocks \in Seq(Block) /\ brk \in Nat
    BY <1>1, LaidFacts
<1>3. /\ findblock(blocks, ptr) = i /\ i \in 1 .. Len(blocks)
      /\ ptr \in Nat /\ Payload(blocks[i]) <= ptr /\ ptr < End(blocks[i])
    BY FreedBlock
<1>4. ~blocks[i].is_free
    BY <1>3 DEF free
<1>5. PICK b \in Used(blocks) : b = blocks[i]
    BY <1>2, <1>3, <1>4, UsedMembers
<1>6. PICK s : s = Release(blocks, ptr)
    OBVIOUS
<1>7. /\ Laid(s, foreign, brk) /\ Merged(s)
      /\ \A x : x \in Used(s) <=> x \in Used(blocks) /\ x # b
    BY <1>1, <1>3, <1>5, <1>6, ReleaseLaid
<1>8. PICK regions : regions = Without(held, Payload(b))
    OBVIOUS
<1>9. Owned(Used(s), regions)
    BY <1>1, <1>5, <1>7, <1>8, OwnedReleased
<1>10. PICK r, m : r = Result(s, brk, NULL) /\ m = mem
    OBVIOUS
<1>11. r.blocks = s /\ r.brk = brk
    BY <1>10 DEF Result
<1>12. Settle(r, regions, m)
    BY <1>3, <1>5, <1>6, <1>8, <1>10 DEF free
<1>13. /\ Laid(r.blocks, foreign, r.brk) /\ Merged(r.blocks) /\ brk <= r.brk
       /\ Owned(Used(r.blocks), regions) /\ m \in [Addr -> Value]
    BY <1>1, <1>2, <1>7, <1>9, <1>10, <1>11
<1> QED BY <1>12, <1>13, Settled

\* What Allocate returns is a result.
LEMMA AllocateResult ==
    ASSUME NEW size
    PROVE  \E l, b, q : Allocate(size) = Result(l, b, q)
<1>1. \A l, b, i, n : \E k, c, q : Take(l, b, i, n) = Result(k, c, q)
    BY DEF Take
<1>2. \A l, n : \E k, c, q : Grow(l, n) = Result(k, c, q)
    BY <1>1 DEF Grow
<1> QED BY <1>1, <1>2 DEF Allocate

LEMMA MoveKeeps ==
    ASSUME Modest, IndInv, NEW p \in DOMAIN held, NEW ptr \in Ends(p, held[p]),
           NEW size \in Sizes, size # 0, realloc_move(ptr, size)
    PROVE  IndInv'
<1>1. size \in Nat \ {0} /\ Fits(size) /\ Standing
    BY Asked DEF IndInv
<1>2. /\ Laid(blocks, foreign, brk) /\ mem \in [Addr -> Value] /\ Owned(Used(blocks), held)
    BY DEF IndInv, Standing
<1>3. PICK i \in 1 .. Len(blocks) : /\ findblock(blocks, ptr) = i /\ ~blocks[i].is_free
                                    /\ blocks[i] \in Block /\ Payload(blocks[i]) = p
                                    /\ ptr \in Nat /\ p <= ptr /\ ptr < End(blocks[i])
    BY Owner
<1>4. PICK r : r = Allocate(size)
    OBVIOUS
<1>5. Served(r, size)
    BY <1>1, <1>4, AllocateServes
<1>6. PICK cap \in Nat : cap = blocks[i].payload_capacity /\ End(blocks[i]) = p + cap
    BY <1>3, BlockNumbers DEF End
<1>7. PICK copied : copied = [a \in Addr |-> IF a \in r.ptr .. r.ptr + cap - 1
                                             THEN mem[p + (a - r.ptr)] ELSE mem[a]]
    OBVIOUS
<1>8. PICK m : m = Filled(copied, r.ptr, held[p], size)
    OBVIOUS
<1>9. PICK s : s = [r EXCEPT !.blocks = Release(@, ptr)]
    OBVIOUS
<1>10. IF r.ptr = NULL THEN Settle(r, held, mem)
       ELSE Settle(s, With(Without(held, p), r.ptr, size), m)
    BY <1>3, <1>4, <1>6, <1>7, <1>8, <1>9 DEF realloc_move, MoveWith
<1>11. CASE r.ptr = NULL
    BY <1>1, <1>5, <1>10, <1>11, ServedKeeps
<1>12. CASE r.ptr # NULL
    <2>1. /\ Granted(r.blocks, foreign, r.brk, Used(blocks), r.ptr, size) /\ brk <= r.brk
        BY <1>5, <1>12 DEF Served
    <2>2. /\ Laid(r.blocks, foreign, r.brk)
          /\ \A x \in Used(blocks) : x \in Used(r.blocks)
        BY <2>1 DEF Granted
    <2>3. /\ Owned(Used(r.blocks), With(held, r.ptr, size))
          /\ r.ptr \notin DOMAIN held
        BY <1>1, <1>2, <2>1, OwnedGranted
    <2>4. blocks \in Seq(Block)
        BY <1>2, LaidFacts
    <2>5. PICK b \in Used(r.blocks) : b = blocks[i]
        BY <1>3, <2>2, <2>4, UsedMembers
    <2>6. PICK t : t = Release(r.blocks, ptr)
        OBVIOUS
    <2>7. /\ Laid(t, foreign, r.brk) /\ Merged(t)
          /\ \A x : x \in Used(t) <=> x \in Used(r.blocks) /\ x # b
        BY <1>3, <2>2, <2>5, <2>6, ReleaseLaid
    <2>8. s.blocks = t /\ s.brk = r.brk
        <3>1. PICK l, e, q : r = Result(l, e, q)
            BY <1>4, AllocateResult
        <3> QED BY <1>9, <2>6, <3>1 DEF Result
    <2>9. PICK regions : regions = With(Without(held, p), r.ptr, size)
        OBVIOUS
    <2>10. regions = Without(With(held, r.ptr, size), p)
        <3>1. r.ptr # p
            BY <2>3
        <3>2. PICK g, q : g = held /\ q = r.ptr
            OBVIOUS
        <3>3. q # p
            BY <3>1, <3>2
        <3>4. With(Without(g, p), q, size) = Without(With(g, q, size), p)
            BY <3>3, WithOther, Zenon
        <3> QED BY <2>9, <3>2, <3>4
    <2>11. PICK w : w = With(held, r.ptr, size)
        OBVIOUS
    <2>12. Owned(Used(r.blocks), w) /\ Payload(b) = p /\ regions = Without(w, p)
        BY <1>3, <2>3, <2>5, <2>10, <2>11
    <2>13. Owned(Used(t), regions)
        BY <2>2, <2>7, <2>12, OwnedReleased
    <2>14. m \in [Addr -> Value]
        <3>1. r.ptr \in Nat
            BY <1>1, <1>5, <1>12, ServedSomewhere
        <3>2. held[p] \in Nat
            <4>1. blocks[i] \in Used(blocks)
                BY <1>3, <2>4, UsedMembers
            <4>2. held[Payload(blocks[i])] \in 1 .. blocks[i].payload_capacity
                BY <1>2, <4>1 DEF Owned
            <4> QED BY <1>3, <1>6, <4>2
        <3>3. ASSUME NEW a \in Addr, a \in r.ptr .. r.ptr + cap - 1
              PROVE  p + (a - r.ptr) \in Addr
            <4>1. PICK q \in Nat : q = r.ptr
                BY <3>1
            <4>2. p \in Nat /\ Base <= p
                <5>1. /\ Payload(blocks[i]) \in Nat /\ Base <= blocks[i].addr
                      /\ blocks[i].addr < Payload(blocks[i]) /\ blocks[i].addr \in Nat
                    BY <1>3, BlockNumbers
                <5>2. PICK d \in Nat : Base <= d /\ d < p
                    BY <1>3, <5>1
                <5> QED BY <1>3, <5>1, <5>2, Sizing
            <4>3. p + cap <= Limit
                <5>1. End(blocks[i]) <= brk
                    BY <1>2, Ordered
                <5>2. brk <= Limit /\ brk \in Nat
                    BY <1>2, LaidFacts
                <5>3. p + cap <= brk /\ p + cap \in Nat /\ Limit \in Nat
                    BY <1>6, <4>2, <5>1, Sizing
                <5> QED BY ONLY <5>2, <5>3
            <4>4. q <= a /\ a <= q + cap - 1 /\ a \in Nat
                <5>1. a \in Base .. Limit - 1
                    BY DEF Addr
                <5>2. a \in q .. q + cap - 1
                    BY <3>3, <4>1
                <5> QED BY <5>1, <5>2, Sizing
            <4>5. p + (a - q) \in Base .. Limit - 1
                BY <4>2, <4>3, <4>4, Sizing
            <4> QED BY <4>1, <4>5 DEF Addr
        <3>4. copied \in [Addr -> Value]
            BY <1>2, <1>7, <3>3
        <3>5. PICK h \in Nat : h = held[p]
            BY <3>2
        <3> QED BY <1>1, <1>8, <3>1, <3>4, <3>5, FilledValues
    <2>15. Settle(s, regions, m)
        BY <1>10, <1>12, <2>9
    <2>16. /\ Laid(s.blocks, foreign, s.brk) /\ Merged(s.blocks) /\ brk <= s.brk
           /\ Owned(Used(s.blocks), regions)
        BY <2>1, <2>7, <2>8, <2>13
    <2> QED BY <2>14, <2>15, <2>16, Settled
<1> QED BY <1>11, <1>12

\* An empty heap, whoever has the memory below the break.
LEMMA EmptyHeap ==
    ASSUME NEW F \in SUBSET Nat, NEW end \in Nat, Base <= end, end <= Limit
    PROVE  /\ Laid(<<>>, F, end) /\ Merged(<<>>)
           /\ Used(<<>>) = {}
<1>1. <<>> \in Seq(Block) /\ Len(<<>>) = 0
    OBVIOUS
<1>2. Laid(<<>>, F, end)
    <2>1. \A i \in 1 .. Len(<<>>) : InPlace(<<>>, F, end, i)
        BY <1>1
    <2> QED BY <1>1, <2>1, FactsLaid
<1>3. Merged(<<>>)
    BY <1>1 DEF Merged
<1>4. Used(<<>>) = {}
    <2>1. DOMAIN <<>> = {}
        OBVIOUS
    <2> QED BY <2>1 DEF Used
<1> QED BY <1>2, <1>3, <1>4

LEMMA InitKeeps ==
    ASSUME Init
    PROVE  IndInv
<1>1. /\ blocks = <<>> /\ brk = Base /\ held = <<>> /\ foreign = {}
      /\ mem = [a \in Addr |-> UNKNOWN]
    BY DEF Init
<1>2. {} \in SUBSET Nat /\ Base \in Nat /\ Base <= Base /\ Base <= Limit
    BY Sizing
<1>3. /\ Laid(<<>>, {}, Base) /\ Merged(<<>>) /\ Used(<<>>) = {}
    BY <1>2, EmptyHeap
<1>4. Standing
    BY <1>1, <1>3 DEF Standing
<1>5. Owned(Used(blocks), held)
    <2>1. DOMAIN held = {}
        BY <1>1
    <2> QED BY <1>1, <1>3, <2>1 DEF Owned
<1>6. mem \in [Addr -> Value] /\ foreign \subseteq Addr
    BY <1>1 DEF Value
<1> QED BY <1>4, <1>5, <1>6 DEF IndInv

LEMMA ForeignKeeps ==
    ASSUME Modest, IndInv, foreign_sbrk
    PROVE  IndInv'
<1>1. /\ blocks = <<>> /\ brk < Limit /\ brk' = brk + 1 /\ foreign' = foreign \cup {brk}
      /\ blocks' = blocks /\ mem' = mem /\ held' = held
    BY DEF Modest, foreign_sbrk
<1>2. /\ Laid(blocks, foreign, brk) /\ \A a \in foreign : a < brk
      /\ Owned(Used(blocks), held) /\ mem \in [Addr -> Value] /\ foreign \subseteq Addr
    BY DEF IndInv, Standing
<1>3. /\ brk \in Nat /\ Base <= brk /\ foreign \subseteq Nat
    BY <1>2, LaidFacts
<1>4. PICK F, e : F = foreign \cup {brk} /\ e = brk + 1
    OBVIOUS
<1>5. F \in SUBSET Nat /\ e \in Nat /\ Base <= e /\ e <= Limit
    BY <1>1, <1>3, <1>4, Sizing
<1>6. Laid(<<>>, F, e) /\ Merged(<<>>)
    BY <1>5, EmptyHeap
<1>7. \A a \in F : a < e
    BY <1>2, <1>3, <1>4
<1>8. Standing'
    BY <1>1, <1>4, <1>6, <1>7 DEF Standing
<1>9. foreign' \subseteq Addr
    BY <1>1, <1>2, <1>3, Sizing DEF Addr
<1>10. Owned(Used(blocks'), held')
    BY <1>1, <1>2
<1> QED BY <1>1, <1>2, <1>8, <1>9, <1>10 DEF IndInv

LEMMA StepKeeps ==
    ASSUME Modest, IndInv, [Next]_vars
    PROVE  IndInv'
<1>1. ASSUME NEW size \in Sizes, malloc(size) PROVE IndInv'
    BY <1>1, MallocKeeps
<1>2. ASSUME NEW size \in Sizes, NEW nmemb \in Counts, calloc(nmemb, size) PROVE IndInv'
    BY <1>2, CallocKeeps
<1>3. ASSUME NEW size \in Sizes, size # 0, NEW p \in DOMAIN held,
             NEW ptr \in Ends(p, held[p]), realloc(ptr, size)
      PROVE  IndInv'
    <2>1. CASE realloc_shrink(ptr, size)
        BY <1>3, <2>1, ShrinkKeeps
    <2>2. CASE realloc_last(ptr, size)
        BY <1>3, <2>2, LastKeeps
    <2>3. CASE realloc_expand(ptr, size)
        BY <1>3, <2>3, ExpandKeeps
    <2>4. CASE realloc_move(ptr, size)
        BY <1>3, <2>4, MoveKeeps
    <2> QED BY <1>3, <2>1, <2>2, <2>3, <2>4 DEF realloc
<1>4. ASSUME NEW i \in DOMAIN blocks,
             NEW ptr \in Ends(Payload(blocks[i]), blocks[i].payload_capacity), free(ptr)
      PROVE  IndInv'
    BY <1>4, FreeKeeps
<1>5. ASSUME foreign_sbrk PROVE IndInv'
    BY <1>5, ForeignKeeps
<1>6. ASSUME UNCHANGED vars PROVE IndInv'
    <2>1. /\ blocks' = blocks /\ brk' = brk /\ mem' = mem /\ held' = held /\ foreign' = foreign
        BY <1>6 DEF vars
    <2> QED BY <2>1 DEF IndInv, Standing
<1> QED BY <1>1, <1>2, <1>3, <1>4, <1>5, <1>6, Zenon DEF Next

-----------------------------------------------------------------------------
\* IndInv is an invariant: as long as no request wraps around and the break is
\* the allocator's own, every call leaves a list that covers the heap, with the
\* blocks in use and the regions of clients one to one.
THEOREM Invariance == Modest => (Spec => []IndInv)
<1>1. ASSUME Modest PROVE Spec => []IndInv
    <2>1. Init => IndInv
        BY InitKeeps
    <2>2. IndInv /\ [Next]_vars => IndInv'
        BY <1>1, StepKeeps
    <2> QED BY <2>1, <2>2, PTL DEF Spec
<1> QED BY <1>1

\* The variables keep their types: no block of less than the minimum or beyond
\* the break, and no client with an empty region.
THEOREM TypeCorrect == Modest => (Spec => []TypeOK)
<1>1. IndInv => TypeOK
    BY Consequences
<1> QED BY <1>1, Invariance, PTL

\* The blocks of malloc.c's list cover the heap without a gap or an overlap after
\* every split, merge and expansion, and every payload is aligned.
THEOREM HeapStaysTiled == Modest => (Spec => []HeapTiled)
<1>1. IndInv => HeapTiled
    BY Consequences
<1> QED BY <1>1, Invariance, PTL

\* malloc, free, calloc and realloc leave no two free blocks side by side, which
\* realloc() relies on when it looks at one neighbour only.
THEOREM FreeBlocksMerged == Modest => (Spec => []NoFreeNeighbours)
<1>1. IndInv => NoFreeNeighbours
    BY Consequences
<1> QED BY <1>1, Invariance, PTL

\* Blocks in use and regions of clients are one to one: no call leaks a block,
\* gives one to two clients or frees one under its client.
THEOREM NothingLeaks == Modest => (Spec => []NoLeak)
<1>1. IndInv => NoLeak
    BY Consequences
<1> QED BY <1>1, Invariance, PTL

\* Every region has as many bytes as were asked for, through splits, merges and
\* every way realloc() goes.
THEOREM RoomEnough == Modest => (Spec => []EnoughRoom)
<1>1. IndInv => EnoughRoom
    BY Consequences
<1> QED BY <1>1, Invariance, PTL

\* No block holds a byte that others got from sbrk(): the coalescing of free()
\* is safe as long as nobody else moves the break once there are blocks.
THEOREM OwnMemoryOnly == Modest => (Spec => []OnlyOwnMemory)
<1>1. ASSUME IndInv PROVE OnlyOwnMemory
    <2>1. Laid(blocks, foreign, brk)
        BY <1>1 DEF IndInv, Standing
    <2>2. ASSUME NEW i \in DOMAIN blocks, NEW a \in foreign
          PROVE  ~(blocks[i].addr <= a /\ a < End(blocks[i]))
        <3>1. i \in 1 .. Len(blocks) /\ a \in Nat /\ blocks[i] \in Block /\ a < blocks[i].addr
            BY <2>1, LaidFacts
        <3>2. blocks[i].addr \in Nat
            BY <3>1, BlockNumbers
        <3> QED BY <3>1, <3>2
    <2> QED BY <2>2 DEF OnlyOwnMemory
<1> QED BY <1>1, Invariance, PTL
=============================================================================
