-------------------------- MODULE HeapArenaProofs --------------------------
(***************************************************************************)
(* The proof that Heap implements Arena, from the invariant of HeapProofs  *)
(* and under the same conditions.                                          *)
(***************************************************************************)
EXTENDS HeapProofs

\* The regions of clients share no byte with each other, with a header or with
\* memory of others.
LEMMA RegionApart ==
    ASSUME NEW list, NEW F, NEW end, Laid(list, F, end),
           NEW regions, Owned(Used(list), regions), NEW p \in DOMAIN regions
    PROVE  /\ p \in Nat /\ p % ALIGN = 0 /\ regions[p] \in Nat \ {0}
           /\ \A a \in Region(p, regions) :
                  /\ a \in Addr /\ a \notin F /\ a \notin Headers(list)
                  /\ \A q \in DOMAIN regions : a \in Region(q, regions) => q = p
<1>1. /\ DOMAIN regions = {Payload(b) : b \in Used(list)}
      /\ \A b \in Used(list) : regions[Payload(b)] \in 1 .. b.payload_capacity
    BY DEF Owned
<1>2. ASSUME NEW q \in DOMAIN regions
      PROVE  \E b \in Used(list) :
                 /\ q = Payload(b) /\ b \in Block /\ q \in Nat /\ End(b) \in Nat /\ b.addr \in Nat
                 /\ regions[q] \in Nat \ {0} /\ q + regions[q] <= End(b)
                 /\ End(b) <= end /\ b.addr < q /\ Base <= b.addr
                 /\ q % ALIGN = 0 /\ \A a \in F : a < b.addr
    <2>1. PICK b \in Used(list) : q = Payload(b)
        BY <1>1
    <2>2. /\ b \in Block /\ End(b) <= end /\ Payload(b) % ALIGN = 0 /\ \A a \in F : a < b.addr
        BY UsedWithin
    <2>3. /\ b.addr \in Nat /\ Base <= b.addr /\ b.payload_capacity \in Nat
          /\ Payload(b) \in Nat /\ End(b) \in Nat /\ b.addr < Payload(b)
          /\ End(b) = Payload(b) + b.payload_capacity
        BY <2>2, BlockNumbers DEF End
    <2>4. PICK c \in Nat : c = b.payload_capacity
        BY <2>3
    <2>5. regions[q] \in 1 .. c
        BY <1>1, <2>1, <2>4
    <2>6. regions[q] \in Nat \ {0} /\ q + regions[q] <= End(b)
        BY <2>1, <2>3, <2>4, <2>5
    <2> QED BY <2>1, <2>2, <2>3, <2>6
<1>3. PICK b \in Used(list) :
          /\ p = Payload(b) /\ b \in Block /\ p \in Nat /\ End(b) \in Nat /\ b.addr \in Nat
          /\ regions[p] \in Nat \ {0} /\ p + regions[p] <= End(b)
          /\ End(b) <= end /\ b.addr < p /\ Base <= b.addr
          /\ p % ALIGN = 0 /\ \A a \in F : a < b.addr
    BY <1>2
<1>4. end \in Nat /\ end <= Limit /\ F \subseteq Nat /\ list \in Seq(Block) /\ Len(list) \in Nat
      /\ DOMAIN list = 1 .. Len(list) /\ \A i \in 1 .. Len(list) : list[i] \in Block
    BY LaidFacts
<1>5. ASSUME NEW a \in Region(p, regions)
      PROVE  /\ a \in Addr /\ a \notin F /\ a \notin Headers(list)
             /\ \A q \in DOMAIN regions : a \in Region(q, regions) => q = p
    <2>1. PICK n \in Nat : n = regions[p]
        BY <1>3
    <2>2. a \in p .. p + n - 1
        BY <1>5, <2>1 DEF Region
    <2>3. a \in Nat /\ p <= a /\ a < End(b) /\ b.addr <= a /\ Base <= a /\ a < end
        <3>1. p + n <= End(b) /\ End(b) <= end /\ b.addr < p /\ Base <= b.addr
            BY <1>3, <2>1
        <3> QED BY ONLY <1>3, <1>4, <2>2, <3>1, Sizing, n \in Nat
    <2>4. a \in Addr
        BY <1>4, <2>3, Sizing DEF Addr
    <2>5. a \notin F
        BY <1>3, <1>4, <2>3
    <2>6. a \notin Headers(list)
        <3>1. SUFFICES ASSUME NEW i \in 1 .. Len(list), a \in list[i].addr .. Payload(list[i]) - 1
                       PROVE  FALSE
            BY <1>4 DEF Headers
        <3>2. PICK j \in 1 .. Len(list) : list[j] = b
            BY <1>4, UsedMembers
        <3>3. /\ list[i].addr \in Nat /\ Payload(list[i]) \in Nat /\ End(list[i]) \in Nat
              /\ Payload(list[i]) < End(list[i])
            BY <1>4, BlockNumbers
        <3>4. list[i].addr <= a /\ a < Payload(list[i]) /\ a < End(list[i])
            BY <2>3, <3>1, <3>3
        <3>5. i = j
            BY <2>3, <3>2, <3>4, Separate
        <3> QED BY <1>3, <2>3, <3>2, <3>3, <3>4, <3>5
    <2>7. ASSUME NEW q \in DOMAIN regions, a \in Region(q, regions) PROVE q = p
        <3>1. PICK c \in Used(list) :
                  /\ q = Payload(c) /\ c \in Block /\ q \in Nat /\ End(c) \in Nat /\ c.addr \in Nat
                  /\ regions[q] \in Nat \ {0} /\ q + regions[q] <= End(c) /\ c.addr < q
            BY <1>2
        <3>2. PICK k \in Nat : k = regions[q]
            BY <3>1
        <3>3. a \in q .. q + k - 1
            BY <2>7, <3>2 DEF Region
        <3>4. c.addr <= a /\ a < End(c)
            <4>1. q + k <= End(c) /\ c.addr < q
                BY <3>1, <3>2
            <4> QED BY ONLY <3>1, <3>3, <4>1, k \in Nat
        <3>5. b = c
            BY <2>3, <3>4, UsedApart
        <3> QED BY <1>3, <3>1, <3>5
    <2> QED BY <2>4, <2>5, <2>6, <2>7
<1> QED BY <1>3, <1>5

\* What clients read after a call: the bytes that the call leaves in memory, for
\* no header lies in a region.
LEMMA AfterSettle ==
    ASSUME IndInv', NEW r, NEW regions, NEW m, Settle(r, regions, m)
    PROVE  /\ held' = regions /\ foreign' = foreign /\ DOMAIN Regions' = DOMAIN regions
           /\ \A p \in DOMAIN regions :
                  /\ p \in Nat /\ regions[p] \in Nat \ {0}
                  /\ Regions'[p] = [i \in 1 .. regions[p] |-> m[p + i - 1]]
<1>1. /\ held' = regions /\ foreign' = foreign /\ blocks' = r.blocks
      /\ mem' = [a \in Addr |->
                    IF a \in Headers(r.blocks) THEN HEADER
                    ELSE IF \E p \in DOMAIN regions : a \in Region(p, regions) THEN m[a]
                    ELSE UNKNOWN]
    BY DEF Settle
<1>2. Regions' = [p \in DOMAIN regions |-> [i \in 1 .. regions[p] |-> mem'[p + i - 1]]]
    BY <1>1 DEF Regions, Bytes
<1>3. Laid(blocks', foreign', brk') /\ Owned(Used(blocks'), held')
    BY DEF IndInv, Standing
<1>4. PICK list, F, e : list = r.blocks /\ F = foreign' /\ e = brk'
    OBVIOUS
<1>5. Laid(list, F, e) /\ Owned(Used(list), regions)
    BY <1>1, <1>3, <1>4
<1>6. ASSUME NEW p \in DOMAIN regions
      PROVE  /\ p \in Nat /\ regions[p] \in Nat \ {0}
             /\ Regions'[p] = [i \in 1 .. regions[p] |-> m[p + i - 1]]
    <2>1. /\ p \in Nat /\ regions[p] \in Nat \ {0}
          /\ \A a \in Region(p, regions) : a \in Addr /\ a \notin Headers(list)
        BY <1>5, RegionApart
    <2>2. ASSUME NEW i \in 1 .. regions[p] PROVE mem'[p + i - 1] = m[p + i - 1]
        <3>1. PICK a : a = p + i - 1
            OBVIOUS
        <3>2. a \in Region(p, regions)
            BY <2>1, <3>1 DEF Region
        <3>3. a \in Addr /\ a \notin Headers(r.blocks)
            BY <1>4, <2>1, <3>2
        <3>4. mem'[a] = m[a]
            BY <1>1, <3>2, <3>3
        <3> QED BY <3>1, <3>4
    <2>3. Regions'[p] = [i \in 1 .. regions[p] |-> mem'[p + i - 1]]
        BY <1>2
    <2> QED BY <2>1, <2>2, <2>3
<1>7. DOMAIN Regions' = DOMAIN regions
    BY <1>2
<1> QED BY <1>1, <1>6, <1>7

\* What clients read before it.
LEMMA Before ==
    ASSUME IndInv
    PROVE  /\ DOMAIN Regions = DOMAIN held
           /\ \A p \in DOMAIN held :
                  /\ p \in Nat /\ held[p] \in Nat \ {0}
                  /\ Regions[p] = [i \in 1 .. held[p] |-> mem[p + i - 1]]
<1>1. Laid(blocks, foreign, brk) /\ Owned(Used(blocks), held)
    BY DEF IndInv, Standing
<1>2. \A p \in DOMAIN held : p \in Nat /\ held[p] \in Nat \ {0}
    BY <1>1, RegionApart
<1> QED BY <1>2 DEF Regions, Bytes

\* Regions are aligned and share no byte with anything, as Arena says it.
LEMMA AllApart ==
    ASSUME NEW list, NEW F, NEW end, Laid(list, F, end),
           NEW regions, Owned(Used(list), regions), foreign = F,
           NEW rs, DOMAIN rs = DOMAIN regions,
           \A p \in DOMAIN regions : Len(rs[p]) = regions[p],
           NEW p \in DOMAIN regions
    PROVE  Shown!Apart(rs, p)
<1>1. ASSUME NEW q \in DOMAIN regions PROVE Shown!Extent(rs, q) = Region(q, regions)
    BY DEF Shown!Extent, Region
<1>2. /\ p % ALIGN = 0
      /\ \A a \in Region(p, regions) :
             /\ a \notin F
             /\ \A q \in DOMAIN regions : a \in Region(q, regions) => q = p
    BY RegionApart
<1>3. Shown!Extent(rs, p) \cap foreign = {}
    BY <1>1, <1>2
<1>4. \A q \in DOMAIN rs \ {p} : Shown!Extent(rs, q) \cap Shown!Extent(rs, p) = {}
    BY <1>1, <1>2
<1> QED BY <1>2, <1>3, <1>4 DEF Shown!Apart

\* After a call.
LEMMA ApartAfter ==
    ASSUME IndInv', NEW r, NEW regions, NEW m, Settle(r, regions, m), NEW p \in DOMAIN regions
    PROVE  Shown!Apart(Regions', p)
<1>1. /\ held' = regions /\ foreign' = foreign /\ DOMAIN Regions' = DOMAIN regions
      /\ \A q \in DOMAIN regions :
             /\ regions[q] \in Nat \ {0}
             /\ Regions'[q] = [i \in 1 .. regions[q] |-> m[q + i - 1]]
    BY AfterSettle
<1>2. Laid(blocks', foreign', brk') /\ Owned(Used(blocks'), held')
    BY DEF IndInv, Standing
<1>3. PICK list, F, e, rs : list = blocks' /\ F = foreign' /\ e = brk' /\ rs = Regions'
    OBVIOUS
<1>4. Laid(list, F, e) /\ Owned(Used(list), regions) /\ foreign = F
    BY <1>1, <1>2, <1>3
<1>5. ASSUME NEW q \in DOMAIN regions PROVE Len(rs[q]) = regions[q]
    <2>1. PICK n \in Nat : n = regions[q]
        BY <1>1
    <2>2. rs[q] = [i \in 1 .. n |-> m[q + i - 1]]
        BY <1>1, <1>3, <2>1
    <2>3. Len([i \in 1 .. n |-> m[q + i - 1]]) = n
        OBVIOUS
    <2> QED BY <2>1, <2>2, <2>3
<1>6. DOMAIN rs = DOMAIN regions
    BY <1>1, <1>3
<1>7. Shown!Apart(rs, p)
    BY <1>4, <1>5, <1>6, AllApart
<1> QED BY <1>3, <1>7

\* A call leaves alone what it does not write.
LEMMA Untouched ==
    ASSUME IndInv, IndInv', NEW r, NEW regions, NEW m, Settle(r, regions, m), NEW ps,
           DOMAIN held \ ps = DOMAIN regions \ ps,
           \A q \in DOMAIN held \ ps :
               /\ regions[q] = held[q]
               /\ \A a \in Region(q, regions) : m[a] = mem[a]
    PROVE  Shown!Others(ps)
<1>1. /\ DOMAIN Regions' = DOMAIN regions
      /\ \A p \in DOMAIN regions :
             /\ p \in Nat /\ regions[p] \in Nat \ {0}
             /\ Regions'[p] = [i \in 1 .. regions[p] |-> m[p + i - 1]]
    BY AfterSettle
<1>2. /\ DOMAIN Regions = DOMAIN held
      /\ \A p \in DOMAIN held : Regions[p] = [i \in 1 .. held[p] |-> mem[p + i - 1]]
    BY Before
<1>3. ASSUME NEW q \in DOMAIN held \ ps PROVE Regions'[q] = Regions[q]
    <2>1. /\ q \in DOMAIN regions /\ q \in DOMAIN held /\ regions[q] = held[q]
          /\ \A a \in Region(q, regions) : m[a] = mem[a]
        OBVIOUS
    <2>2. PICK n \in Nat : n = regions[q]
        BY <1>1, <2>1
    <2>3. ASSUME NEW i \in 1 .. n PROVE m[q + i - 1] = mem[q + i - 1]
        <3>1. q + i - 1 \in Region(q, regions)
            BY <1>1, <2>1, <2>2 DEF Region
        <3> QED BY <2>1, <3>1
    <2>4. /\ Regions'[q] = [i \in 1 .. n |-> m[q + i - 1]]
          /\ Regions[q] = [i \in 1 .. n |-> mem[q + i - 1]]
        BY <1>1, <1>2, <2>1, <2>2
    <2> QED BY <2>3, <2>4
<1> QED BY <1>1, <1>2, <1>3 DEF Shown!Others

\* Where the bytes of a region are.
LEMMA Elsewhere ==
    ASSUME IndInv', NEW r, NEW regions, NEW m, Settle(r, regions, m), NEW p \in DOMAIN regions
    PROVE  /\ \A a \in Region(p, regions) : a \in Addr
           /\ \A q \in DOMAIN regions : q # p =>
                  \A a \in Region(q, regions) : a \in Addr /\ a \notin Region(p, regions)
<1>1. held' = regions
    BY DEF Settle
<1>2. Laid(blocks', foreign', brk') /\ Owned(Used(blocks'), held')
    BY DEF IndInv, Standing
<1>3. PICK list, F, e : list = blocks' /\ F = foreign' /\ e = brk'
    OBVIOUS
<1>4. Laid(list, F, e) /\ Owned(Used(list), regions)
    BY <1>1, <1>2, <1>3
<1>5. \A q \in DOMAIN regions : \A a \in Region(q, regions) :
          a \in Addr /\ \A s \in DOMAIN regions : a \in Region(s, regions) => s = q
    BY <1>4, RegionApart
<1> QED BY <1>5

-----------------------------------------------------------------------------
\* A call that succeeds with a new region.
LEMMA Gives ==
    ASSUME IndInv, IndInv', NEW r, NEW regions, NEW m, Settle(r, regions, m),
           NEW p, p \notin DOMAIN held, NEW size \in Nat \ {0}, regions = With(held, p, size),
           \A a \in Addr : a \notin Region(p, regions) => m[a] = mem[a],
           \/ \A i \in 1 .. size : m[p + i - 1] = i
           \/ \A i \in 1 .. size : m[p + i - 1] = 0
    PROVE  Shown!Next
<1>1. /\ DOMAIN regions = DOMAIN held \cup {p} /\ regions[p] = size
      /\ \A q \in DOMAIN held : q # p => regions[q] = held[q]
    BY DEF With
<1>2. /\ foreign' = foreign /\ DOMAIN Regions' = DOMAIN regions
      /\ Regions'[p] = [i \in 1 .. size |-> m[p + i - 1]]
    BY <1>1, AfterSettle
<1>3. DOMAIN Regions = DOMAIN held
    BY Before
<1>4. Shown!Others({p})
    <2>1. \A q \in DOMAIN regions : q # p =>
              \A a \in Region(q, regions) : a \in Addr /\ a \notin Region(p, regions)
        BY <1>1, Elsewhere
    <2>2. ASSUME NEW q \in DOMAIN held \ {p}
          PROVE  /\ regions[q] = held[q]
                 /\ \A a \in Region(q, regions) : m[a] = mem[a]
        BY <1>1, <2>1
    <2>3. DOMAIN held \ {p} = DOMAIN regions \ {p}
        BY <1>1
    <2> QED BY <2>2, <2>3, Untouched
<1>5. Shown!Apart(Regions', p)
    BY <1>1, ApartAfter
<1>6. Len(Regions'[p]) = size
    <2>1. Len([i \in 1 .. size |-> m[p + i - 1]]) = size
        OBVIOUS
    <2> QED BY <1>2, <2>1
<1>7. Regions'[p] \in {[i \in 1 .. size |-> i], [i \in 1 .. size |-> 0]}
    <2>1. CASE \A i \in 1 .. size : m[p + i - 1] = i
        BY <1>2, <2>1
    <2>2. CASE \A i \in 1 .. size : m[p + i - 1] = 0
        BY <1>2, <2>2
    <2> QED BY <2>1, <2>2
<1>8. Shown!Give(p)
    BY <1>2, <1>3, <1>4, <1>5, <1>6, <1>7 DEF Shown!Give
<1>9. p \in DOMAIN Regions'
    BY <1>1, <1>2
<1> QED BY <1>8, <1>9 DEF Shown!Next

\* A call that fails.
LEMMA NothingSeen ==
    ASSUME IndInv, IndInv', NEW r, Settle(r, held, mem)
    PROVE  UNCHANGED <<Regions, foreign>>
<1>1. PICK regions, m : regions = held /\ m = mem
    OBVIOUS
<1>2. Settle(r, regions, m)
    BY <1>1
<1>3. held' = held /\ foreign' = foreign
    BY <1>1, <1>2, AfterSettle
<1>4. \A p \in DOMAIN held : Regions'[p] = [i \in 1 .. held[p] |-> mem[p + i - 1]]
    BY <1>1, <1>2, AfterSettle
<1>5. \A p \in DOMAIN held : Regions[p] = [i \in 1 .. held[p] |-> mem[p + i - 1]]
    BY Before
<1>6. Regions' = [p \in DOMAIN held |-> Regions'[p]] /\ Regions = [p \in DOMAIN held |-> Regions[p]]
    BY <1>3 DEF Regions
<1>7. Regions' = Regions
    BY <1>4, <1>5, <1>6
<1> QED BY <1>3, <1>7

\* The pointer that Allocate returns is to no region that a client has.
LEMMA ServedApart ==
    ASSUME IndInv, NEW size \in Nat \ {0}, NEW r, Served(r, size), r.ptr # NULL
    PROVE  r.ptr \notin DOMAIN held /\ r.ptr \in Nat
<1>1. Granted(r.blocks, foreign, r.brk, Used(blocks), r.ptr, size)
    BY DEF Served
<1>2. Owned(Used(blocks), held)
    BY DEF IndInv
<1>3. r.ptr \notin DOMAIN held
    BY <1>1, <1>2, OwnedGranted
<1>4. r.ptr \in Nat
    BY ServedSomewhere
<1> QED BY <1>3, <1>4

\* malloc() gives a region that its client fills.
LEMMA MallocGives ==
    ASSUME Modest, IndInv, NEW size \in Sizes, malloc(size)
    PROVE  Shown!Next \/ UNCHANGED <<Regions, foreign>>
<1>1. IndInv'
    BY MallocKeeps
<1>2. size \in Nat /\ Fits(size) /\ Standing
    BY Asked DEF IndInv
<1>3. PICK r : r = Allocate(size)
    OBVIOUS
<1>4. Served(r, size) /\ (r.ptr # NULL => size # 0)
    BY <1>2, <1>3, AllocateServes
<1>5. PICK m : m = Filled(mem, r.ptr, 0, size)
    OBVIOUS
<1>6. IF r.ptr = NULL THEN Settle(r, held, mem) ELSE Settle(r, With(held, r.ptr, size), m)
    BY <1>3, <1>5 DEF malloc
<1>7. CASE r.ptr = NULL
    BY <1>1, <1>6, <1>7, NothingSeen
<1>8. CASE r.ptr # NULL
    <2>1. size \in Nat \ {0}
        BY <1>2, <1>4, <1>8
    <2>2. r.ptr \notin DOMAIN held /\ r.ptr \in Nat
        BY <1>4, <1>8, <2>1, ServedApart
    <2>3. PICK p \in Nat : p = r.ptr
        BY <2>2
    <2>4. PICK regions : regions = With(held, p, size)
        OBVIOUS
    <2>5. Settle(r, regions, m)
        BY <1>6, <1>8, <2>3, <2>4
    <2>6. p \in DOMAIN regions /\ regions[p] = size
        BY <2>3, <2>4 DEF With
    <2>7. Region(p, regions) = p .. p + size - 1
        BY <2>6 DEF Region
    <2>8. m = [a \in Addr |-> IF a \in p .. p + size - 1 THEN a - p + 1 ELSE mem[a]]
        BY <1>5, <2>3, <2>4 DEF Filled
    <2>9. \A a \in Addr : a \notin Region(p, regions) => m[a] = mem[a]
        BY <2>7, <2>8
    <2>10. ASSUME NEW i \in 1 .. size PROVE m[p + i - 1] = i
        <3>1. PICK a : a = p + i - 1
            OBVIOUS
        <3>2. a \in p .. p + size - 1 /\ a - p + 1 = i
            BY <1>2, <3>1
        <3>3. a \in Addr
            BY <1>1, <2>5, <2>6, <2>7, <3>2, Elsewhere
        <3> QED BY <2>8, <3>1, <3>2, <3>3
    <2> QED BY <1>1, <2>1, <2>2, <2>3, <2>4, <2>5, <2>9, <2>10, Gives
<1> QED BY <1>7, <1>8

\* calloc() gives a region of zeros.
LEMMA CallocGives ==
    ASSUME Modest, IndInv, NEW size \in Sizes, NEW nmemb \in Counts, calloc(nmemb, size)
    PROVE  Shown!Next \/ UNCHANGED <<Regions, foreign>>
<1>1. IndInv'
    BY CallocKeeps
<1>2. PICK total \in Nat : /\ total = (nmemb * size) % Word /\ total = nmemb * size
                           /\ Fits(total)
    BY CallocFits
<1>3. Standing
    BY DEF IndInv
<1>4. PICK r : r = Allocate(total)
    OBVIOUS
<1>5. Served(r, total) /\ (r.ptr # NULL => total # 0)
    BY <1>2, <1>3, <1>4, AllocateServes
<1>6. PICK m : m = [a \in Addr |-> IF a \in r.ptr .. r.ptr + total - 1 THEN 0 ELSE mem[a]]
    OBVIOUS
<1>7. IF r.ptr = NULL THEN Settle(r, held, mem) ELSE Settle(r, With(held, r.ptr, total), m)
    BY <1>2, <1>4, <1>6 DEF calloc
<1>8. CASE r.ptr = NULL
    BY <1>1, <1>7, <1>8, NothingSeen
<1>9. CASE r.ptr # NULL
    <2>1. total \in Nat \ {0}
        BY <1>2, <1>5, <1>9
    <2>2. r.ptr \notin DOMAIN held /\ r.ptr \in Nat
        BY <1>5, <1>9, <2>1, ServedApart
    <2>3. PICK p \in Nat : p = r.ptr
        BY <2>2
    <2>4. PICK regions : regions = With(held, p, total)
        OBVIOUS
    <2>5. Settle(r, regions, m)
        BY <1>7, <1>9, <2>3, <2>4
    <2>6. p \in DOMAIN regions /\ regions[p] = total
        BY <2>3, <2>4 DEF With
    <2>7. Region(p, regions) = p .. p + total - 1
        BY <2>6 DEF Region
    <2>8. m = [a \in Addr |-> IF a \in p .. p + total - 1 THEN 0 ELSE mem[a]]
        BY <1>6, <2>3, <2>4
    <2>9. \A a \in Addr : a \notin Region(p, regions) => m[a] = mem[a]
        BY <2>7, <2>8
    <2>10. ASSUME NEW i \in 1 .. total PROVE m[p + i - 1] = 0
        <3>1. PICK a : a = p + i - 1
            OBVIOUS
        <3>2. a \in p .. p + total - 1
            BY <3>1
        <3>3. a \in Addr
            BY <1>1, <2>5, <2>6, <2>7, <3>2, Elsewhere
        <3> QED BY <2>8, <3>1, <3>2, <3>3
    <2> QED BY <1>1, <2>1, <2>2, <2>3, <2>4, <2>5, <2>9, <2>10, Gives
<1> QED BY <1>8, <1>9

\* free() takes back the region of the block that ptr points into.
LEMMA FreeTakes ==
    ASSUME IndInv, NEW i \in DOMAIN blocks,
           NEW ptr \in Ends(Payload(blocks[i]), blocks[i].payload_capacity), free(ptr)
    PROVE  Shown!Next
<1>1. IndInv'
    BY FreeKeeps
<1>2. findblock(blocks, ptr) = i /\ i \in 1 .. Len(blocks)
    BY FreedBlock
<1>3. PICK r, p, regions, m : /\ r = Result(Release(blocks, ptr), brk, NULL)
                              /\ p = Payload(blocks[i]) /\ regions = Without(held, p) /\ m = mem
    OBVIOUS
<1>4. Settle(r, regions, m) /\ ~blocks[i].is_free
    BY <1>2, <1>3 DEF free
<1>5. p \in DOMAIN held
    <2>1. Laid(blocks, foreign, brk) /\ Owned(Used(blocks), held)
        BY DEF IndInv, Standing
    <2>2. blocks \in Seq(Block)
        BY <2>1, LaidFacts
    <2>3. blocks[i] \in Used(blocks)
        BY <1>2, <1>4, <2>2, UsedMembers
    <2> QED BY <1>3, <2>1, <2>3 DEF Owned
<1>6. /\ DOMAIN regions = DOMAIN held \ {p}
      /\ \A q \in DOMAIN regions : regions[q] = held[q]
    BY <1>3 DEF Without
<1>7. foreign' = foreign /\ DOMAIN Regions' = DOMAIN regions
    BY <1>1, <1>4, AfterSettle
<1>8. DOMAIN Regions = DOMAIN held
    BY Before
<1>9. Shown!Others({p})
    <2>1. DOMAIN held \ {p} = DOMAIN regions \ {p}
        BY <1>6
    <2>2. ASSUME NEW q \in DOMAIN held \ {p}
          PROVE  regions[q] = held[q] /\ \A a \in Region(q, regions) : m[a] = mem[a]
        BY <1>3, <1>6
    <2> QED BY <1>1, <1>4, <2>1, <2>2, Untouched
<1>10. Shown!TakeBack(p)
    BY <1>6, <1>7, <1>9 DEF Shown!TakeBack
<1> QED BY <1>5, <1>8, <1>10 DEF Shown!Next

-----------------------------------------------------------------------------
\* A call that makes region p a region at q: what lies in it comes along, from
\* the bytes c, and its owner writes the rest.
LEMMA Resizes ==
    ASSUME IndInv, IndInv', NEW r, NEW regions, NEW m, Settle(r, regions, m),
           NEW p \in DOMAIN held, NEW q, q # p => q \notin DOMAIN held,
           NEW size \in Nat \ {0}, NEW c, m = Filled(c, q, held[p], size),
           regions = With(Without(held, p), q, size),
           \A a \in Addr : a \notin Region(q, regions) => c[a] = mem[a],
           \A i \in 1 .. size : i <= held[p] => c[q + i - 1] = mem[p + i - 1]
    PROVE  Shown!Next
<1>1. /\ DOMAIN regions = (DOMAIN held \ {p}) \cup {q} /\ regions[q] = size
      /\ \A s \in DOMAIN held \ {p, q} : regions[s] = held[s]
    <2>1. PICK w : w = Without(held, p)
        OBVIOUS
    <2>2. DOMAIN w = DOMAIN held \ {p} /\ \A s \in DOMAIN w : w[s] = held[s]
        BY <2>1 DEF Without
    <2>3. regions = [s \in DOMAIN w \cup {q} |-> IF s = q THEN size ELSE w[s]]
        BY <2>1 DEF With
    <2> QED BY <2>2, <2>3
<1>2. /\ foreign' = foreign /\ DOMAIN Regions' = DOMAIN regions /\ q \in Nat
      /\ Regions'[q] = [i \in 1 .. size |-> m[q + i - 1]]
    BY <1>1, AfterSettle
<1>3. PICK h \in Nat : h = held[p]
    BY Before
<1>4. DOMAIN Regions = DOMAIN held /\ Regions[p] = [i \in 1 .. h |-> mem[p + i - 1]]
    BY <1>3, Before
<1>5. /\ \A a \in Region(q, regions) : a \in Addr
      /\ \A s \in DOMAIN regions : s # q =>
             \A a \in Region(s, regions) : a \in Addr /\ a \notin Region(q, regions)
    BY <1>1, Elsewhere
<1>6. Region(q, regions) = q .. q + size - 1
    BY <1>1 DEF Region
<1>7. m = [a \in Addr |-> IF a \in q + h .. q + size - 1 THEN a - q + 1 ELSE c[a]]
    BY <1>3 DEF Filled
<1>8. Shown!Others({p, q})
    <2>1. DOMAIN held \ {p, q} = DOMAIN regions \ {p, q}
        BY <1>1
    <2>2. ASSUME NEW s \in DOMAIN held \ {p, q}
          PROVE  regions[s] = held[s] /\ \A a \in Region(s, regions) : m[a] = mem[a]
        <3>1. s \in DOMAIN regions /\ s # q /\ regions[s] = held[s]
            BY <1>1
        <3>2. ASSUME NEW a \in Region(s, regions) PROVE m[a] = mem[a]
            <4>1. a \in Addr /\ a \notin q .. q + size - 1 /\ c[a] = mem[a]
                BY <1>5, <1>6, <3>1
            <4>2. a \notin q + h .. q + size - 1
                BY <1>2, <4>1
            <4> QED BY <1>7, <4>1, <4>2
        <3> QED BY <3>1, <3>2
    <2> QED BY <2>1, <2>2, Untouched
<1>9. Shown!Apart(Regions', q)
    BY <1>1, ApartAfter
<1>10. Len(Regions'[q]) = size /\ Len(Regions[p]) = h
    <2>1. Len([i \in 1 .. size |-> m[q + i - 1]]) = size
        OBVIOUS
    <2>2. Len([i \in 1 .. h |-> mem[p + i - 1]]) = h
        OBVIOUS
    <2> QED BY <1>2, <1>4, <2>1, <2>2
<1>11. ASSUME NEW i \in 1 .. size
       PROVE  Regions'[q][i] = IF i <= h THEN Regions[p][i] ELSE i
    <2>1. PICK a : a = q + i - 1
        OBVIOUS
    <2>2. a \in q .. q + size - 1 /\ a - q + 1 = i /\ (a \in q + h .. q + size - 1 <=> h < i)
        BY <1>2, <2>1
    <2>3. a \in Addr
        BY <1>5, <1>6, <2>2
    <2>4. Regions'[q][i] = m[a]
        BY <1>2, <2>1
    <2>5. CASE i <= h
        <3>1. m[a] = c[a]
            BY <1>7, <2>2, <2>3, <2>5
        <3>2. c[a] = mem[p + i - 1]
            BY <1>3, <2>1, <2>5
        <3>3. Regions[p][i] = mem[p + i - 1]
            BY <1>4, <2>5
        <3> QED BY <2>4, <2>5, <3>1, <3>2, <3>3
    <2>6. CASE h < i
        <3>1. m[a] = i
            BY <1>7, <2>2, <2>3, <2>6
        <3> QED BY <2>4, <2>6, <3>1
    <2> QED BY <2>5, <2>6
<1>12. p # q => p \notin DOMAIN Regions' /\ q \notin DOMAIN Regions
    BY <1>1, <1>2, <1>4
<1>13. Shown!Resize(p, q)
    BY <1>2, <1>8, <1>9, <1>10, <1>11, <1>12 DEF Shown!Resize
<1>14. p \in DOMAIN Regions /\ q \in DOMAIN Regions'
    BY <1>1, <1>2, <1>4
<1> QED BY <1>13, <1>14 DEF Shown!Next

\* realloc() of a block that stays where it is.
LEMMA StaysInPlace ==
    ASSUME IndInv, IndInv', NEW p \in DOMAIN held, NEW i, Payload(blocks[i]) = p,
           NEW list, NEW e, NEW size \in Nat \ {0}, StayAt(i, list, e, size)
    PROVE  Shown!Next
<1>1. PICK r, m, regions, c : /\ r = Result(splitblock(list, i, round_up_16(size)), e, p)
                              /\ c = mem /\ m = Filled(c, p, held[p], size)
                              /\ regions = With(held, p, size)
    OBVIOUS
<1>2. Settle(r, regions, m)
    BY <1>1 DEF StayAt
<1>3. regions = With(Without(held, p), p, size)
    <2>1. PICK w : w = Without(held, p)
        OBVIOUS
    <2>2. DOMAIN w = DOMAIN held \ {p} /\ \A s \in DOMAIN w : w[s] = held[s]
        BY <2>1 DEF Without
    <2>3. With(w, p, size) = [s \in DOMAIN held \cup {p} |-> IF s = p THEN size ELSE held[s]]
        BY <2>2 DEF With
    <2> QED BY <1>1, <2>1, <2>3 DEF With
<1> QED BY <1>1, <1>2, <1>3, Resizes

\* realloc() by malloc(), memcpy() and free().
LEMMA MoveResizes ==
    ASSUME Modest, IndInv, NEW p \in DOMAIN held, NEW ptr \in Ends(p, held[p]),
           NEW size \in Sizes, size # 0, realloc_move(ptr, size)
    PROVE  Shown!Next \/ UNCHANGED <<Regions, foreign>>
<1>1. IndInv'
    BY MoveKeeps
<1>2. size \in Nat \ {0} /\ Fits(size) /\ Standing
    BY Asked DEF IndInv
<1>3. PICK i \in 1 .. Len(blocks) : /\ findblock(blocks, ptr) = i /\ ~blocks[i].is_free
                                    /\ blocks[i] \in Block /\ Payload(blocks[i]) = p
    BY Owner
<1>4. PICK r : r = Allocate(size)
    OBVIOUS
<1>5. Served(r, size)
    BY <1>2, <1>4, AllocateServes
<1>6. PICK cap \in Nat : cap = blocks[i].payload_capacity
    BY <1>3, BlockNumbers
<1>7. cap < size
    <2>1. PICK n \in Nat : /\ n = round_up_16(size) /\ n % ALIGN = 0 /\ n < size + ALIGN
        <3>1. size \in Nat /\ size + ALIGN <= Word
            BY <1>2, Sizing DEF Fits
        <3> QED BY <3>1, RoundUp
    <2>2. cap < n
        BY <1>3, <1>6, <2>1 DEF realloc_move, MoveWith
    <2>3. cap % ALIGN = 0
        BY <1>2, <1>3, <1>6, LaidFacts DEF Standing
    <2>4. PICK d : d = n - cap
        OBVIOUS
    <2>5. d \in Nat /\ d % ALIGN = 0
        BY <2>1, <2>2, <2>3, <2>4, Sizing, DifferenceMod
    <2>6. d # 0
        BY <2>2, <2>4
    <2>7. ALIGN <= d
        <3>1. d < ALIGN => d % ALIGN = d
            BY <2>5, Sizing, SmallMod
        <3> QED BY <2>5, <2>6, <3>1, Sizing
    <2>8. size \in Nat
        BY <1>2
    <2> QED BY ONLY <2>1, <2>4, <2>7, <2>8, Sizing, cap \in Nat, n \in Nat
<1>8. PICK c : c = [a \in Addr |-> IF a \in r.ptr .. r.ptr + cap - 1
                                   THEN mem[p + (a - r.ptr)] ELSE mem[a]]
    OBVIOUS
<1>9. PICK m : m = Filled(c, r.ptr, held[p], size)
    OBVIOUS
<1>10. PICK s : s = [r EXCEPT !.blocks = Release(@, ptr)]
    OBVIOUS
<1>11. IF r.ptr = NULL THEN Settle(r, held, mem)
       ELSE Settle(s, With(Without(held, p), r.ptr, size), m)
    BY <1>3, <1>4, <1>6, <1>8, <1>9, <1>10 DEF realloc_move, MoveWith
<1>12. CASE r.ptr = NULL
    BY <1>1, <1>11, <1>12, NothingSeen
<1>13. CASE r.ptr # NULL
    <2>1. r.ptr \notin DOMAIN held /\ r.ptr \in Nat
        BY <1>2, <1>5, <1>13, ServedApart
    <2>2. PICK q \in Nat : q = r.ptr
        BY <2>1
    <2>3. PICK regions : regions = With(Without(held, p), q, size)
        OBVIOUS
    <2>4. Settle(s, regions, m)
        BY <1>11, <1>13, <2>2, <2>3
    <2>5. q \in DOMAIN regions /\ regions[q] = size
        BY <2>2, <2>3 DEF With
    <2>6. Region(q, regions) = q .. q + size - 1
        BY <2>5 DEF Region
    <2>7. c = [a \in Addr |-> IF a \in q .. q + cap - 1 THEN mem[p + (a - q)] ELSE mem[a]]
        BY <1>8, <2>2, <2>3
    <2>8. \A a \in Addr : a \notin Region(q, regions) => c[a] = mem[a]
        <3>1. \A a \in q .. q + cap - 1 : a \in q .. q + size - 1
            BY <1>2, <1>7
        <3> QED BY <2>6, <2>7, <3>1
    <2>9. held[p] <= cap /\ held[p] \in Nat
        <3>1. Laid(blocks, foreign, brk) /\ Owned(Used(blocks), held)
            BY DEF IndInv, Standing
        <3>2. blocks \in Seq(Block)
            BY <3>1, LaidFacts
        <3>3. blocks[i] \in Used(blocks)
            BY <1>3, <3>2, UsedMembers
        <3>4. held[p] \in 1 .. cap
            BY <1>3, <1>6, <3>1, <3>3 DEF Owned
        <3> QED BY <3>4
    <2>10. ASSUME NEW j \in 1 .. size, j <= held[p] PROVE c[q + j - 1] = mem[p + j - 1]
        <3>1. PICK a : a = q + j - 1
            OBVIOUS
        <3>2. a \in q .. q + cap - 1 /\ a \in q .. q + size - 1
            BY <1>2, <2>9, <2>10, <3>1
        <3>3. a \in Addr
            BY <1>1, <2>4, <2>5, <2>6, <3>2, Elsewhere
        <3>4. p \in Nat
            BY Before
        <3>5. p + (a - q) = p + j - 1
            BY <3>1, <3>4
        <3> QED BY <2>7, <3>1, <3>2, <3>3, <3>5
    <2>11. q # p
        BY <2>1, <2>2, <2>3
    <2>12. m = Filled(c, q, held[p], size)
        BY <1>9, <2>2, <2>3
    <2>13. q \notin DOMAIN held
        BY <2>1, <2>2, <2>3
    <2> QED BY <1>1, <1>2, <2>2, <2>3, <2>4, <2>8, <2>10, <2>12, <2>13, Resizes
<1> QED BY <1>12, <1>13

\* Others take memory while the allocator has none.
LEMMA ForeignIntrudes ==
    ASSUME Modest, IndInv, foreign_sbrk
    PROVE  Shown!Next
<1>1. blocks = <<>> /\ mem' = mem /\ held' = held
    BY DEF Modest, foreign_sbrk
<1>2. Used(blocks) = {}
    BY <1>1 DEF Used
<1>3. DOMAIN held = {}
    BY <1>2 DEF IndInv, Owned
<1>4. Regions' = Regions
    BY <1>1 DEF Regions, Bytes
<1>5. DOMAIN Regions = {}
    BY <1>3 DEF Regions
<1>6. Shown!Intrude
    BY <1>4, <1>5 DEF Shown!Intrude
<1> QED BY <1>6 DEF Shown!Next

\* There are no regions at first.
LEMMA StartsEmpty ==
    ASSUME Init
    PROVE  Shown!Init
<1>1. held = <<>> /\ foreign = {}
    BY DEF Init
<1>2. Regions = <<>>
    BY <1>1 DEF Regions
<1> QED BY <1>1, <1>2 DEF Shown!Init

\* Every step of Heap is one of Arena, or changes nothing that Arena shows.
LEMMA StepShown ==
    ASSUME Modest, IndInv, [Next]_vars
    PROVE  Shown!Next \/ UNCHANGED <<Regions, foreign>>
<1>1. ASSUME NEW size \in Sizes, malloc(size)
      PROVE  Shown!Next \/ UNCHANGED <<Regions, foreign>>
    BY <1>1, MallocGives
<1>2. ASSUME NEW size \in Sizes, NEW nmemb \in Counts, calloc(nmemb, size)
      PROVE  Shown!Next \/ UNCHANGED <<Regions, foreign>>
    BY <1>2, CallocGives
<1>3. ASSUME NEW size \in Sizes, size # 0, NEW p \in DOMAIN held,
             NEW ptr \in Ends(p, held[p]), realloc(ptr, size)
      PROVE  Shown!Next \/ UNCHANGED <<Regions, foreign>>
    <2>1. PICK i \in 1 .. Len(blocks) : findblock(blocks, ptr) = i /\ Payload(blocks[i]) = p
        BY <1>3, Owner
    <2>2. size \in Nat \ {0}
        BY <1>3, Asked
    <2>3. ASSUME NEW list, NEW e, StayAt(i, list, e, size), IndInv' PROVE Shown!Next
        BY <1>3, <2>1, <2>2, <2>3, StaysInPlace
    <2>4. CASE realloc_shrink(ptr, size)
        <3>1. IndInv'
            BY <1>3, <2>4, ShrinkKeeps
        <3>2. \E list, e : StayAt(i, list, e, size)
            BY <2>1, <2>4 DEF realloc_shrink
        <3> QED BY <2>3, <3>1, <3>2
    <2>5. CASE realloc_last(ptr, size)
        <3>1. IndInv'
            BY <1>3, <2>5, LastKeeps
        <3>2. \E list, e : StayAt(i, list, e, size)
            BY <2>1, <2>5 DEF realloc_last
        <3> QED BY <2>3, <3>1, <3>2
    <2>6. CASE realloc_expand(ptr, size)
        <3>1. IndInv'
            BY <1>3, <2>6, ExpandKeeps
        <3>2. \E list, e : StayAt(i, list, e, size)
            BY <2>1, <2>6 DEF realloc_expand
        <3> QED BY <2>3, <3>1, <3>2
    <2>7. CASE realloc_move(ptr, size)
        BY <1>3, <2>7, MoveResizes
    <2> QED BY <1>3, <2>4, <2>5, <2>6, <2>7 DEF realloc
<1>4. ASSUME NEW i \in DOMAIN blocks,
             NEW ptr \in Ends(Payload(blocks[i]), blocks[i].payload_capacity), free(ptr)
      PROVE  Shown!Next
    BY <1>4, FreeTakes
<1>5. ASSUME foreign_sbrk PROVE Shown!Next
    BY <1>5, ForeignIntrudes
<1>6. ASSUME UNCHANGED vars PROVE UNCHANGED <<Regions, foreign>>
    <2>1. mem' = mem /\ held' = held /\ foreign' = foreign
        BY <1>6 DEF vars
    <2> QED BY <2>1 DEF Regions, Bytes
<1> QED BY <1>1, <1>2, <1>3, <1>4, <1>5, <1>6, Zenon DEF Next

\* The allocator implements Arena: whatever splits, merges, moves and failed
\* calls it makes of it, a client sees regions that are aligned and apart, that
\* keep their bytes until they are freed and take them along in realloc().
THEOREM HeapIsArena == Modest => (Spec => IsArena)
<1>1. ASSUME Modest PROVE Spec => IsArena
    <2>1. Init => Shown!Init
        BY StartsEmpty
    <2>2. IndInv /\ [Next]_vars => [Shown!Next]_<<Regions, foreign>>
        BY <1>1, StepShown
    <2>3. Spec => []IndInv
        BY <1>1, Invariance
    <2> QED BY <2>1, <2>2, <2>3, PTL DEF Spec, IsArena, Shown!Spec
<1> QED BY <1>1
=============================================================================
