-------------------------------- MODULE Heap --------------------------------
(***************************************************************************)
(* The allocator of Asgn1/malloc.c: a list of block headers laid over the  *)
(* memory that sbrk() gives, with malloc, free, calloc and realloc.  It is *)
(* single-threaded, so every call is one step.                             *)
(*                                                                         *)
(* The list is a sequence of blocks in the order of next_block_header.     *)
(* Memory is what clients can see of it: a client writes offset + 1 into   *)
(* every byte it is given (calloc's zeros it leaves), and the allocator's  *)
(* own writes are headers and what realloc copies.  Addresses and sizes    *)
(* are bytes, on a smaller scale than the 16, 24 and 64k of the code, and  *)
(* size_t is a word of its own width.                                      *)
(*                                                                         *)
(* External: the program break, which other code of the process may move.  *)
(***************************************************************************)
EXTENDS Integers, Sequences, SequencesExt

CONSTANTS ALIGN,                 \* 16 in the code
          SIZEOF_HEADER,         \* sizeof(struct BlockHeader), 24 in the code
          MINIMUM_PAYLOAD_SIZE,
          CHUNK_SIZE,
          Word,                  \* SIZE_MAX + 1
          Base, Limit,           \* where the break starts, how far it may go
          Sizes,                 \* sizes that are asked for
          Counts,                \* first arguments of calloc()
          SharedBreak,           \* others move the break after the first malloc too
          MaxForeign             \* bytes that others take with sbrk()

ASSUME AlignAssumption ==
    /\ ALIGN \in Nat \ {0}
    /\ \A n \in {MINIMUM_PAYLOAD_SIZE, CHUNK_SIZE, Word} : n \in Nat \ {0} /\ n % ALIGN = 0
    /\ SIZEOF_HEADER \in Nat \ {0}
    /\ SIZEOF_HEADER + ALIGN + MINIMUM_PAYLOAD_SIZE <= CHUNK_SIZE /\ CHUNK_SIZE < Word
    /\ MINIMUM_PAYLOAD_SIZE <= ALIGN   \* "so reasonable is min is 16"
ASSUME BreakAssumption ==
    Base \in Nat \ {0} /\ Limit \in Nat /\ Base <= Limit /\ Limit < Word /\ MaxForeign \in Nat
ASSUME RequestAssumption == Sizes \subseteq 0 .. Word - 1 /\ Counts \subseteq 0 .. Word - 1
ASSUME SharedBreak \in BOOLEAN

VARIABLES
    blocks,     \* the list from heap_head on
    brk,        \* the program break
    mem,        \* what is in memory, as far as a client can tell
    held,       \* the regions clients own: address -> size asked for
    foreign     \* addresses that others got from sbrk()

vars == <<blocks, brk, mem, held, foreign>>

NULL == 0
Addr == Base .. Limit - 1

\* Contents of memory besides client bytes: not known, and part of a header.
UNKNOWN == -1
HEADER == -2

\* round_up_16(), in the arithmetic of size_t.
round_up_16(size) == (((size + ALIGN - 1) % Word) \div ALIGN) * ALIGN

header_size == round_up_16(SIZEOF_HEADER)

Payload(b) == b.addr + header_size
End(b) == Payload(b) + b.payload_capacity

\* struct BlockHeader and where it lies.
Block == [addr : Addr, payload_capacity : MINIMUM_PAYLOAD_SIZE .. Word - 1, is_free : BOOLEAN]

TypeOK ==
    /\ blocks \in Seq(Block)
    /\ brk \in Base .. Limit
    /\ mem \in [Addr -> {UNKNOWN, HEADER} \cup Nat]
    /\ \A p \in DOMAIN held : p \in Addr /\ held[p] \in 1 .. Word - 1
    /\ foreign \subseteq Addr

Init ==
    /\ blocks = <<>> /\ brk = Base
    /\ mem = [a \in Addr |-> UNKNOWN]
    /\ held = <<>> /\ foreign = {}

-----------------------------------------------------------------------------
\* sbrk(2) with its signed argument, from break b: the new break, NULL for -1.
sbrk(b, increment) ==
    LET new == b + (IF 2 * increment < Word THEN increment ELSE increment - Word)
    IN  IF new \in Base .. Limit THEN new ELSE NULL

\* The turn of merge_free_nodes() for node b, after the nodes before it.
Absorb(done, b) ==
    IF done # <<>> /\ Last(done).is_free /\ b.is_free
    THEN [done EXCEPT ![Len(done)].payload_capacity =
              (@ + header_size + b.payload_capacity) % Word]
    ELSE Append(done, b)

\* merge_free_nodes(): each run of consecutive free nodes becomes its first one.
merge_free_nodes(list) ==
    LET done[n \in 0 .. Len(list)] ==
            IF n = 0 THEN <<>> ELSE Absorb(done[n - 1], list[n])
    IN  done[Len(list)]

\* splitblock() with its two thresholds as parameters, for its mutants.
SplitWith(list, i, size, least, overhead) ==
    LET left == (list[i].payload_capacity - size) % Word
        rest == [addr |-> (Payload(list[i]) + size) % Word,
                 payload_capacity |-> left - overhead,
                 is_free |-> TRUE]
    IN  IF left < least THEN list
        ELSE merge_free_nodes(
                 InsertAt([list EXCEPT ![i].payload_capacity = size], i + 1, rest))

\* Mutants: a leftover without payload; a leftover as large as if it had no header.
SplitToTheEnd(list, i, size) == SplitWith(list, i, size, header_size, header_size)
SplitForgetsHeader(list, i, size) ==
    SplitWith(list, i, size, header_size + MINIMUM_PAYLOAD_SIZE, 0)

\* splitblock(): cut block i to size if the leftover can be a block.
splitblock(list, i, size) ==
    LET left == (list[i].payload_capacity - size) % Word
        rest == [addr |-> (Payload(list[i]) + size) % Word,
                 payload_capacity |-> left - header_size,
                 is_free |-> TRUE]
    IN  IF left < header_size + MINIMUM_PAYLOAD_SIZE THEN list
        ELSE merge_free_nodes(
                 InsertAt([list EXCEPT ![i].payload_capacity = size], i + 1, rest))

\* findblock(): the index of the block whose payload contains ptr, or 0.  The
\* walk ends at the first payload that starts after ptr.
findblock(list, ptr) ==
    LET hits == {i \in DOMAIN list : /\ Payload(list[i]) <= ptr /\ ptr < End(list[i])
                                     /\ \A j \in 1 .. i - 1 : Payload(list[j]) <= ptr}
    IN  IF hits = {} THEN 0 ELSE Min(hits)

\* What a call leaves behind: the list, the break, and the pointer it returns.
Result(list, b, ptr) == [blocks |-> list, brk |-> b, ptr |-> ptr]

\* malloc() from block i: take it and cut it.
Take(list, b, i, size) ==
    Result(splitblock([list EXCEPT ![i].is_free = FALSE], i, size), b, Payload(list[i]))

\* malloc() when no block is large enough: align the break, then a new block at
\* the end of the list.  A failure of the second sbrk() leaves the padding.
Grow(list, size) ==
    LET used_block_size == (header_size + size) % Word
        new_block_size == IF used_block_size < CHUNK_SIZE THEN CHUNK_SIZE ELSE used_block_size
        aligned == sbrk(brk, round_up_16(brk) - brk)
        new_break == sbrk(aligned, new_block_size)
        new == [addr |-> aligned, payload_capacity |-> new_block_size - header_size,
                is_free |-> TRUE]
    IN  IF aligned = NULL THEN Result(list, brk, NULL)
        ELSE IF new_break = NULL THEN Result(list, aligned, NULL)
        ELSE Take(Append(list, new), new_break, Len(list) + 1, size)

\* The free blocks that are large enough; malloc() takes the first.
Fitting(size) ==
    {i \in DOMAIN blocks : blocks[i].is_free /\ blocks[i].payload_capacity >= size}

Allocate(size) ==
    LET rounded == round_up_16(size)
    IN  IF size = 0 THEN Result(blocks, brk, NULL)
        ELSE IF Fitting(rounded) # {} THEN Take(blocks, brk, Min(Fitting(rounded)), rounded)
        ELSE Grow(blocks, rounded)

\* free() of whatever block contains ptr, unless none does or it is free already.
Release(list, ptr) ==
    LET i == findblock(list, ptr)
    IN  IF i = 0 \/ list[i].is_free THEN list
        ELSE merge_free_nodes([list EXCEPT ![i].is_free = TRUE])

-----------------------------------------------------------------------------
Region(p, regions) == p .. p + regions[p] - 1
Headers(list) == UNION {list[i].addr .. Payload(list[i]) - 1 : i \in DOMAIN list}

\* The step that leaves the heap as r says, clients with the regions given, and
\* in those the bytes m (of which a header may have overwritten some).
Settle(r, regions, m) ==
    /\ blocks' = r.blocks /\ brk' = r.brk
    /\ held' = regions
    /\ mem' = [a \in Addr |->
                  IF a \in Headers(r.blocks) THEN HEADER
                  ELSE IF \E p \in DOMAIN regions : a \in Region(p, regions) THEN m[a]
                  ELSE UNKNOWN]
    /\ UNCHANGED foreign

Without(regions, p) == [q \in DOMAIN regions \ {p} |-> regions[q]]
With(regions, p, size) == [q \in DOMAIN regions \cup {p} |->
                              IF q = p THEN size ELSE regions[q]]

\* A client writes the bytes of its region p from offset `from` on.
Filled(m, p, from, size) ==
    [a \in Addr |-> IF a \in p + from .. p + size - 1 THEN a - p + 1 ELSE m[a]]

\* malloc(), which is also realloc(NULL, size).
malloc(size) ==
    LET r == Allocate(size)
    IN  IF r.ptr = NULL THEN Settle(r, held, mem)
        ELSE Settle(r, With(held, r.ptr, size), Filled(mem, r.ptr, 0, size))

\* Mutant: the product is not checked.
CallocUnchecked(nmemb, size) ==
    LET total == (nmemb * size) % Word
        r == Allocate(total)
        zeroed == [a \in Addr |-> IF a \in r.ptr .. r.ptr + total - 1 THEN 0 ELSE mem[a]]
    IN  IF r.ptr = NULL THEN Settle(r, held, mem)
        ELSE Settle(r, With(held, r.ptr, nmemb * size), zeroed)

\* calloc(): refuses a product that is not a size_t.  The caller counts on nmemb
\* elements of the given size, whatever the product comes to.
calloc(nmemb, size) ==
    /\ ~(size # 0 /\ nmemb > (Word - 1) \div size)
    /\ LET total == (nmemb * size) % Word
           r == Allocate(total)
           zeroed == [a \in Addr |-> IF a \in r.ptr .. r.ptr + total - 1 THEN 0 ELSE mem[a]]
       IN  IF r.ptr = NULL THEN Settle(r, held, mem)
           ELSE Settle(r, With(held, r.ptr, nmemb * size), zeroed)

\* Mutant: no merge.
FreeKeepsBlocks(ptr) ==
    LET i == findblock(blocks, ptr)
    IN  /\ i # 0 /\ ~blocks[i].is_free
        /\ Settle(Result([blocks EXCEPT ![i].is_free = TRUE], brk, NULL),
                  Without(held, Payload(blocks[i])), mem)

\* free(), which is also realloc(ptr, 0), of any pointer: NULL, one into no
\* payload and one into a free block change nothing.
free(ptr) ==
    LET i == findblock(blocks, ptr)
    IN  /\ i # 0 /\ ~blocks[i].is_free
        /\ Settle(Result(Release(blocks, ptr), brk, NULL),
                  Without(held, Payload(blocks[i])), mem)

\* realloc() succeeds without moving block i, which is now part of `list`.
StayAt(i, list, b, size) ==
    LET p == Payload(blocks[i])
    IN  Settle(Result(splitblock(list, i, round_up_16(size)), b, p),
               With(held, p, size), Filled(mem, p, held[p], size))

\* realloc() to a smaller or the same rounded size: always in place.
realloc_shrink(ptr, size) ==
    LET i == findblock(blocks, ptr)
    IN  /\ blocks[i].payload_capacity >= round_up_16(size)
        /\ StayAt(i, blocks, brk, size)

\* realloc() of the last block: more memory right behind it, or NULL.
realloc_last(ptr, size) ==
    LET i == findblock(blocks, ptr)
        space_needed == round_up_16(size) - blocks[i].payload_capacity
        size_allocated == IF space_needed < CHUNK_SIZE THEN CHUNK_SIZE ELSE space_needed
        new_break == sbrk(brk, size_allocated)
    IN  /\ blocks[i].payload_capacity < round_up_16(size)
        /\ i = Len(blocks)
        /\ new_break # NULL
        /\ StayAt(i, [blocks EXCEPT ![i].payload_capacity = @ + size_allocated],
                  new_break, size)

\* The room realloc() finds in block i and a free one after it.
Available(i) == blocks[i].payload_capacity + header_size + blocks[i + 1].payload_capacity

\* realloc() into the free block that follows.
realloc_expand(ptr, size) ==
    LET i == findblock(blocks, ptr)
    IN  /\ blocks[i].payload_capacity < round_up_16(size)
        /\ i < Len(blocks)
        /\ blocks[i + 1].is_free /\ Available(i) >= round_up_16(size)
        /\ StayAt(i, RemoveAt([blocks EXCEPT ![i].payload_capacity = Available(i)], i + 1),
                  brk, size)

\* realloc() by malloc(), memcpy() from src on and free(); NULL if malloc() fails.
MoveWith(ptr, size, src, released) ==
    LET i == findblock(blocks, ptr)
        old == Payload(blocks[i])
        r == Allocate(size)
        copied == [a \in Addr |-> IF a \in r.ptr .. r.ptr + blocks[i].payload_capacity - 1
                                  THEN mem[src + (a - r.ptr)] ELSE mem[a]]
    IN  /\ blocks[i].payload_capacity < round_up_16(size)
        /\ i < Len(blocks)
        /\ ~(blocks[i + 1].is_free /\ Available(i) >= round_up_16(size))
        /\ IF r.ptr = NULL THEN Settle(r, held, mem)
           ELSE Settle(IF released THEN [r EXCEPT !.blocks = Release(@, ptr)] ELSE r,
                       With(Without(held, old), r.ptr, size),
                       Filled(copied, r.ptr, held[old], size))

\* Mutants: the copy starts at the pointer given; the old block is not freed.
MoveFromPtr(ptr, size) == MoveWith(ptr, size, ptr, TRUE)
MoveLeaks(ptr, size) == MoveWith(ptr, size, Payload(blocks[findblock(blocks, ptr)]), FALSE)

realloc_move(ptr, size) ==
    MoveWith(ptr, size, Payload(blocks[findblock(blocks, ptr)]), TRUE)

\* realloc() of a pointer to, or into, a region of the caller, and a size that
\* is not 0.  (A pointer into no payload gives NULL and changes nothing.)
realloc(ptr, size) ==
    \/ realloc_shrink(ptr, size)
    \/ realloc_last(ptr, size)
    \/ realloc_expand(ptr, size)
    \/ realloc_move(ptr, size)

\* Other code of the process moves the break.
foreign_sbrk ==
    /\ SharedBreak \/ blocks = <<>>
    /\ brk < Limit
    /\ brk' = brk + 1 /\ foreign' = foreign \cup {brk}
    /\ Cardinality(foreign') <= MaxForeign
    /\ UNCHANGED <<blocks, mem, held>>

\* The pointers that are passed: to the first and the last byte of a payload.
Ends(first, size) == {first, first + size - 1}

Next ==
    \/ \E size \in Sizes :
           \/ malloc(size)
           \/ \E nmemb \in Counts : calloc(nmemb, size)
           \/ size # 0 /\ \E p \in DOMAIN held :
                  \E ptr \in Ends(p, held[p]) : realloc(ptr, size)
    \/ \E i \in DOMAIN blocks :
           \E ptr \in Ends(Payload(blocks[i]), blocks[i].payload_capacity) : free(ptr)
    \/ foreign_sbrk

Spec == Init /\ [][Next]_vars

-----------------------------------------------------------------------------
\* The nodes of the list lie one behind the other up to address end.
Tiled(list, end) ==
    /\ \A i \in DOMAIN list : /\ Payload(list[i]) % ALIGN = 0
                              /\ list[i].payload_capacity % ALIGN = 0
                              /\ i < Len(list) => End(list[i]) = list[i + 1].addr
    /\ list # <<>> => End(Last(list)) = end

\* The blocks lie behind one another without a gap or an overlap, from the first
\* one to the break, and every payload is aligned ("subsequent payload pointers
\* stay 16-byte aligned", malloc.c:106): each split, merge and expansion moves
\* exactly as many bytes as it says.
HeapTiled == Tiled(blocks, brk)

\* "calls to other functions consistently merge free nodes across the entire
\* list" (malloc.c:325), which is why realloc() looks at one block only.
NoFreeNeighbours ==
    \A i \in 1 .. Len(blocks) - 1 : ~(blocks[i].is_free /\ blocks[i + 1].is_free)

\* Every block in use has a client and every client a block in use, after calls
\* that failed half way too: nothing leaks and nothing is freed under a client.
NoLeak ==
    {Payload(blocks[i]) : i \in {j \in DOMAIN blocks : ~blocks[j].is_free}} = DOMAIN held

\* A pointer that malloc, calloc or realloc returns has as many bytes as were
\* asked for, all elements of a calloc whose product exceeds a size_t included.  "a request to malloc(3) could be bigger than any chunk size you
\* should choose. Be sure to deal with this case correctly" (asgn1.pdf, p. 1).
EnoughRoom ==
    \A p \in DOMAIN held :
        \E i \in DOMAIN blocks : /\ Payload(blocks[i]) = p /\ ~blocks[i].is_free
                                 /\ held[p] <= blocks[i].payload_capacity

\* realloc() extends a block "at the end of the heap" with "more room"
\* (malloc.c:294), and free() "coalesces adjacent free blocks" (malloc.c:155): no
\* block ever contains memory that somebody else got from sbrk().
OnlyOwnMemory ==
    \A i \in DOMAIN blocks : \A a \in foreign : ~(blocks[i].addr <= a /\ a < End(blocks[i]))

\* What a client reads in its region p.
Bytes(p) == [i \in 1 .. held[p] |-> mem[p + i - 1]]

\* The regions as Arena has them.
Regions == [p \in DOMAIN held |-> Bytes(p)]

Shown == INSTANCE Arena WITH regions <- Regions

\* The allocator implements Arena: regions are aligned and disjoint, keep their
\* bytes through every call on other regions, and through realloc() up to the
\* smaller of both sizes, moved or not and whichever byte ptr points to.
IsArena == Shown!Spec
=============================================================================
