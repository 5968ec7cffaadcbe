------------------------------- MODULE Arena -------------------------------
(***************************************************************************)
(* What malloc, free, calloc and realloc promise their callers: regions of *)
(* memory, each with the bytes its owner left there.  There are no blocks, *)
(* headers or free lists, and a call that fails is not seen.               *)
(***************************************************************************)
EXTENDS Integers, Sequences

CONSTANT ALIGN

VARIABLES regions,  \* address -> bytes of the regions in use
          foreign   \* addresses that are none of the allocator's

Extent(rs, p) == p .. p + Len(rs[p]) - 1

\* Region p of rs is aligned and shares no byte with anything else.
Apart(rs, p) ==
    /\ p % ALIGN = 0
    /\ Extent(rs, p) \cap foreign = {}
    /\ \A q \in DOMAIN rs \ {p} : Extent(rs, q) \cap Extent(rs, p) = {}

Init == regions = <<>> /\ foreign = {}

\* Nothing happens to the regions other than those in ps.
Others(ps) ==
    /\ DOMAIN regions \ ps = DOMAIN regions' \ ps
    /\ \A q \in DOMAIN regions \ ps : regions'[q] = regions[q]

\* A new region, with the bytes its owner writes, or zeros.
Give(p) ==
    /\ p \notin DOMAIN regions
    /\ Others({p})
    /\ regions'[p] \in {[i \in 1 .. Len(regions'[p]) |-> i],
                        [i \in 1 .. Len(regions'[p]) |-> 0]}
    /\ Apart(regions', p)
    /\ UNCHANGED foreign

TakeBack(p) ==
    /\ p \notin DOMAIN regions'
    /\ Others({p})
    /\ UNCHANGED foreign

\* Region p becomes q, of another size, and its owner writes the new bytes.
Resize(p, q) ==
    /\ p # q => p \notin DOMAIN regions' /\ q \notin DOMAIN regions
    /\ Others({p, q})
    /\ \A i \in 1 .. Len(regions'[q]) :
           regions'[q][i] = IF i <= Len(regions[p]) THEN regions[p][i] ELSE i
    /\ Apart(regions', q)
    /\ UNCHANGED foreign

\* Other code takes memory, none of it in a region.
Intrude ==
    /\ UNCHANGED regions
    /\ \A p \in DOMAIN regions : Extent(regions, p) \cap foreign' = {}

Next ==
    \/ \E p \in DOMAIN regions' : Give(p)
    \/ \E p \in DOMAIN regions : TakeBack(p)
    \/ \E p \in DOMAIN regions, q \in DOMAIN regions' : Resize(p, q)
    \/ Intrude

Spec == Init /\ [][Next]_<<regions, foreign>>
=============================================================================
