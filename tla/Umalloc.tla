------------------------------- MODULE Umalloc -------------------------------
(***************************************************************************)
(* malloc() and free() of user/umalloc.c: the circular list of free blocks *)
(* in order of address, over memory that sbrk() hands out.                 *)
(*                                                                         *)
(* Memory is counted in units of a Header. &base is address 0; the heap    *)
(* starts beyond it. Only the headers are modelled.                        *)
(***************************************************************************)
EXTENDS Naturals, FiniteSets

CONSTANTS
    HeapStart, HeapEnd,  \* the first unit sbrk() gives, and its limit
    MinCore,             \* units morecore() asks for at least: 4096
    Sizes                \* nunits of malloc(), the header included

base == 0
NULL == HeapEnd + 1
HeapAddr == {base} \cup (HeapStart .. HeapEnd - 1)

VARIABLES
    heap,   \* ptr and size of the headers, freep, and brk
    given,  \* blocks the program has: address of the header
    owned   \* units morecore() has got, which the program does not sbrk()

vars == <<heap, given, owned>>

Init ==
    /\ heap = [ptr |-> [a \in HeapAddr |-> base], size |-> [a \in HeapAddr |-> 0],
               freep |-> NULL, brk |-> HeapStart]
    /\ given = {} /\ owned = {}

-----------------------------------------------------------------------------
\* The blocks on the list, from base.
RECURSIVE Listed(_, _, _)
Listed(h, p, seen) == IF p \in seen THEN seen ELSE Listed(h, h.ptr[p], seen \cup {p})

\* What is left of the header of a block that was joined or given away is of
\* no meaning, but for the size of a given block.
Scrub(h, blocks) ==
    LET F == Listed(h, base, {}) IN
    [h EXCEPT !.ptr = [a \in HeapAddr |-> IF a \in F THEN @[a] ELSE base],
              !.size = [a \in HeapAddr |-> IF a \in F \cup blocks THEN @[a] ELSE 0]]

\* Where free() puts bp: the last free block before it, going round from p.
RECURSIVE Before(_, _, _)
Before(h, p, bp) ==
    LET q == h.ptr[p] IN
    IF \/ bp > p /\ bp < q
       \/ p >= q /\ (bp > p \/ bp < q)
    THEN p ELSE Before(h, q, bp)

\* free(): join with the block above, then with the block below.
Free(h, bp) ==
    LET p == Before(h, h.freep, bp)
        q == h.ptr[p]
        up == IF bp + h.size[bp] = q
              THEN [h EXCEPT !.size[bp] = @ + h.size[q], !.ptr[bp] = h.ptr[q]]
              ELSE [h EXCEPT !.ptr[bp] = q]
        down == IF p + up.size[p] = bp
                THEN [up EXCEPT !.size[p] = @ + up.size[bp], !.ptr[p] = up.ptr[bp]]
                ELSE [up EXCEPT !.ptr[p] = bp]
    IN [down EXCEPT !.freep = p]

\* The units morecore() asks sbrk() for.
Core(nu) == IF nu < MinCore THEN MinCore ELSE nu

\* Mutant of Carve: the size of the part that is left stays.
CarveShared(h, prevp, p, n) ==
    IF h.size[p] = n THEN [h EXCEPT !.ptr[prevp] = h.ptr[p], !.freep = prevp]
    ELSE [h EXCEPT !.size[p + h.size[p] - n] = n, !.freep = prevp]

\* The block p, or the last n units of it, leaves the list.
Carve(h, prevp, p, n) ==
    IF h.size[p] = n THEN [h EXCEPT !.ptr[prevp] = h.ptr[p], !.freep = prevp]
    ELSE [h EXCEPT !.size[p] = @ - n, !.size[p + h.size[p] - n] = n, !.freep = prevp]

\* The loop of malloc(): all the ways it can end, as <<heap, block, core>>
\* with block NULL when sbrk() fails, and core the units it gave.
RECURSIVE Search(_, _, _, _, _)
Search(h, prevp, p, n, core) ==
    IF h.size[p] >= n THEN {<<Carve(h, prevp, p, n), p + h.size[p] - n, core>>}
    ELSE IF p # h.freep THEN Search(h, p, h.ptr[p], n, core)
    ELSE LET nu == Core(n)
             g == Free([h EXCEPT !.size[h.brk] = nu, !.brk = @ + nu], h.brk)
         IN {<<h, NULL, core>>} \cup
            (IF h.brk + nu > HeapEnd THEN {}
             ELSE Search(g, g.freep, g.ptr[g.freep], n, core \cup (h.brk .. h.brk + nu - 1)))

\* The list of malloc()'s first call.
Started(h) == IF h.freep # NULL THEN h
              ELSE [h EXCEPT !.ptr[base] = base, !.size[base] = 0, !.freep = base]

malloc(n) ==
    LET h == Started(heap) IN
    \E r \in Search(h, h.freep, h.ptr[h.freep], n, {}) :
        /\ given' = IF r[2] = NULL THEN given ELSE given \cup {r[2]}
        /\ heap' = Scrub(r[1], given')
        /\ owned' = owned \cup r[3]

free(bp) ==
    /\ given' = given \ {bp}
    /\ heap' = Scrub(Free(heap, bp), given')
    /\ UNCHANGED owned

\* The program's own sbrk(): the next morecore() is not adjacent.
sbrk ==
    /\ heap.brk < HeapEnd
    /\ heap' = [heap EXCEPT !.brk = @ + 1]
    /\ UNCHANGED <<given, owned>>

Next == sbrk \/ (\E n \in Sizes : malloc(n)) \/ (\E bp \in given : free(bp))

Spec == Init /\ [][Next]_vars

-----------------------------------------------------------------------------
Units(b) == b .. b + heap.size[b] - 1

\* The free blocks, in order of address on one circle through base and
\* freep, no two of them adjacent, and the blocks malloc() has returned cut
\* what morecore() got into disjoint pieces: nothing is lost or given twice,
\* however free()s and failing sbrk()s are ordered.
HeapTiled ==
    heap.freep # NULL =>
        LET F == Listed(heap, base, {}) IN
        /\ heap.freep \in F
        /\ \A p \in F : \/ heap.ptr[p] = base /\ \A q \in F : q <= p
                        \/ heap.ptr[p] > p /\ \A q \in F : q > p => q >= heap.ptr[p]
        /\ \A p, q \in F : q # base => p + heap.size[p] # q
        /\ F \cap given = {}
        /\ \A a, b \in F \cup given : a # b => Units(a) \cap Units(b) = {}
        /\ UNION {Units(b) : b \in F \cup given} = owned

=============================================================================
