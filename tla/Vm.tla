--------------------------------- MODULE Vm ---------------------------------
(***************************************************************************)
(* Physical pages and user memory: kalloc() and kfree() of                 *)
(* kernel/kalloc.c, the page tables of kernel/vm.c, and who calls them in  *)
(* fork(), exit(), sbrk() and exec().                                      *)
(*                                                                         *)
(* A page holds words; page tables live in pages like everything else, in  *)
(* three levels as in Sv39, with two entries each.  A system call is one   *)
(* step: nobody else touches its page tables, and what other processes do  *)
(* to the free list shows only in how many kalloc()s succeed, k.           *)
(***************************************************************************)
EXTENDS Integers, Sequences, FiniteSets

CONSTANTS
    Page,      \* physical pages, naturals above 0
    Proc,      \* slots of the process table
    Programs,  \* what exec() may find: sequences of segments
    Addr,      \* user addresses stored to and copied from and to
    Increment, \* arguments of sbrk()
    MaxCalls,  \* bound on the calls in a behaviour
    MaxUser    \* bound on user pages: physical memory ends before TRAPFRAME

VARIABLES
    mem,    \* what each page holds
    free,   \* kmem.freelist
    proc,   \* p->pagetable (its root page), p->trapframe and p->sz
    calls,  \* calls made so far, up to MaxCalls
    panic,  \* a panic() of vm.c or kalloc.c was reached
    image   \* history: what each process has in its memory, by address

vars == <<mem, free, proc, calls, panic, image>>

PGSIZE == 2
UINT64 == 64   \* a program header's addresses and sizes are taken modulo this
PGROUNDUP(sz) == ((sz + PGSIZE - 1) \div PGSIZE) * PGSIZE
Pages(sz) == PGROUNDUP(sz) \div PGSIZE
TRAMPOLINE == 7
TRAPFRAME == 6
TrampolinePage == 0

\* Words: <<"zero">>, <<"junk">>, <<"data", v>> and PTEs <<"pte", pa, perm>>;
\* perm holds the flags but PTE_V.
Zero == <<"zero">>
Junk == <<"junk">>
Data(v) == <<"data", v>>
Pte(pa, perm) == <<"pte", pa, perm>>
Filled(w) == [i \in 0 .. PGSIZE - 1 |-> w]

-----------------------------------------------------------------------------
(* The machine a call works on: m has mem, free, panic and the number of   *)
(* kalloc()s that still succeed, left.                                     *)

CanAlloc(m) == m.free # {} /\ m.left > 0
Fresh(m) == CHOOSE a \in m.free : \A b \in m.free : a <= b

\* kalloc() of a page, filled with w by the caller.
Kalloc(m, w) ==
    [m EXCEPT !.mem[Fresh(m)] = Filled(w), !.free = @ \ {Fresh(m)}, !.left = @ - 1]

\* kfree(), with its check and its junk.
Kfree(m, pa) ==
    IF pa \notin Page \/ pa \in m.free THEN [m EXCEPT !.panic = TRUE]
    ELSE [m EXCEPT !.mem[pa] = Filled(Junk), !.free = @ \cup {pa}]

PX(level, va) == (va \div 2 ^ level) % 2

\* One level of walk(): r.at is the table reached, 0 when there is none.
Descend(r, level, va, alloc) ==
    LET i == PX(level, va)
        w == r.m.mem[r.at][i]
    IN CASE r.at = 0 -> r
         [] r.at # 0 /\ w[1] = "pte" -> [r EXCEPT !.at = w[2]]
         [] r.at # 0 /\ w = Zero ->
                IF alloc /\ CanAlloc(r.m)
                  THEN [m |-> [Kalloc(r.m, Zero) EXCEPT
                                 !.mem[r.at][i] = Pte(Fresh(r.m), {})],
                        at |-> Fresh(r.m)]
                  ELSE [r EXCEPT !.at = 0]
         [] OTHER -> [m |-> [r.m EXCEPT !.panic = TRUE], at |-> 0]

\* walk(): the page of the last level; the entry in it is PX(0, va).
Walk(m, root, va, alloc) ==
    Descend(Descend([m |-> m, at |-> root], 2, va, alloc), 1, va, alloc)

\* The PTE for va, Zero when there is none.
PteAt(m, at, i) == IF at = 0 THEN Zero ELSE m.mem[at][i]
Leaf(m, root, va) == PteAt(m, Walk(m, root, va, FALSE).at, PX(0, va))

\* mappages() of one page, where walk() has got to r: the machine, and
\* whether it could.
SetPte(r, va, pa, perm) ==
    CASE r.at = 0 -> [m |-> r.m, ok |-> FALSE]
      [] r.at # 0 /\ r.m.mem[r.at][PX(0, va)] # Zero ->
             [m |-> [r.m EXCEPT !.panic = TRUE], ok |-> TRUE]
      [] OTHER -> [m |-> [r.m EXCEPT !.mem[r.at][PX(0, va)] = Pte(pa, perm)], ok |-> TRUE]

MapPage(m, root, va, pa, perm) == SetPte(Walk(m, root, va, TRUE), va, pa, perm)

\* uvmunmap() of one page.
ClearPte(m, at, i, doFree) ==
    IF at = 0 \/ m.mem[at][i][1] # "pte" \/ m.mem[at][i][3] = {}
      THEN [m EXCEPT !.panic = TRUE]
    ELSE IF doFree THEN Kfree([m EXCEPT !.mem[at][i] = Zero], m.mem[at][i][2])
    ELSE [m EXCEPT !.mem[at][i] = Zero]

Unmap1(m, root, va, doFree) == ClearPte(m, Walk(m, root, va, FALSE).at, PX(0, va), doFree)

Uvmunmap(m, root, va, npages, doFree) ==
    LET un[k \in 0 .. npages] ==
          IF k = 0 THEN m ELSE Unmap1(un[k - 1], root, va + k - 1, doFree)
    IN un[npages]

\* Mutant of Undo: the page that could not be mapped is not freed.
UndoLeaks(m, pa, root, from, npages) == Uvmunmap(m, root, from, npages, TRUE)

\* uvmalloc() and uvmcopy() take back what they have done: the page that
\* could not be mapped, when there is one, and the npages before it.
Undo(m, pa, root, from, npages) ==
    Uvmunmap(IF pa = 0 THEN m ELSE Kfree(m, pa), root, from, npages, TRUE)

\* The k-th turn of a loop that maps pages from page from on, with the result
\* of mappages() of page pa.
MapTurn(map, pa, root, from, k) ==
    IF map.ok THEN map ELSE [m |-> Undo(map.m, pa, root, from, k - 1), ok |-> FALSE]

\* A loop that maps fresh pages va = from, from + 1, ... < to; content[va]
\* is what one is filled with and perm[va] its flags.
MapFresh(m, root, from, to, content, perm) ==
    LET Turn(r, va, k) ==
          IF ~ r.ok THEN r
          ELSE IF ~ CanAlloc(r.m)
            THEN [m |-> Undo(r.m, 0, root, from, k - 1), ok |-> FALSE]
          ELSE MapTurn(MapPage([Kalloc(r.m, Zero) EXCEPT !.mem[Fresh(r.m)] = content[va]],
                               root, va, Fresh(r.m), perm[va]),
                       Fresh(r.m), root, from, k)
        go[k \in 0 .. (to - from)] ==
          IF k = 0 THEN [m |-> m, ok |-> TRUE] ELSE Turn(go[k - 1], from + k - 1, k)
    IN IF to <= from THEN [m |-> m, ok |-> TRUE] ELSE go[to - from]

\* Mutant of Cleared: no memset().
Uncleared == Filled(Junk)

\* memset(mem, 0, PGSIZE) of a page for the user.
Cleared == Filled(Zero)

\* uvmalloc(): the new size, 0 on error.
Sized(r, newsz) == [m |-> r.m, sz |-> IF r.ok THEN newsz ELSE 0]
Uvmalloc(m, root, oldsz, newsz, xperm) ==
    IF newsz < oldsz THEN [m |-> m, sz |-> oldsz]
    ELSE Sized(MapFresh(m, root, Pages(oldsz), Pages(newsz),
                        [va \in Pages(oldsz) .. Pages(newsz) - 1 |-> Cleared],
                        [va \in Pages(oldsz) .. Pages(newsz) - 1 |-> {"R", "U"} \cup xperm]),
               newsz)

\* uvmdealloc().
Uvmdealloc(m, root, oldsz, newsz) ==
    IF newsz >= oldsz THEN [m |-> m, sz |-> oldsz]
    ELSE [m |-> Uvmunmap(m, root, Pages(newsz), Pages(oldsz) - Pages(newsz), TRUE),
          sz |-> newsz]

\* uvmcopy() of sz bytes, with the flags of each page.
Uvmcopy(m, old, new, sz) ==
    LET absent == \E va \in 0 .. Pages(sz) - 1 : Leaf(m, old, va)[1] # "pte"
    IN IF absent THEN [m |-> [m EXCEPT !.panic = TRUE], ok |-> FALSE]
       ELSE MapFresh(m, new, 0, Pages(sz),
                     [va \in 0 .. Pages(sz) - 1 |-> m.mem[Leaf(m, old, va)[2]]],
                     [va \in 0 .. Pages(sz) - 1 |-> Leaf(m, old, va)[3]])

\* The tables below root: freewalk()'s recursion.
Tables(m, root) ==
    LET Below(S) == {m.mem[t][i][2] : <<t, i>> \in
                        {ti \in S \X (0 .. 1) : m.mem[ti[1]][ti[2]][1] = "pte"}}
        mid == Below({root})
    IN [low |-> Below(mid), all |-> {root} \cup mid \cup Below(mid)]

\* freewalk(): a leaf that is still there is a panic.
Freewalk(m, root) ==
    LET t == Tables(m, root)
    IN [m EXCEPT
          !.panic = @ \/ (\E pa \in t.low : m.mem[pa] # Filled(Zero)) \/ t.all \cap m.free # {},
          !.mem = [pa \in Page |-> IF pa \in t.all THEN Filled(Junk) ELSE @[pa]],
          !.free = @ \cup t.all]

Uvmfree(m, root, sz) == Freewalk(Uvmunmap(m, root, 0, Pages(sz), TRUE), root)

\* proc_pagetable(): root 0 on error.
MapTrapframe(r, root) ==
    IF r.ok THEN [m |-> r.m, root |-> root]
    ELSE [m |-> Uvmfree(Uvmunmap(r.m, root, TRAMPOLINE, 1, FALSE), root, 0), root |-> 0]
MapTrampoline(r, root, tf) ==
    IF r.ok THEN MapTrapframe(MapPage(r.m, root, TRAPFRAME, tf, {"R", "W"}), root)
    ELSE [m |-> Uvmfree(r.m, root, 0), root |-> 0]
ProcPagetable(m, tf) ==
    IF ~ CanAlloc(m) THEN [m |-> m, root |-> 0]
    ELSE MapTrampoline(MapPage(Kalloc(m, Zero), Fresh(m), TRAMPOLINE, TrampolinePage, {"R", "X"}),
                       Fresh(m), tf)

ProcFreepagetable(m, root, sz) ==
    Uvmfree(Uvmunmap(Uvmunmap(m, root, TRAMPOLINE, 1, FALSE), root, TRAPFRAME, 1, FALSE),
            root, sz)

-----------------------------------------------------------------------------
Unused == [pt |-> 0, tf |-> 0, sz |-> 0]
Live == {p \in Proc : proc[p] # Unused}

Machine(k) == [mem |-> mem, free |-> free, panic |-> panic, left |-> k]
Set(m) == mem' = m.mem /\ free' = m.free /\ panic' = m.panic

\* allocproc()'s part: trapframe and page table; freeproc() when it fails.
WithPagetable(r, tf) ==
    IF r.root = 0 THEN [m |-> Kfree(r.m, tf), p |-> Unused]
    ELSE [m |-> r.m, p |-> [pt |-> r.root, tf |-> tf, sz |-> 0]]
Allocproc(m) ==
    IF ~ CanAlloc(m) THEN [m |-> m, p |-> Unused]
    ELSE WithPagetable(ProcPagetable(Kalloc(m, Junk), Fresh(m)), Fresh(m))

\* freeproc()'s part.
Freeproc(m, p) == ProcFreepagetable(Kfree(m, p.tf), p.pt, p.sz)

\* kinit(): every page is on the free list.
Kinit == [mem |-> [pa \in Page |-> Filled(Junk)], free |-> Page, panic |-> FALSE,
          left |-> Cardinality(Page)]

\* uvmfirst(): the page with initcode.
Uvmfirst(m, root) ==
    MapFresh(m, root, 0, 1, [va \in {0} |-> Filled(Data("init"))],
             [va \in {0} |-> {"R", "W", "X", "U"}])

\* userinit(): the first process.
Init ==
    LET first == CHOOSE p \in Proc : TRUE
    IN \E a \in {Allocproc(Kinit)} : \E u \in {Uvmfirst(a.m, a.p.pt)} :
        /\ calls = 0
        /\ mem = u.m.mem /\ free = u.m.free /\ panic = u.m.panic
        /\ proc = [p \in Proc |-> IF p = first THEN [a.p EXCEPT !.sz = PGSIZE] ELSE Unused]
        /\ image = [p \in Proc |-> IF p = first THEN <<Data("init"), Data("init")>> ELSE <<>>]

\* fork(), as far as memory goes.
Fork(p, c, k) ==
    /\ p \in Live /\ c \in Proc \ Live
    /\ \E a \in {Allocproc(Machine(k))} :
       IF a.p = Unused THEN Set(a.m) /\ UNCHANGED <<proc, image>>
       ELSE \E r \in {Uvmcopy(a.m, proc[p].pt, a.p.pt, proc[p].sz)} :
            IF ~ r.ok THEN Set(Freeproc(r.m, a.p)) /\ UNCHANGED <<proc, image>>
            ELSE /\ Set(r.m)
                 /\ proc' = [proc EXCEPT ![c] = [a.p EXCEPT !.sz = proc[p].sz]]
                 /\ image' = [image EXCEPT ![c] = image[p]]

\* exit() and the parent's wait().
Reap(p) ==
    /\ p \in Live /\ Cardinality(Live) > 1
    /\ Set(Freeproc(Machine(0), proc[p]))
    /\ proc' = [proc EXCEPT ![p] = Unused]
    /\ image' = [image EXCEPT ![p] = <<>>]

\* What a process sees when its memory becomes npages pages: zeros above.
Resized(img, npages) ==
    [i \in 1 .. npages * PGSIZE |-> IF i <= Len(img) THEN img[i] ELSE Zero]

\* growproc().  Addresses are uint64: below 0 is far above sz.
Grown(p, sz, n, k) ==
    IF n > 0 THEN Uvmalloc(Machine(k), proc[p].pt, sz, sz + n, {"W"})
    ELSE IF sz + n < 0 THEN [m |-> Machine(k), sz |-> sz]
    ELSE Uvmdealloc(Machine(k), proc[p].pt, sz, sz + n)

\* sbrk(n).
Sbrk(p, n, k) ==
    /\ p \in Live /\ Pages(proc[p].sz + n) <= MaxUser
    /\ \E r \in {Grown(p, proc[p].sz, n, k)} :
        /\ Set(r.m)
        /\ IF n > 0 /\ r.sz = 0 THEN UNCHANGED <<proc, image>>
           ELSE /\ proc' = [proc EXCEPT ![p].sz = r.sz]
                /\ image' = [image EXCEPT ![p] = Resized(@, Pages(r.sz))]

-----------------------------------------------------------------------------
(* copyin(), copyout() and exec().                                         *)

\* walkaddr().
UserPage(m, root, va) ==
    LET w == Leaf(m, root, va)
    IN IF va < 2 ^ 3 /\ w[1] = "pte" /\ "U" \in w[3] THEN w[2] ELSE 0

\* uvmclear(): the guard page below the stack.
Uvmclear(m, root, va) ==
    [m EXCEPT !.mem[Walk(m, root, va, FALSE).at][PX(0, va)][3] = @ \ {"U"}]

\* What copyout() checks in the PTE.
Writable(m, root, va) ==
    LET w == Leaf(m, root, va) IN w[1] = "pte" /\ {"U", "W"} \subseteq w[3]

\* copyout() of the words s to address a: page by page, until it fails.
Copyout(m, root, a, s) ==
    LET out[k \in 0 .. Len(s)] ==
          IF k = 0 THEN [m |-> m, n |-> 0]
          ELSE LET r == out[k - 1]
                   va == (a + k - 1) \div PGSIZE
               IN IF r.n = k - 1 /\ va < 2 ^ 3 /\ Writable(r.m, root, va)
                    THEN [m |-> [r.m EXCEPT
                            !.mem[Leaf(r.m, root, va)[2]][(a + k - 1) % PGSIZE] = s[k]],
                          n |-> k]
                    ELSE r
    IN out[Len(s)]

\* The words at a .. a + n - 1 as copyin() fetches them; <<>> on error.
Copyin(m, root, a, n) ==
    LET Of(i) == UserPage(m, root, (a + i - 1) \div PGSIZE)
    IN IF \E i \in 1 .. n : Of(i) = 0 THEN <<>>
       ELSE [i \in 1 .. n |-> m.mem[Of(i)][(a + i - 1) % PGSIZE]]

\* img with s stored at address a.
Stored(img, a, s) ==
    [i \in 1 .. Len(img) |-> IF i - a \in 1 .. Len(s) THEN s[i - a] ELSE img[i]]

\* write() of p and read() of q through the kernel, n words.
Transfer(p, a, q, b, n) ==
    /\ p \in Live /\ q \in Live
    /\ LET s == Copyin(Machine(0), proc[p].pt, a, n)
           r == Copyout(Machine(0), proc[q].pt, b, s)
       IN /\ s # <<>>
          /\ Set(r.m)
          /\ image' = [image EXCEPT ![q] = Stored(@, b, SubSeq(s, 1, r.n))]
    /\ UNCHANGED proc

\* The process stores v at address a, which the hardware lets it do.
Store(p, a, v) ==
    /\ p \in Live /\ Writable(Machine(0), proc[p].pt, a \div PGSIZE)
    /\ Set(Copyout(Machine(0), proc[p].pt, a, <<Data(v)>>).m)
    /\ image' = [image EXCEPT ![p] = Stored(@, a, <<Data(v)>>)]
    /\ UNCHANGED proc

\* loadseg(): the words of the file, through the physical addresses.
LoadWord(m, pa, i) ==
    IF pa = 0 THEN [m EXCEPT !.panic = TRUE] ELSE [m EXCEPT !.mem[pa][i] = Data("text")]
Loadseg(m, root, seg) ==
    LET ld[k \in 0 .. seg.filesz] ==
          IF k = 0 THEN m
          ELSE LoadWord(ld[k - 1], UserPage(ld[k - 1], root, (seg.vaddr + k - 1) \div PGSIZE),
                        (seg.vaddr + k - 1) % PGSIZE)
    IN ld[seg.filesz]

\* A program header: r is what the ones before it have come to, and u what
\* uvmalloc() returns for it.
LoadPages(r, u, root, s) ==
    IF u.sz = 0 THEN [r EXCEPT !.ok = FALSE, !.m = u.m]
    ELSE [m |-> Loadseg(u.m, root, s), sz |-> u.sz, ok |-> s.readable,
          img |-> Stored(Resized(r.img, Pages(u.sz)), s.vaddr,
                         [i \in 1 .. s.filesz |-> Data("text")])]
SegEnd(s) == (s.vaddr + s.memsz) % UINT64
BadHeader(s) ==
    s.memsz < s.filesz \/ SegEnd(s) < s.vaddr \/ s.vaddr % PGSIZE # 0
LoadHeader(r, root, s) ==
    IF ~ r.ok THEN r
    ELSE IF BadHeader(s) THEN [r EXCEPT !.ok = FALSE]
    ELSE LoadPages(r, Uvmalloc(r.m, root, r.sz, SegEnd(s), s.perm), root, s)

\* The program headers in turn, until one is bad or memory runs out.
Loaded(m, root, prog) ==
    LET seg[k \in 0 .. Len(prog)] ==
          IF k = 0 THEN [m |-> m, sz |-> 0, ok |-> TRUE, img |-> <<>>]
          ELSE LoadHeader(seg[k - 1], root, prog[k])
    IN seg[Len(prog)]

\* exec() of a program with nargs words of arguments, which sys_exec() keeps
\* in a page meanwhile: the old image goes only when nothing can fail any more.
ExecFails(m, buf) == Set(Kfree(m, buf)) /\ UNCHANGED <<proc, image>>

\* The last part: st is the stack, whose lower page becomes the guard.
ExecStack(p, nargs, buf, root, img, st) ==
    \E sp \in {st.sz - nargs}, va \in {(st.sz \div PGSIZE) - 2} :
    \E clr \in {Uvmclear(st.m, root, va)} :
    \E out \in {Copyout(clr, root, sp, [i \in 1 .. nargs |-> Data("arg")])} :
        IF sp < st.sz - PGSIZE \/ out.n < nargs
          THEN ExecFails(ProcFreepagetable(out.m, root, st.sz), buf)
          ELSE /\ Set(Kfree(ProcFreepagetable(out.m, proc[p].pt, proc[p].sz), buf))
               /\ proc' = [proc EXCEPT ![p].pt = root, ![p].sz = st.sz]
               /\ image' = [image EXCEPT ![p] =
                    Stored(Resized(img, Pages(st.sz)), sp, [i \in 1 .. nargs |-> Data("arg")])]

\* The first part: a page table, the segments, two pages for the stack.
Exec(p, prog, nargs, k) ==
    /\ p \in Live
    /\ \/ /\ ~ CanAlloc(Machine(k))
          /\ UNCHANGED <<mem, free, panic, proc, image>>
       \/ /\ CanAlloc(Machine(k))
          /\ \E buf \in {Fresh(Machine(k))},
                new \in {ProcPagetable(Kalloc(Machine(k), Data("arg")), proc[p].tf)} :
             IF new.root = 0 THEN ExecFails(new.m, buf)
             ELSE \E ld \in {Loaded(new.m, new.root, prog)} :
             IF ~ ld.ok THEN ExecFails(ProcFreepagetable(ld.m, new.root, ld.sz), buf)
             ELSE \E base \in {PGROUNDUP(ld.sz)} :
                  \E st \in {Uvmalloc(ld.m, new.root, base, base + 2 * PGSIZE, {"W"})} :
             IF st.sz = 0 THEN ExecFails(ProcFreepagetable(st.m, new.root, base), buf)
             ELSE ExecStack(p, nargs, buf, new.root, ld.img, st)

-----------------------------------------------------------------------------
Call ==
    \/ \E p \in Proc : Reap(p)
    \/ \E p, c \in Proc, k \in 0 .. Cardinality(free) : Fork(p, c, k)
    \/ \E p \in Proc, n \in Increment, k \in 0 .. Cardinality(free) : Sbrk(p, n, k)
    \/ \E p, q \in Proc, a, b \in Addr : Transfer(p, a, q, b, 2)
    \/ \E p \in Proc, a \in Addr : Store(p, a, "new")
    \/ \E p \in Proc, prog \in Programs, n \in {1, 3}, k \in 0 .. Cardinality(free) :
           Exec(p, prog, n, k)

Next == calls < MaxCalls /\ calls' = calls + 1 /\ Call

Spec == Init /\ [][Next]_vars

-----------------------------------------------------------------------------
(* Properties.                                                             *)

UserPages(p) == {Leaf(Machine(0), proc[p].pt, va)[2] : va \in 0 .. Pages(proc[p].sz) - 1}
Owned(p) == Tables(Machine(0), proc[p].pt).all \cup UserPages(p) \cup {proc[p].tf}

\* Every page is on the free list or belongs to one process, as a page-table
\* page, as its trapframe or as one page of its memory: none is lost or freed
\* twice when fork(), sbrk() or exec() run out of memory half-way, and no
\* panic() of vm.c or kalloc.c is reached.
PagesOwned ==
    /\ ~ panic
    /\ \A p, q \in Live : p # q => Owned(p) \cap Owned(q) = {}
    /\ \A p \in Live :
        /\ Owned(p) \cap free = {}
        /\ Cardinality(Owned(p)) = Pages(proc[p].sz) + 1 +
               Cardinality(Tables(Machine(0), proc[p].pt).all)
    /\ free \cup UNION {Owned(p) : p \in Live} = Page

\* The pages below sz hold what the process put there, exec() loaded or
\* fork() copied, and zeros where it grew; nobody else's stores show, and
\* nothing of what the page held before.
PrivateMemory ==
    \A p \in Live :
        /\ Len(image[p]) = Pages(proc[p].sz) * PGSIZE
        /\ \A i \in 1 .. Len(image[p]) :
             mem[Leaf(Machine(0), proc[p].pt, (i - 1) \div PGSIZE)[2]][(i - 1) % PGSIZE]
                 = image[p][i]

=============================================================================
