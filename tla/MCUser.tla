------------------------------- MODULE MCUser -------------------------------
(***************************************************************************)
(* What user programs stand on: their memory, the heap of malloc(), the    *)
(* shell, sleep() and the date; and two of the programs, grep and wc. They *)
(* share no state and are explored one at a time: part is the one that     *)
(* runs.                                                                   *)
(***************************************************************************)
EXTENDS Shell

CONSTANTS Page, Proc, Programs, Addr, Increment, MaxCalls, MaxUser

VARIABLES part, mem, free, vm_proc, calls, panic, image, heap, given, owned, year, month, first,
    ticks, tickslock, tpc, tn, ticks0, tkilled, gone,
    tool, text, pat, pos, buf, out, count, ended

-----------------------------------------------------------------------------
(* Memory: ELF files that load, have two segments, have one that cannot be *)
(* read, are malformed, or have one whose end wraps around.                *)

Seg(v, m, f, ok) == [vaddr |-> v, memsz |-> m, filesz |-> f, perm |-> {"X"}, readable |-> ok]
MCPrograms == {<<Seg(0, 3, 2, TRUE)>>, <<Seg(2, 2, 2, TRUE), Seg(0, 2, 1, TRUE)>>,
               <<Seg(0, 1, 1, TRUE), Seg(2, 1, 1, FALSE)>>, <<Seg(0, 1, 2, TRUE)>>,
               <<Seg(2, 63, 1, TRUE)>>}

MCIncrement == {-3, -1, 1, 3}

Mem == INSTANCE Vm WITH proc <- vm_proc

-----------------------------------------------------------------------------
(* Shell: the lines for all commands of up to two operators, some of which *)
(* need parentheses, and some lines that mean nothing.                     *)

Prog == EXEC(1)
Simple == {EXEC(0), EXEC(2), Redirected(Prog, "<", "f"),
           Redirected(Redirected(Prog, ">", "f"), ">>", "g")}
Pairs(S, T) == {PIPE(l, r) : l \in S, r \in T} \cup {LIST(l, r) : l \in S, r \in T}
Over(S) == {BACK(c) : c \in S} \cup {Redirected(c, ">", "f") : c \in S}
Once == Pairs(Simple, {Prog}) \cup Pairs({Prog}, Simple) \cup {BACK(c) : c \in Simple}
Trees == Once \cup Over(Once) \cup Pairs(Once, {Prog}) \cup Pairs({Prog}, Once)

BadLines == {<<"word", "&", "word">>, <<"(", "word">>, <<"word", "(">>, <<"word", "|", "<">>,
             <<"word", "word", "word">>, <<"word", ")">>}
MCLines == {<<Unparse(c, 0), c>> : c \in Trees} \cup {<<l, Bad>> : l \in BadLines}

Heap == INSTANCE Umalloc WITH HeapStart <- 2, HeapEnd <- 14, MinCore <- 4, Sizes <- {2, 3, 5}
Cal == INSTANCE Calendar WITH LastYear <- 2110
Timer == INSTANCE Clock WITH
    Thread <- {1, 2}, Nobody <- 0, UintBits <- 3, MaxSleep <- 2, MaxLag <- 1,
    pc <- tpc, n <- tn, killed <- tkilled

-----------------------------------------------------------------------------
(* Filters: texts of up to four letters, and patterns of up to two items.  *)

MCTexts == UNION {[1 .. n -> {"a", " ", "\n"}] : n \in 0 .. 4}
Item == [c : {"a", "."}, star : BOOLEAN]
MCPatterns == [bol : BOOLEAN, items : UNION {[1 .. n -> Item] : n \in 0 .. 2}, eol : BOOLEAN]

Filter == INSTANCE Filters WITH Texts <- MCTexts, Patterns <- MCPatterns, BUFSIZE <- 4

memVars == <<mem, free, vm_proc, calls, panic, image>>
heapVars == <<heap, given, owned>>
calVars == <<year, month, first>>
timeVars == <<ticks, tickslock, tpc, tn, ticks0, tkilled, gone>>
filterVars == <<tool, text, pat, pos, buf, out, count, ended>>

-----------------------------------------------------------------------------
UserInit ==
    /\ part \in {"memory", "shell", "heap", "date", "clock", "filter"}
    /\ IF part = "shell" THEN TRUE ELSE line = CHOOSE l \in MCLines : TRUE
    /\ IF part = "filter" THEN TRUE ELSE tool = "wc" /\ text = <<>>
    /\ Init /\ Mem!Init /\ Heap!Init /\ Cal!Init /\ Timer!Init /\ Filter!Init

ShellStep == part = "shell" /\ Next /\ UNCHANGED <<part, memVars, heapVars, calVars, timeVars, filterVars>>

UserNext ==
    \/ part = "memory" /\ Mem!Next /\ UNCHANGED <<part, vars, heapVars, calVars, timeVars, filterVars>>
    \/ ShellStep
    \/ part = "heap" /\ Heap!Next /\ UNCHANGED <<part, memVars, vars, calVars, timeVars, filterVars>>
    \/ part = "date" /\ Cal!Next /\ UNCHANGED <<part, memVars, vars, heapVars, timeVars, filterVars>>
    \/ part = "clock" /\ Timer!Next /\ UNCHANGED <<part, memVars, vars, heapVars, calVars, filterVars>>
    \/ part = "filter" /\ Filter!Next /\ UNCHANGED <<part, memVars, vars, heapVars, calVars, timeVars>>

\* As long as one of the shell's processes can go on, one of them does.
UserSpec ==
    /\ UserInit /\ [][UserNext]_<<part, memVars, vars, heapVars, calVars, timeVars, filterVars>>
    /\ WF_vars(ShellStep)

\* Memory: every page is free or belongs to one process.
PagesOwned == Mem!PagesOwned

\* Memory: a process finds in its pages what it has put there.
PrivateMemory == Mem!PrivateMemory

\* Shell: it gets back to its prompt.
ShellReturns == part = "shell" => PromptReturns

\* Heap: blocks are neither lost nor given twice.
HeapTiled == Heap!HeapTiled

\* Date: the conversion agrees with the calendar.
DateIsRight == Cal!DateIsRight

\* Clock: sys_sleep(n) does not return 0 before n ticks have gone by, and does
\* not sleep on when they have.
SleepExact == Timer!SleepExact

\* Filters: the output does not depend on how read() cuts up the text.
FilterOutput == Filter!FilterOutput

=============================================================================
