----------------------------- MODULE FileTable ------------------------------
(***************************************************************************)
(* struct file, file descriptors and what they keep open: filealloc(),     *)
(* filedup() and fileclose() of kernel/file.c under open(), pipe(), dup(), *)
(* close(), fork() and exit() of several processes.                        *)
(*                                                                         *)
(* Each acquire(&ftable.lock) section is a step, and so is what            *)
(* fileclose() does to the pipe or inode after it has released the lock.   *)
(***************************************************************************)
EXTENDS Naturals, Sequences, FiniteSets

CONSTANTS
    Proc,    \* processes
    initproc,\* the one that never exits
    NOFILE,  \* descriptors of a process
    NFILE,   \* entries of ftable
    Pipe,    \* pages that can hold a struct pipe
    Inode    \* inodes that are opened

File == 1 .. NFILE
Fd == 1 .. NOFILE
None == 0

VARIABLES
    file,   \* ftable.file: ref, type, writable and the pipe or inode
    ofile,  \* p->ofile
    live,   \* the processes there are
    pipe,   \* struct pipe: the ends that are open; {} when the page is free
    iref,   \* references to an inode that files and calls to open() hold
    pc,     \* per process: where it is
    arg,    \* the inode open() has
    held,   \* files its call has allocated or is dup()ing, not in ofile
    todo,   \* files to fileclose(), in order
    ff      \* fileclose()'s copy of the file, until the object is closed

vars == <<file, ofile, live, pipe, iref, pc, arg, held, todo, ff>>

NoFile == [ref |-> 0, type |-> "none", writable |-> FALSE, obj |-> None]

Init ==
    /\ file = [f \in File |-> NoFile]
    /\ ofile = [p \in Proc |-> [d \in Fd |-> None]]
    /\ live = {initproc}
    /\ pipe = [q \in Pipe |-> {}] /\ iref = [i \in Inode |-> 0]
    /\ pc = [p \in Proc |-> "user"] /\ arg = [p \in Proc |-> None]
    /\ held = [p \in Proc |-> <<>>] /\ todo = [p \in Proc |-> <<>>]
    /\ ff = [p \in Proc |-> NoFile]

Lowest(S) == CHOOSE x \in S : \A y \in S : x <= y
FreeFiles == {f \in File : file[f].ref = 0}
FreeFds(p) == {d \in Fd : ofile[p][d] = None}

\* argfd(): d is an open descriptor.
Argfd(p, d) == ofile[p][d] # None

At(p, l) == p \in live /\ pc[p] = l /\ todo[p] = <<>> /\ ff[p] = NoFile
Goto(p, l) == pc' = [pc EXCEPT ![p] = l]
Hold(p, s) == held' = [held EXCEPT ![p] = s]
Todo(p, s) == todo' = [todo EXCEPT ![p] = s]

-----------------------------------------------------------------------------
(* filealloc() and fileclose().                                            *)

\* filealloc(): f->type is what fileclose() left there.
Filealloc(f) == file' = [file EXCEPT ![f].ref = 1]

\* Mutant of LastClosed: the type stays.
LastClosedTyped(f) == [f EXCEPT !.ref = 0]

\* fileclose() of the last reference: f->ref = 0, f->type = FD_NONE. Nothing
\* reads the other fields of a file that has no type.
LastClosed(f) == NoFile

\* The part of fileclose() under ftable.lock; ref < 1 would be a panic.
CloseRef(p) ==
    /\ p \in live /\ ff[p] = NoFile /\ todo[p] # <<>>
    /\ LET f == Head(todo[p]) IN
       /\ file[f].ref >= 1
       /\ IF file[f].ref > 1
            THEN file' = [file EXCEPT ![f].ref = @ - 1] /\ UNCHANGED ff
            ELSE /\ ff' = [ff EXCEPT ![p] = file[f]]
                 /\ file' = [file EXCEPT ![f] = LastClosed(@)]
    /\ Todo(p, Tail(todo[p]))
    /\ UNCHANGED <<ofile, live, pipe, iref, pc, held, arg>>

\* The rest of fileclose(): pipeclose() of one end, or iput().
CloseObj(p) ==
    /\ p \in live /\ ff[p] # NoFile
    /\ ff' = [ff EXCEPT ![p] = NoFile]
    /\ pipe' = IF ff[p].type # "pipe" THEN pipe
               ELSE [pipe EXCEPT ![ff[p].obj] = @ \ {ff[p].writable}]
    /\ iref' = IF ff[p].type # "inode" THEN iref
               ELSE [iref EXCEPT ![ff[p].obj] = @ - 1]
    /\ UNCHANGED <<file, ofile, live, pc, held, todo, arg>>

-----------------------------------------------------------------------------
(* open() and pipe().                                                      *)

\* open(): namei() has the inode; filealloc().
Open(p, i) ==
    /\ At(p, "user") /\ FreeFiles # {}
    /\ Filealloc(Lowest(FreeFiles))
    /\ Hold(p, <<Lowest(FreeFiles)>>)
    /\ iref' = [iref EXCEPT ![i] = @ + 1]
    /\ Goto(p, "open") /\ arg' = [arg EXCEPT ![p] = i]
    /\ UNCHANGED <<ofile, live, pipe, todo, ff>>

\* fdalloc(), and the fields of the file; or fileclose() and iunlockput().
OpenFd(p) ==
    /\ At(p, "open")
    /\ LET f == held[p][1]
           i == arg[p] IN
       IF FreeFds(p) # {}
         THEN /\ ofile' = [ofile EXCEPT ![p][Lowest(FreeFds(p))] = f]
              /\ file' = [file EXCEPT ![f].type = "inode", ![f].obj = i,
                                      ![f].writable = FALSE]
              /\ UNCHANGED <<iref, todo>>
         ELSE /\ Todo(p, <<f>>)
              /\ iref' = [iref EXCEPT ![i] = @ - 1]
              /\ UNCHANGED <<ofile, file>>
    /\ Hold(p, <<>>) /\ Goto(p, "user") /\ arg' = [arg EXCEPT ![p] = None]
    /\ UNCHANGED <<live, pipe, ff>>

\* pipealloc(): the two filealloc()s; the first is closed if there is no
\* second.
PipeFile(p) ==
    /\ At(p, "user") \/ At(p, "pipe")
    /\ FreeFiles # {}
    /\ Filealloc(Lowest(FreeFiles))
    /\ Hold(p, Append(held[p], Lowest(FreeFiles)))
    /\ Goto(p, IF pc[p] = "user" THEN "pipe" ELSE "pipe_page")
    /\ UNCHANGED <<ofile, live, pipe, iref, todo, ff, arg>>

PipeFail(p) ==
    /\ \/ At(p, "pipe") /\ FreeFiles = {}
       \/ At(p, "pipe_page")    \* kalloc() fails
    /\ Todo(p, held[p]) /\ Hold(p, <<>>) /\ Goto(p, "user")
    /\ UNCHANGED <<file, ofile, live, pipe, iref, ff, arg>>

\* kalloc() and the fields of pipe and files.
PipePage(p) ==
    /\ At(p, "pipe_page")
    /\ \E q \in Pipe :
        /\ pipe[q] = {}
        /\ pipe' = [pipe EXCEPT ![q] = BOOLEAN]
        /\ file' = [file EXCEPT
               ![held[p][1]] = [@ EXCEPT !.type = "pipe", !.obj = q, !.writable = FALSE],
               ![held[p][2]] = [@ EXCEPT !.type = "pipe", !.obj = q, !.writable = TRUE]]
    /\ Goto(p, "pipe_fds")
    /\ UNCHANGED <<ofile, live, iref, held, todo, ff, arg>>

\* sys_pipe(): two fdalloc()s and the copyout()s; all or nothing.
PipeFds(p) ==
    /\ At(p, "pipe_fds") /\ Cardinality(FreeFds(p)) >= 2
    /\ LET d == Lowest(FreeFds(p))
           e == Lowest(FreeFds(p) \ {d})
       IN ofile' = [ofile EXCEPT ![p][d] = held[p][1], ![p][e] = held[p][2]]
    /\ Hold(p, <<>>) /\ Goto(p, "user")
    /\ UNCHANGED <<file, live, pipe, iref, todo, ff, arg>>

PipeUndo(p) ==
    /\ At(p, "pipe_fds")
    /\ Todo(p, held[p]) /\ Hold(p, <<>>) /\ Goto(p, "user")
    /\ UNCHANGED <<file, ofile, live, pipe, iref, ff, arg>>

-----------------------------------------------------------------------------
(* dup(), close(), fork() and exit().                                      *)

\* sys_dup(): fdalloc() publishes the file before filedup() counts it.
Dup(p, d) ==
    /\ At(p, "user") /\ Argfd(p, d) /\ FreeFds(p) # {}
    /\ ofile' = [ofile EXCEPT ![p][Lowest(FreeFds(p))] = ofile[p][d]]
    /\ Hold(p, <<ofile[p][d]>>) /\ Goto(p, "dup")
    /\ UNCHANGED <<file, live, pipe, iref, todo, ff, arg>>

\* filedup(): ref < 1 would be a panic.
Filedup(p) ==
    /\ At(p, "dup") /\ file[held[p][1]].ref >= 1
    /\ file' = [file EXCEPT ![held[p][1]].ref = @ + 1]
    /\ Hold(p, <<>>) /\ Goto(p, "user")
    /\ UNCHANGED <<ofile, live, pipe, iref, todo, ff, arg>>

Close(p, d) ==
    /\ At(p, "user") /\ Argfd(p, d)
    /\ ofile' = [ofile EXCEPT ![p][d] = None]
    /\ Todo(p, <<ofile[p][d]>>)
    /\ UNCHANGED <<file, live, pipe, iref, pc, held, ff, arg>>

\* Mutant of Dups: a file the parent has twice is counted once.
DupsOnce(p, f) == IF \E d \in Fd : ofile[p][d] = f THEN 1 ELSE 0

\* fork()'s filedup()s of f.
Dups(p, f) == Cardinality({d \in Fd : ofile[p][d] = f})

Fork(p, c) ==
    /\ At(p, "user") /\ c \in Proc \ live
    /\ file' = [f \in File |-> [file[f] EXCEPT !.ref = @ + Dups(p, f)]]
    /\ ofile' = [ofile EXCEPT ![c] = ofile[p]]
    /\ live' = live \cup {c}
    /\ UNCHANGED <<pipe, iref, pc, held, todo, ff, arg>>

\* exit() closes every descriptor, and is gone when that is done.
Exit(p) ==
    /\ At(p, "user") /\ p # initproc
    /\ LET open == SelectSeq([d \in Fd |-> ofile[p][d]], LAMBDA f : f # None)
       IN Todo(p, open)
    /\ ofile' = [ofile EXCEPT ![p] = [d \in Fd |-> None]]
    /\ Goto(p, "exit")
    /\ UNCHANGED <<file, live, pipe, iref, held, ff, arg>>

Exited(p) ==
    /\ At(p, "exit")
    /\ live' = live \ {p} /\ Goto(p, "user")
    /\ UNCHANGED <<file, ofile, pipe, iref, held, todo, ff, arg>>

Next ==
    \E p \in Proc :
        \/ CloseRef(p) \/ CloseObj(p) \/ OpenFd(p) \/ PipeFile(p) \/ PipeFail(p) \/ PipePage(p)
        \/ PipeFds(p) \/ PipeUndo(p) \/ Filedup(p) \/ Exit(p) \/ Exited(p)
        \/ \E i \in Inode : Open(p, i)
        \/ \E d \in Fd : Dup(p, d) \/ Close(p, d)
        \/ \E c \in Proc : Fork(p, c)

Spec == Init /\ [][Next]_vars

-----------------------------------------------------------------------------
(* Properties.                                                             *)

InSeq(s, f) == Cardinality({k \in DOMAIN s : s[k] = f})

\* f->ref is the number of descriptors of all processes that hold f, and of
\* the calls that have allocated it or are about to close it (less a dup()
\* that has not counted yet), so that no panic of filedup() or fileclose()
\* is reached and a file is reused when, and only when, nobody has it.
FileRefs ==
    \A f \in File :
        /\ file[f].ref + Cardinality({p \in live : pc[p] = "dup" /\ held[p] = <<f>>}) =
             Cardinality({pd \in live \X Fd : ofile[pd[1]][pd[2]] = f})
             + Cardinality({p \in live : pc[p] # "dup" /\ InSeq(held[p], f) > 0})
             + Cardinality({pk \in live \X (1 .. NOFILE) :
                   pk[2] \in DOMAIN todo[pk[1]] /\ todo[pk[1]][pk[2]] = f})
        /\ \A p \in live : pc[p] = "dup" /\ held[p] = <<f>> => file[f].ref >= 1

\* A pipe end is open while a file for it is open or being closed, and an
\* inode is held once for each file open on it and each call of open(): each
\* is closed exactly once, also when open() or pipe() fail half-way and the
\* file they give back has been used for something else before.
ObjectsHeld ==
    LET Opened(type, o) == {f \in File : file[f].ref > 0 /\ file[f].type = type /\ file[f].obj = o}
        Closing(type, o) == {p \in live : ff[p].type = type /\ ff[p].obj = o}
    IN /\ \A q \in Pipe, w \in BOOLEAN :
             (w \in pipe[q]) <=> \/ \E f \in Opened("pipe", q) : file[f].writable = w
                                 \/ \E p \in Closing("pipe", q) : ff[p].writable = w
       /\ \A i \in Inode :
             iref[i] = Cardinality(Opened("inode", i)) + Cardinality(Closing("inode", i))
                       + Cardinality({p \in live : pc[p] = "open" /\ arg[p] = i})

=============================================================================
