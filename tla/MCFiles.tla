------------------------------ MODULE MCFiles -------------------------------
(***************************************************************************)
(* What a file descriptor leads to: the file table, the contents of files, *)
(* console input, console output and a pipe.  They share no state and are  *)
(* explored one at a time: part is the one that runs.  Each module states  *)
(* what its part promises.                                                 *)
(***************************************************************************)
EXTENDS Files, Console, Uart, Pipe

VARIABLES part, file, ofile, live, pipe, iref, pc, arg, held, todo, ff

Tab == INSTANCE FileTable WITH
    initproc <- 1, NOFILE <- 2, NFILE <- 3, Pipe <- {1}, Inode <- {1}

tabVars == <<file, ofile, live, pipe, iref, pc, arg, held, todo, ff>>

\* A file that reaches into its indirect block's range, and two empty ones;
\* the root directory has five entries, in three blocks and an indirect one.
MCImages == {<<3, 0, 0>>}

\* Both processes write inode 2 at one offset; one truncates it, the other
\* reads it, and competes for blocks with inode 3.
MCCalls == << {<<"write", 2>>, <<"trunc", 2>>},
              {<<"read", 2>>, <<"write", 2>>, <<"write", 3>>} >>

MCInit ==
    /\ part \in {"contents", "table", "console", "uart", "pipe"}
    /\ Init /\ Tab!Init /\ ConsInit /\ UartInit /\ PipeInit

streamVars == <<consVars, uartVars, pipeVars>>

MCNext ==
    /\ UNCHANGED part
    /\ \/ part = "contents" /\ Next /\ UNCHANGED <<tabVars, streamVars>>
       \/ part = "table" /\ Tab!Next /\ UNCHANGED <<vars, streamVars>>
       \/ /\ UNCHANGED <<vars, tabVars>>
          /\ \/ part = "console" /\ ConsNext /\ UNCHANGED <<uartVars, pipeVars>>
             \/ part = "uart" /\ UartNext /\ UNCHANGED <<consVars, pipeVars>>
             \/ part = "pipe" /\ PipeNext /\ UNCHANGED <<consVars, uartVars>>

MCSpec == MCInit /\ [][MCNext]_<<part, vars, tabVars, streamVars>>

\* File table: f->ref counts the holders of a file.
FileRefs == Tab!FileRefs

\* File table: pipe ends and inodes are closed exactly once.
ObjectsHeld == Tab!ObjectsHeld

=============================================================================
