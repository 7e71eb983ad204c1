------------------------------- MODULE Shell --------------------------------
(***************************************************************************)
(* The shell, user/sh.c: a line of tokens is parsed by a child of the      *)
(* shell, which then runs the command tree with fork(), pipe(), dup(),     *)
(* close(), open(), exec() and wait(). A program that was started reads    *)
(* its standard input to the end and exits; user/init.c reaps orphans.     *)
(*                                                                         *)
(* A process is named by the place in the tree for which it was forked, a  *)
(* pipe by the place of its PIPE command.                                  *)
(***************************************************************************)
EXTENDS ShellParse, SequencesExt

CONSTANT
    Lines    \* pairs of a line and the command tree it means (Bad: none)

VARIABLES
    line,    \* the pair the shell is at; its tree is what was meant
    sh,      \* "prompt", "wait" or "done"
    proc     \* the processes: place -> what it does

vars == <<line, sh, proc>>

\* The command of every line, evaluated once.
Meaning == [l \in {pair[1] : pair \in Lines} |-> parsecmd(l)]

-----------------------------------------------------------------------------
(* Descriptors.                                                            *)

Closed == <<"none">>
Console == <<"console">>
Fd == 0 .. 4
StdFds == [d \in Fd |-> IF d < 3 THEN Console ELSE Closed]

close(fds, d) == [fds EXCEPT ![d] = Closed]
Lowest(fds) == CHOOSE d \in Fd : fds[d] = Closed /\ \A e \in Fd : e < d => fds[e] # Closed
open(fds, o) == [fds EXCEPT ![Lowest(fds)] = o]

\* pipe(p) for the PIPE command at a place: always descriptors 3 and 4 here.
pipe(fds, at) == open(open(fds, <<"read", at>>), <<"write", at>>)

\* Mutant of Plumb: the ends of the pipe stay open beside the duplicate.
PlumbOnly(fds, std, end) == open(close(fds, std), fds[end])

\* What the two children of a PIPE do before runcmd(): close(std), dup() of
\* their end, close() of both ends.
Plumb(fds, std, end) == close(close(open(close(fds, std), fds[end]), 3), 4)

-----------------------------------------------------------------------------
(* Processes.                                                              *)

New(c, at, pc, fds, parent) ==
    [cmd |-> c, at |-> at, pc |-> pc, fds |-> fds, parent |-> parent, left |-> 0]

Init == \E l \in Lines : line = l /\ sh = "prompt" /\ proc = <<>>

Live == {x \in DOMAIN proc : proc[x].pc # "zombie"}
At(x, pc, type) == proc[x].pc = pc /\ proc[x].cmd.type = type

\* exit(): descriptors are closed and children handed to init.
ExitIn(ps, x) ==
    [y \in DOMAIN ps |->
        IF y = x THEN [ps[y] EXCEPT !.pc = "zombie", !.fds = [d \in Fd |-> Closed]]
        ELSE IF ps[y].parent = x THEN [ps[y] EXCEPT !.parent = <<"init">>]
        ELSE ps[y]]

Exit(x) == proc' = ExitIn(proc, x)
Become(x, r) == proc' = [proc EXCEPT ![x] = r]
Fork(x, r, y, child) ==
    proc' = [z \in DOMAIN proc \cup {y} |->
                 IF z = y THEN child ELSE IF z = x THEN r ELSE proc[z]]

\* main(): fork1(), and the child parses the line; or fork1() fails, and
\* panic() ends the shell.
ReadLine ==
    /\ sh = "prompt"
    /\ \/ /\ sh' = "wait"
          /\ proc' = (<<"line">> :> New(Bad, <<"line">>, "parse", StdFds, <<"sh">>))
       \/ sh' = "done" /\ UNCHANGED proc
    /\ UNCHANGED line

Parse(x) ==
    /\ proc[x].pc = "parse"
    /\ LET c == Meaning[line[1]]
       IN IF c = Bad THEN Exit(x) ELSE Become(x, [proc[x] EXCEPT !.cmd = c, !.pc = "run"])
    /\ UNCHANGED <<line, sh>>

\* EXEC: the program, or nothing when there is none or exec() fails.
RunExec(x) ==
    /\ At(x, "run", "exec")
    /\ \/ proc[x].cmd.argc > 0 /\ Become(x, [proc[x] EXCEPT !.pc = "program"])
       \/ Exit(x)
    /\ UNCHANGED <<line, sh>>

\* REDIR: close(), then open(), which may fail.
RunRedir(x) ==
    /\ At(x, "run", "redir")
    /\ LET r == proc[x] IN
       \/ Become(x, [r EXCEPT !.fds = open(close(@, r.cmd.fd), r.cmd.file),
                              !.at = Append(@, "redir"), !.cmd = @.cmd])
       \/ Exit(x)
    /\ UNCHANGED <<line, sh>>

\* Mutant of RunList: no wait().
RunListOn(x) ==
    /\ At(x, "run", "list")
    /\ LET r == proc[x]
           y == Append(r.at, "list_l")
       IN Fork(x, [r EXCEPT !.at = Append(@, "list_r"), !.cmd = @.right], y,
               New(r.cmd.left, y, "run", r.fds, x))
    /\ UNCHANGED <<line, sh>>

\* LIST and BACK: fork1() of a child; LIST then waits, BACK exits.
RunList(x) ==
    /\ At(x, "run", "list")
    /\ LET r == proc[x]
           y == Append(r.at, "list_l")
       IN Fork(x, [r EXCEPT !.pc = "wait", !.left = 1], y, New(r.cmd.left, y, "run", r.fds, x))
    /\ UNCHANGED <<line, sh>>

RunBack(x) ==
    /\ At(x, "run", "back")
    /\ LET r == proc[x]
           y == Append(r.at, "back")
       IN Fork(x, [r EXCEPT !.pc = "exit"], y, New(r.cmd.cmd, y, "run", r.fds, x))
    /\ UNCHANGED <<line, sh>>

\* PIPE: pipe() and the fork1() of the left side, then of the right side,
\* then the close()s of the parent.
RunPipe(x) ==
    /\ At(x, "run", "pipe")
    /\ LET r == proc[x]
           y == Append(r.at, "pipe_l")
           fds == pipe(r.fds, r.at)
       IN Fork(x, [r EXCEPT !.pc = "pipe", !.fds = fds], y,
               New(r.cmd.left, y, "run", Plumb(fds, 1, 4), x))
    /\ UNCHANGED <<line, sh>>

PipeRight(x) ==
    /\ proc[x].pc = "pipe"
    /\ LET r == proc[x]
           y == Append(r.at, "pipe_r")
       IN Fork(x, [r EXCEPT !.pc = "close"], y,
               New(r.cmd.right, y, "run", Plumb(r.fds, 0, 3), x))
    /\ UNCHANGED <<line, sh>>

\* Mutant of PipeClose: the parent waits with the pipe open.
PipeCloseNot(x) ==
    /\ proc[x].pc = "close"
    /\ Become(x, [proc[x] EXCEPT !.pc = "wait", !.left = 2])
    /\ UNCHANGED <<line, sh>>

PipeClose(x) ==
    /\ proc[x].pc = "close"
    /\ Become(x, [proc[x] EXCEPT !.pc = "wait", !.left = 2, !.fds = close(close(@, 3), 4)])
    /\ UNCHANGED <<line, sh>>

\* pipe() or fork1() fails: panic().
Panic(x) ==
    /\ \/ proc[x].pc = "pipe"
       \/ \E t \in {"list", "back", "pipe"} : At(x, "run", t)
    /\ Exit(x)
    /\ UNCHANGED <<line, sh>>

\* After the last wait() a LIST runs its right side, a PIPE exits.
Waited(r) ==
    IF r.left > 1 THEN [r EXCEPT !.left = @ - 1]
    ELSE IF r.cmd.type = "list"
    THEN [r EXCEPT !.left = 0, !.pc = "run", !.at = Append(@, "list_r"), !.cmd = @.right]
    ELSE [r EXCEPT !.left = 0, !.pc = "exit"]

\* wait(): any child that has exited.
Wait(x) ==
    /\ proc[x].pc = "wait"
    /\ \E y \in DOMAIN proc :
        /\ proc[y].pc = "zombie" /\ proc[y].parent = x
        /\ proc' = [z \in DOMAIN proc \ {y} |-> IF z = x THEN Waited(proc[x]) ELSE proc[z]]
    /\ UNCHANGED <<line, sh>>

RunExit(x) == proc[x].pc = "exit" /\ Exit(x) /\ UNCHANGED <<line, sh>>

\* A program reads its standard input until end of file, which a pipe gives
\* when no process has its write end open.
ProgramExit(x) ==
    /\ proc[x].pc = "program"
    /\ LET in == proc[x].fds[0]
       IN in[1] = "read" => \A y \in Live, d \in Fd : proc[y].fds[d] # <<"write", in[2]>>
    /\ Exit(x)
    /\ UNCHANGED <<line, sh>>

\* wait(0) in the shell, and in init.
ShellWait ==
    /\ sh = "wait"
    /\ \E y \in DOMAIN proc :
        /\ proc[y].pc = "zombie" /\ proc[y].parent = <<"sh">>
        /\ proc' = [z \in DOMAIN proc \ {y} |-> proc[z]]
    /\ sh' = "done"
    /\ UNCHANGED line

InitWait ==
    /\ \E y \in DOMAIN proc :
        /\ proc[y].pc = "zombie" /\ proc[y].parent = <<"init">>
        /\ proc' = [z \in DOMAIN proc \ {y} |-> proc[z]]
    /\ UNCHANGED <<line, sh>>

\* One line is followed to its end, and nothing happens after that.
Step(x) ==
    \/ Parse(x) \/ RunExec(x) \/ RunRedir(x) \/ RunList(x) \/ RunBack(x) \/ RunPipe(x)
    \/ PipeRight(x) \/ PipeClose(x) \/ Panic(x) \/ Wait(x) \/ RunExit(x) \/ ProgramExit(x)

Next == ReadLine \/ ShellWait \/ InitWait \/ \E x \in DOMAIN proc : Step(x)

\* Every process goes on.
Spec == Init /\ [][Next]_vars /\ WF_vars(Next)

-----------------------------------------------------------------------------
(* Properties.                                                             *)

\* The programs of a tree with their standard input and output: the
\* redirection next to the program counts, then the nearest pipe.
RECURSIVE Wires(_, _, _, _)
Wires(c, at, in, out) ==
    CASE c.type = "bad" -> {}
      [] c.type = "exec" -> IF c.argc = 0 THEN {} ELSE {<<at, in, out>>}
      [] c.type = "redir" -> Wires(c.cmd, Append(at, "redir"),
                                   IF c.fd = 0 THEN c.file ELSE in,
                                   IF c.fd = 1 THEN c.file ELSE out)
      [] c.type = "pipe" -> Wires(c.left, Append(at, "pipe_l"), in, <<"write", at>>)
                            \cup Wires(c.right, Append(at, "pipe_r"), <<"read", at>>, out)
      [] c.type = "list" -> Wires(c.left, Append(at, "list_l"), in, out)
                            \cup Wires(c.right, Append(at, "list_r"), in, out)
      [] c.type = "back" -> Wires(c.cmd, Append(at, "back"), in, out)

\* The parser gets back the command a line was written for, and a program that
\* is started has the standard input and output the line gives it, and no
\* other descriptor but standard error open.
WiredAsWritten ==
    /\ Meaning[line[1]] = line[2]
    /\ \A x \in DOMAIN proc : proc[x].pc = "program" =>
         /\ <<proc[x].at, proc[x].fds[0], proc[x].fds[1]>>
                \in Wires(line[2], <<"line">>, Console, Console)
         /\ proc[x].fds[2] = Console /\ \A d \in Fd : d > 2 => proc[x].fds[d] = Closed

\* What follows a ; does not run before everything in front of it has
\* exited, except for what was put into the background, and for the left
\* side of a pipe whose right side could not be forked, which init inherits.
InSequence ==
    \A x, y \in Live : \A k \in 1 .. Len(proc[x].at) :
        LET before == SubSeq(proc[x].at, 1, k - 1) IN
        /\ proc[x].at[k] = "list_l"
        /\ IsPrefix(Append(before, "list_r"), proc[y].at)
        => \/ \E j \in k + 1 .. Len(proc[x].at) : proc[x].at[j] = "back"
           \/ \E z \in DOMAIN proc : proc[z].parent = <<"init">> /\ IsPrefix(z, x)

\* The shell gets back to its prompt, or has panicked, after every line:
\* every reader of a pipe sees end of file and every wait() has its child.
PromptReturns == <>(sh = "done")

=============================================================================
