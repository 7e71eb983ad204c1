----------------------------- MODULE ShellParse -----------------------------
(***************************************************************************)
(* The parser of user/sh.c. gettoken() is taken as done: a line is a       *)
(* sequence of the tokens | ( ) ; & < > >> and words.                      *)
(*                                                                         *)
(* A parse function returns the command and the tokens left; Bad is a      *)
(* panic() of the parser.                                                  *)
(***************************************************************************)
EXTENDS Naturals, Sequences

CONSTANT MAXARGS

EXEC(n) == [type |-> "exec", argc |-> n]
REDIR(c, fd, f) == [type |-> "redir", cmd |-> c, fd |-> fd, file |-> f]
PIPE(l, r) == [type |-> "pipe", left |-> l, right |-> r]
LIST(l, r) == [type |-> "list", left |-> l, right |-> r]
BACK(c) == [type |-> "back", cmd |-> c]
Bad == [type |-> "bad"]

Symbols == {"|", "(", ")", ";", "&", "<", ">", ">>"}
Peek(s, toks) == s # <<>> /\ Head(s) \in toks
Word(s) == s # <<>> /\ Head(s) \notin Symbols
Parsed(c, s) == [cmd |-> c, rest |-> s]
BadParse == Parsed(Bad, <<>>)

\* The file object a redirection opens, and its descriptor.
Redirected(c, tok, f) ==
    REDIR(c, IF tok = "<" THEN 0 ELSE 1,
          <<"file", f, CASE tok = "<" -> "O_RDONLY"
                         [] tok = ">" -> "O_TRUNC"
                         [] tok = ">>" -> "O_CREATE">>)

RECURSIVE parseredirs(_, _)
parseredirs(c, s) ==
    IF ~Peek(s, {"<", ">", ">>"}) THEN Parsed(c, s)
    ELSE IF ~Word(Tail(s)) THEN BadParse
    ELSE parseredirs(Redirected(c, s[1], s[2]), SubSeq(s, 3, Len(s)))

\* One more argument for the EXEC inside the redirections of c.
RECURSIVE AddArg(_)
AddArg(c) == IF c.type = "redir" THEN [c EXCEPT !.cmd = AddArg(@)] ELSE [c EXCEPT !.argc = @ + 1]

RECURSIVE parseargs(_, _, _)
parseargs(c, s, argc) ==
    IF c = Bad \/ s = <<>> \/ Peek(s, {"|", ")", "&", ";"}) THEN Parsed(c, s)
    ELSE IF ~Word(s) \/ argc + 1 >= MAXARGS THEN BadParse
    ELSE LET p == parseredirs(AddArg(c), Tail(s)) IN parseargs(p.cmd, p.rest, argc + 1)

RECURSIVE parseline(_)

parseblock(s) ==
    LET p == parseline(Tail(s)) IN
    IF p.cmd = Bad \/ ~Peek(p.rest, {")"}) THEN BadParse
    ELSE parseredirs(p.cmd, Tail(p.rest))

parseexec(s) ==
    IF Peek(s, {"("}) THEN parseblock(s)
    ELSE LET p == parseredirs(EXEC(0), s) IN parseargs(p.cmd, p.rest, 0)

RECURSIVE parsepipe(_)
parsepipe(s) ==
    LET p == parseexec(s) IN
    IF p.cmd = Bad \/ ~Peek(p.rest, {"|"}) THEN p
    ELSE LET q == parsepipe(Tail(p.rest))
         IN IF q.cmd = Bad THEN q ELSE Parsed(PIPE(p.cmd, q.cmd), q.rest)

RECURSIVE parseback(_)
parseback(p) ==
    IF p.cmd = Bad \/ ~Peek(p.rest, {"&"}) THEN p
    ELSE parseback(Parsed(BACK(p.cmd), Tail(p.rest)))

parseline(s) ==
    LET p == parseback(parsepipe(s)) IN
    IF p.cmd = Bad \/ ~Peek(p.rest, {";"}) THEN p
    ELSE LET q == parseline(Tail(p.rest))
         IN IF q.cmd = Bad THEN q ELSE Parsed(LIST(p.cmd, q.cmd), q.rest)

parsecmd(s) ==
    LET p == parseline(s) IN IF p.rest = <<>> THEN p.cmd ELSE Bad

-----------------------------------------------------------------------------
\* The other way round, for reference: a line that means command c, with
\* parentheses where c is below the given level of the grammar.
RECURSIVE Unparse(_, _)
Unparse(c, level) ==
    LET rank == CASE c.type = "list" -> 0 [] c.type = "back" -> 1
                  [] c.type = "pipe" -> 2 [] OTHER -> 3
        plain == CASE c.type = "list" -> Unparse(c.left, 1) \o <<";">> \o Unparse(c.right, 0)
                   [] c.type = "back" -> Unparse(c.cmd, 1) \o <<"&">>
                   [] c.type = "pipe" -> Unparse(c.left, 3) \o <<"|">> \o Unparse(c.right, 2)
                   [] c.type = "exec" -> [k \in 1 .. c.argc |-> "word"]
                   [] c.type = "redir" -> Unparse(c.cmd, 3) \o
                        <<CASE c.file[3] = "O_RDONLY" -> "<" [] c.file[3] = "O_TRUNC" -> ">"
                            [] c.file[3] = "O_CREATE" -> ">>", c.file[2]>>
    IN IF rank < level THEN <<"(">> \o plain \o <<")">> ELSE plain

=============================================================================
